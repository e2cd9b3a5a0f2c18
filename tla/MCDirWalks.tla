----------------------------- MODULE MCDirWalks -----------------------------
(***************************************************************************)
(* The two walks of the analyzer over the same partition: first the orphan *)
(* check of audit_image, with reachable_inodes in it, then the             *)
(* collect_deleted_dirents of recover_deleted.                             *)
(*                                                                         *)
(* Directory graphs over a root, two directories and an inode 5 that is a  *)
(* file or a directory, with up to two slots in two of them: self-links,   *)
(* cycles, hard links, repeated entries, deleted slots, dot entries, lying *)
(* d_type bytes and an unlistable directory all occur.  With Budget = 3    *)
(* a graph of four directories, or of three slots that name one, spends    *)
(* the budget and a smaller one does not.  Three groups of two inodes:     *)
(* inodes 3 to 5 are judged, in two groups; on the smaller graphs with     *)
(* every bitmap, an unreadable group, and an unlinked or unreadable inode. *)
(* The last set of graphs has residual names, one of them not UTF-8, and   *)
(* nameless and dot slots.                                                 *)
(***************************************************************************)
EXTENDS OrphanSweep, DeletedWalk

MCIno == {2, 3, 4, 5}
MCName == {"", "..", "a", "b*"}
MCInvalidUtf8 == {"b*"}

Slot(i, n, t) == [ino |-> i, name |-> n, file_type |-> t]
Dir(i) == Slot(i, "a", "Directory")
File == Slot(5, "a", "Regular")
Untyped == Slot(4, "a", "Unknown")
Up == Slot(4, "..", "Directory")
Freed(n) == Slot(0, n, "Regular")

Slots == {Dir(2), Dir(3), Dir(4), Dir(5), Untyped, File, Dir(0), Up}

Listed(es) == [ok |-> TRUE, entries |-> es]
Unlistable == [ok |-> FALSE, entries |-> << >>]

Image(r, a, b, m, used, lost, nlinks) ==
    [ listing |-> (2 :> Listed(r)) @@ (3 :> Listed(a)) @@ (4 :> b) @@ (5 :> Listed(<<Dir(3)>>)),
      is_dir  |-> [ i \in MCIno |-> i # 5 \/ m ],
      bitmap  |-> [ c \in 0..2 |-> [ok |-> c # lost, used |-> { w \in 0..1 : 2 * c + w \in used }] ],
      nlink   |-> nlinks ]

AllUsed == 0..5
Linked == [ i \in MCIno |-> 1 ]
Threes ==
    {<< >>, <<Dir(3), Dir(4)>>, <<Untyped, Dir(4)>>, <<Dir(4), File>>, <<Dir(2), File>>,
     <<Dir(0), Dir(4)>>}
Fours == {Listed(<<Dir(2)>>), Listed(<<Dir(3)>>), Listed(<<File>>), Unlistable}

(* Slots with what a removal leaves.                                       *)
Residues ==
    {Dir(3), Dir(4), Freed(""), Freed("a"), Freed("b*"), Slot(0, "..", "Directory"), Up}
ResidualThrees ==
    {<< >>, <<Freed("a")>>, <<Freed("b*"), Dir(4)>>, <<Dir(2), Freed("a")>>, <<Dir(4), Dir(4)>>,
     <<Up, Freed("b*")>>, <<Freed(""), Freed("a")>>, <<Dir(3), Freed("b*")>>}

MCImages ==
    { Image(r, a, b, m, AllUsed, 3, Linked) :
        r \in BoundedSeq(Slots, 2), a \in Threes, b \in Fours, m \in BOOLEAN }
      \cup
    { Image(r, a, b, TRUE, {2, 4} \cup u, lost, [Linked EXCEPT ![3] = n, ![5] = k]) :
        r \in {<< >>, <<Dir(3)>>, <<Dir(5)>>, <<Dir(3), Dir(5)>>}, a \in BoundedSeq({Dir(4), Dir(2)}, 1),
        b \in Fours, u \in SUBSET {3, 5}, lost \in {1, 2, 3}, n \in {0, 1}, k \in {-1, 2} }
      \cup
    { Image(r, a, b, FALSE, AllUsed, 3, Linked) :
        r \in BoundedSeq(Residues, 2), a \in ResidualThrees,
        b \in {Listed(<<Freed("a"), Dir(2)>>), Unlistable} }

-----------------------------------------------------------------------------

localVars == <<dpc, dqueue, visited, dbudget, dir_ino, didx, deleted>>

(* The analyzer is one thread: the second walk starts when the orphan      *)
(* check has returned, over the image both borrow.                         *)
WalksInit == SweepInit /\ CollectStart
WalksStep ==
    \/ Sweep /\ UNCHANGED localVars
    \/ phase = "end" /\ CollectWalk /\ UNCHANGED allVars
WalksNext == WalksStep \/ (phase = "end" /\ Collected /\ UNCHANGED <<allVars, localVars>>)

WalksSpec ==
    WalksInit /\ [][WalksNext]_<<allVars, localVars>> /\ WF_<<allVars, localVars>>(WalksStep)
=============================================================================
