--------------------------- MODULE ReachableWalk ---------------------------
(***************************************************************************)
(* reachable_inodes: the depth-first walk from the root that the orphan    *)
(* check diffs the allocated inodes against.                               *)
(*                                                                         *)
(* One step is one trip round the `while let Some(..) = queue.pop()` loop  *)
(* up to the listing, or one trip round the `for e in &entries` loop.      *)
(***************************************************************************)
EXTENDS UfsDirs

VARIABLES
    pc,         \* "pop", "scan"; "done" (queue drained) or "broke" (budget)
    queue,      \* Vec<u64>, popped from its end
    reachable,  \* Vec<u64> used only through push and contains
    budget,
    dir,        \* dir_ino, the directory being scanned
    idx         \* position in its entries

vars == <<image, pc, queue, reachable, budget, dir, idx>>

Init ==
    /\ image \in Images
    /\ pc = "pop"
    /\ queue = <<RootIno>>
    /\ reachable = {RootIno}
    /\ budget = Budget
    /\ dir = RootIno
    /\ idx = 1

-----------------------------------------------------------------------------

(* The loop ends: the queue is empty.                                      *)
Drained ==
    /\ pc = "pop"
    /\ queue = << >>
    /\ pc' = "done"
    /\ UNCHANGED <<image, queue, reachable, budget, dir, idx>>

(* budget == 0: break.  The directory has been popped already and is lost. *)
BudgetSpent ==
    /\ pc = "pop"
    /\ queue # << >>
    /\ budget = 0
    /\ queue' = Front(queue)
    /\ pc' = "broke"
    /\ UNCHANGED <<image, reachable, budget, dir, idx>>

PopWithUnguarded(ok) ==
    /\ pc = "pop"
    /\ queue # << >>
    /\ image.listing[Last(queue)].ok = ok
    /\ queue' = Front(queue)
    /\ budget' = budget - 1
PopWith(ok) ==
    /\ pc = "pop"
    /\ queue # << >>
    /\ budget > 0
    /\ image.listing[Last(queue)].ok = ok
    /\ queue' = Front(queue)
    /\ budget' = budget - 1

(* A directory that lists: start its `for` loop.                           *)
PopListed ==
    /\ PopWith(TRUE)
    /\ dir' = Last(queue)
    /\ idx' = 1
    /\ pc' = "scan"
    /\ UNCHANGED <<image, reachable>>

(* list_dir_all failed: `else { continue }`.                               *)
PopUnlistableBreaks ==
    /\ PopWith(FALSE)
    /\ pc' = "done"
    /\ UNCHANGED <<image, reachable, dir, idx>>
PopUnlistableRetries ==
    /\ pc = "pop"
    /\ queue # << >>
    /\ budget > 0
    /\ ~image.listing[Last(queue)].ok
    /\ UNCHANGED vars
PopUnlistable ==
    /\ PopWith(FALSE)
    /\ UNCHANGED <<image, pc, reachable, dir, idx>>

(* The entry under the cursor of the `for` loop.                           *)
Current == Entries(image, dir)[idx]

AtEntry ==
    /\ pc = "scan"
    /\ idx <= Len(Entries(image, dir))

(* On to the next entry of the same directory.                             *)
Advance == idx' = idx + 1 /\ UNCHANGED <<image, pc, budget, dir>>

(* reachable.push, and with enter also queue.push.                         *)
Record(enter) ==
    /\ reachable' = reachable \cup {Current.ino}
    /\ queue' = IF enter THEN Append(queue, Current.ino) ELSE queue

(* A deleted slot, ".", or "..": continue.                                 *)
ScanSkipKeepsDots ==
    /\ AtEntry
    /\ ~Names(Current)
    /\ IF Deleted(Current) THEN UNCHANGED <<queue, reachable>> ELSE Record(FALSE)
    /\ Advance
ScanSkip ==
    /\ AtEntry
    /\ ~Names(Current)
    /\ Advance
    /\ UNCHANGED <<queue, reachable>>

(* An inode some earlier entry named: nothing to record.                   *)
ScanSeenRequeues ==
    /\ AtEntry
    /\ Names(Current)
    /\ Current.ino \in reachable
    /\ Record(is_dir_entry(Current))
    /\ Advance
ScanSeen ==
    /\ AtEntry
    /\ Names(Current)
    /\ Current.ino \in reachable
    /\ Advance
    /\ UNCHANGED <<queue, reachable>>

(* The first entry that names an inode, and it calls it a directory.       *)
ScanDirNotEntered ==
    /\ AtEntry
    /\ Names(Current)
    /\ Current.ino \notin reachable
    /\ is_dir_entry(Current)
    /\ Record(FALSE)
    /\ Advance
ScanDir ==
    /\ AtEntry
    /\ Names(Current)
    /\ Current.ino \notin reachable
    /\ is_dir_entry(Current)
    /\ Record(TRUE)
    /\ Advance

(* The first entry that names an inode, and it does not say directory.     *)
ScanFile ==
    /\ AtEntry
    /\ Names(Current)
    /\ Current.ino \notin reachable
    /\ ~is_dir_entry(Current)
    /\ Record(FALSE)
    /\ Advance

ScanEnd ==
    /\ pc = "scan"
    /\ idx > Len(Entries(image, dir))
    /\ pc' = "pop"
    /\ UNCHANGED <<image, queue, reachable, budget, dir, idx>>

Walk ==
    \/ Drained \/ BudgetSpent \/ PopListed \/ PopUnlistable
    \/ ScanSkip \/ ScanSeen \/ ScanDir \/ ScanFile \/ ScanEnd

(* The function has returned.                                              *)
Returned == pc \in {"done", "broke"}

Terminating == Returned /\ UNCHANGED vars

Next == Walk \/ Terminating

(* A called function keeps running: nothing else holds the thread.         *)
Spec == Init /\ [][Next]_vars /\ WF_vars(Walk)
-----------------------------------------------------------------------------

(* Type correctness of the walk's locals (reachable_inodes' four bindings  *)
(* and the position in the for loop).                                      *)
TypeOK ==
    /\ IsImage(image)
    /\ pc \in {"pop", "scan", "done", "broke"}
    /\ queue \in Seq(Ino)
    /\ reachable \in SUBSET Ino
    /\ budget \in 0..Budget
    /\ dir \in Ino
    /\ idx \in 1..(Len(Entries(image, dir)) + 1)

(* reachable_inodes invents nothing: at every step each recorded inode is  *)
(* joined to the root by a chain of live directory slots, whatever cycles, *)
(* dot entries, deleted slots or wrongly typed entries the image holds.    *)
OnlyNamedInodes ==
    \A S \in SUBSET Ino :
        ClosedFromRoot([d \in Ino |-> Children(image, d)], S) => reachable \subseteq S

(* reachable_inodes misses nothing and adds nothing when it drains its     *)
(* queue and the d_type bytes are faithful: its result is exactly the set  *)
(* of inodes the directory tree names, so no referenced inode can be       *)
(* reported as an orphan.                                                  *)
DrainedWalkIsReachability ==
    pc = "done" /\ TypesFaithful(image) =>
        reachable = ReachableFrom([d \in Ino |-> TreeChildren(image, d)])

(* The inodes that are the root or that some live slot calls a directory.  *)
CalledDir(img) == {RootIno} \cup UNION { DirChildren(img, d) : d \in Ino }

(* The budget of reachable_inodes never cuts a walk of at most Budget      *)
(* directories short: `contains` keeps every directory from being queued   *)
(* twice, so the break needs more than Budget distinct ones, cycles and    *)
(* repeated entries notwithstanding.                                       *)
BreakMeansManyDirectories ==
    pc = "broke" => Cardinality(reachable \cap CalledDir(image)) > Budget

(* reachable_inodes lists no directory twice: the pending ones are         *)
(* distinct, and the one being scanned is not pending again even when one  *)
(* of its own slots names it.                                              *)
NoDirectoryTwice ==
    /\ IsInjective(queue)
    /\ pc = "scan" => dir \notin ToSet(queue)

(* The bookkeeping of the walk: what is pending or being scanned has been  *)
(* recorded, and is a directory when the types are faithful.               *)
PendingIsRecorded ==
    /\ RootIno \in reachable
    /\ ToSet(queue) \cup {dir} \subseteq reachable
    /\ TypesFaithful(image) => \A x \in ToSet(queue) \cup {dir} : image.is_dir[x]

(* Only an empty queue ends the loop normally.                             *)
DoneIsDrained == pc = "done" => queue = << >>

(* What the entries before the cursor name has been recorded.              *)
ScannedPrefix ==
    \A i \in 1..(idx - 1) :
        Names(Entries(image, dir)[i]) => Entries(image, dir)[i].ino \in reachable

(* No directory is forgotten: a recorded one is pending, or under the      *)
(* cursor with its earlier slots dealt with, or has all its children       *)
(* recorded.                                                               *)
NothingForgotten ==
    TypesFaithful(image) /\ pc # "broke" =>
        \A x \in reachable :
            \/ ~image.is_dir[x]
            \/ x \in ToSet(queue)
            \/ pc = "scan" /\ x = dir /\ ScannedPrefix
            \/ Children(image, x) \subseteq reachable

(* Every trip round the loop is paid for by a directory recorded once.     *)
BudgetAccounts ==
    /\ IsFiniteSet(reachable)
    /\ pc # "broke" => (Budget - budget) + Len(queue)
                          <= Cardinality(reachable \cap CalledDir(image))
    /\ pc = "broke" => Cardinality(reachable \cap CalledDir(image)) > Budget

(* The graph the walk explores: the directory tree when the types are      *)
(* faithful, else whatever the blocks of the listed inodes decode to.      *)
Graph(img) ==
    [d \in Ino |-> IF TypesFaithful(img) THEN TreeChildren(img, d)
                                         ELSE Children(img, d)]

Search == INSTANCE DirSearch
    WITH Node     <- Ino,
         RootNode <- RootIno,
         edges    <- Graph(image),
         found    <- reachable,
         status   <- CASE pc = "done" /\ TypesFaithful(image) -> "complete"
                       [] Returned /\ ~(pc = "done" /\ TypesFaithful(image)) -> "partial"
                       [] OTHER -> "searching"

(* The walk stays inside every set closed under the graph it explores.     *)
InsideClosedSets ==
    \A S \in SUBSET Ino : ClosedFromRoot(Graph(image), S) => reachable \subseteq S

(* The inductive invariant behind the walk theorems of OrphanSweepProofs.  *)
WalkInv ==
    /\ TypeOK
    /\ PendingIsRecorded
    /\ DoneIsDrained
    /\ NothingForgotten
    /\ NoDirectoryTwice
    /\ BudgetAccounts
    /\ InsideClosedSets

(* reachable_inodes implements the abstract search, one discovery at a     *)
(* time; a drained queue is a complete search when the types are faithful. *)
ImplementsSearch == Search!Spec

(* The documented contract, "the set of inode numbers reachable by a live  *)
(* directory entry from root", taken of the tree the inode modes define    *)
(* (the one read_by_path descends), for any d_type bytes.                  *)
DocReachableSet ==
    pc = "done" /\ image.is_dir[RootIno] =>
        ReachableFrom([d \in Ino |-> TreeChildren(image, d)]) \subseteq reachable
=============================================================================
