---------------------------- MODULE DeletedWalk ----------------------------
(***************************************************************************)
(* collect_deleted_dirents: the walk that gathers the residual names of    *)
(* zeroed directory slots.  Unlike reachable_inodes it queues a directory  *)
(* every time a slot names it and sorts the repeats out when it pops, so   *)
(* its budget is charged per directory entry and not per directory.        *)
(*                                                                         *)
(* The two walks are checked side by side, so the locals of this one that  *)
(* bear the other's names carry a d, and its parts the word Collect.       *)
(***************************************************************************)
EXTENDS UfsDirs

CONSTANT InvalidUtf8   \* the names that are not UTF-8

ASSUME NameAssumption == InvalidUtf8 \subseteq Name \ {"", ".", ".."}

VARIABLES
    dpc,      \* "pop", "scan"; "done" (queue drained) or "broke" (budget)
    dqueue,   \* Vec<u64>, popped from its end
    visited,  \* Vec<u64> used only through push and contains
    dbudget,
    dir_ino,  \* the directory being scanned
    didx,     \* position in its entries
    deleted   \* the result: Vec<(String, u64)>

collectVars == <<image, dpc, dqueue, visited, dbudget, dir_ino, didx, deleted>>

(* The locals at the call.                                                 *)
CollectStart ==
    /\ dpc = "pop"
    /\ dqueue = <<RootIno>>
    /\ visited = {}
    /\ dbudget = Budget
    /\ dir_ino = RootIno
    /\ didx = 1
    /\ deleted = << >>

CollectInit == image \in Images /\ CollectStart

-----------------------------------------------------------------------------

(* from_utf8_lossy: names that are not UTF-8 lose the bytes that told them *)
(* apart.                                                                  *)
decode_name(name) == IF name \in InvalidUtf8 THEN "lossy" ELSE name

(* The loop ends: the queue is empty.                                      *)
CollectDrained ==
    /\ dpc = "pop"
    /\ dqueue = << >>
    /\ dpc' = "done"
    /\ UNCHANGED <<image, dqueue, visited, dbudget, dir_ino, didx, deleted>>

(* budget == 0: break, after the pop.                                      *)
CollectSpent ==
    /\ dpc = "pop"
    /\ dqueue # << >>
    /\ dbudget = 0
    /\ dqueue' = Front(dqueue)
    /\ dpc' = "broke"
    /\ UNCHANGED <<image, visited, dbudget, dir_ino, didx, deleted>>

(* The pop is charged whether or not the directory is new.                 *)
Pop ==
    /\ dpc = "pop"
    /\ dqueue # << >>
    /\ dbudget > 0
    /\ dqueue' = Front(dqueue)
    /\ dbudget' = dbudget - 1

(* visited.contains: continue.                                             *)
PopVisitedKept ==
    /\ dpc = "pop"
    /\ dqueue # << >>
    /\ dbudget > 0
    /\ Last(dqueue) \in visited
    /\ UNCHANGED collectVars
PopVisited ==
    /\ Pop
    /\ Last(dqueue) \in visited
    /\ UNCHANGED <<image, dpc, visited, dir_ino, didx, deleted>>

(* A new directory that does not list: it stays visited, nothing is read.  *)
PopNewUnlistableBreaks ==
    /\ Pop
    /\ Last(dqueue) \notin visited
    /\ ~image.listing[Last(dqueue)].ok
    /\ visited' = visited \cup {Last(dqueue)}
    /\ dpc' = "done"
    /\ UNCHANGED <<image, dir_ino, didx, deleted>>
PopNewUnlistable ==
    /\ Pop
    /\ Last(dqueue) \notin visited
    /\ ~image.listing[Last(dqueue)].ok
    /\ visited' = visited \cup {Last(dqueue)}
    /\ UNCHANGED <<image, dpc, dir_ino, didx, deleted>>

(* A new directory that lists: start its for loop.                         *)
PopNewUnmarked ==
    /\ Pop
    /\ Last(dqueue) \notin visited
    /\ image.listing[Last(dqueue)].ok
    /\ visited' = IF Last(dqueue) = RootIno THEN visited ELSE visited \cup {Last(dqueue)}
    /\ dir_ino' = Last(dqueue)
    /\ didx' = 1
    /\ dpc' = "scan"
    /\ UNCHANGED <<image, deleted>>
PopNewAgain ==
    /\ Pop
    /\ image.listing[Last(dqueue)].ok
    /\ visited' = visited \cup {Last(dqueue)}
    /\ dir_ino' = Last(dqueue)
    /\ didx' = 1
    /\ dpc' = "scan"
    /\ UNCHANGED <<image, deleted>>
PopNew ==
    /\ Pop
    /\ Last(dqueue) \notin visited
    /\ image.listing[Last(dqueue)].ok
    /\ visited' = visited \cup {Last(dqueue)}
    /\ dir_ino' = Last(dqueue)
    /\ didx' = 1
    /\ dpc' = "scan"
    /\ UNCHANGED <<image, deleted>>

(* The entry under the cursor of the `for` loop.                           *)
CurrentSlot == Entries(image, dir_ino)[didx]

AtSlot ==
    /\ dpc = "scan"
    /\ didx <= Len(Entries(image, dir_ino))

(* On to the next entry of the same directory.                             *)
AdvanceSlot == didx' = didx + 1 /\ UNCHANGED <<image, dpc, visited, dbudget, dir_ino>>

(* A zeroed slot with a residual name that is not empty, "." or "..".      *)
IsResidual(e) == Deleted(e) /\ e.name # "" /\ ~IsDot(e)

Collect ==
    /\ AtSlot
    /\ IsResidual(CurrentSlot)
    /\ deleted' = Append(deleted, <<decode_name(CurrentSlot.name), CurrentSlot.ino>>)
    /\ AdvanceSlot
    /\ UNCHANGED dqueue

EnterDir ==
    /\ AtSlot
    /\ Names(CurrentSlot)
    /\ is_dir_entry(CurrentSlot)
    /\ dqueue' = Append(dqueue, CurrentSlot.ino)
    /\ AdvanceSlot
    /\ UNCHANGED deleted

(* A nameless slot, a dot entry or a non-directory: neither branch.        *)
SkipEntry ==
    /\ AtSlot
    /\ ~IsResidual(CurrentSlot)
    /\ ~(Names(CurrentSlot) /\ is_dir_entry(CurrentSlot))
    /\ AdvanceSlot
    /\ UNCHANGED <<dqueue, deleted>>

SlotsEnd ==
    /\ dpc = "scan"
    /\ didx > Len(Entries(image, dir_ino))
    /\ dpc' = "pop"
    /\ UNCHANGED <<image, dqueue, visited, dbudget, dir_ino, didx, deleted>>

CollectWalk ==
    \/ CollectDrained \/ CollectSpent \/ PopVisited \/ PopNewUnlistable \/ PopNew
    \/ Collect \/ EnterDir \/ SkipEntry \/ SlotsEnd

(* The function has returned.                                              *)
Collected == dpc \in {"done", "broke"}

CollectTerminating == Collected /\ UNCHANGED collectVars

CollectNext == CollectWalk \/ CollectTerminating

(* A called function keeps running: nothing else holds the thread.         *)
CollectSpec == CollectInit /\ [][CollectNext]_collectVars /\ WF_collectVars(CollectWalk)

-----------------------------------------------------------------------------

(* Type correctness of the walk's locals.                                  *)
CollectTypeOK ==
    /\ IsImage(image)
    /\ dpc \in {"pop", "scan", "done", "broke"}
    /\ dqueue \in Seq(Ino)
    /\ visited \in SUBSET Ino
    /\ dbudget \in 0..Budget
    /\ dir_ino \in Ino
    /\ didx \in 1..(Len(Entries(image, dir_ino)) + 1)
    /\ deleted \in Seq((Name \cup {"lossy"}) \X (Ino \cup {0}))

(* The directories the walk is meant to visit.                             *)
DirGraph(img) == [d \in Ino |-> DirChildren(img, d)]

(* The slots of the directories D, as directory and position, and what a   *)
(* slot contributes to the result when it is collected.                    *)
SlotsOf(img, D) == UNION { {d} \X DOMAIN Entries(img, d) : d \in D }
SlotAt(img, s) == Entries(img, s[1])[s[2]]
Residue(e) == <<decode_name(e.name), e.ino>>

(* The slots among S that hold the residue p, and those that queue a       *)
(* directory.                                                              *)
ResidualSlots(img, S, p) ==
    { s \in S : IsResidual(SlotAt(img, s)) /\ Residue(SlotAt(img, s)) = p }
DirSlots(img, S) ==
    { s \in S : Names(SlotAt(img, s)) /\ is_dir_entry(SlotAt(img, s)) }

(* collect_deleted_dirents reports every residual name of every directory  *)
(* it can reach exactly as often as a slot holds it: a directory that is   *)
(* hard-linked, cyclic or named by a repeated slot is not collected twice, *)
(* and an unlistable one does not hide the rest.                           *)
EachSlotCollectedOnce ==
    dpc = "done" =>
        \A p \in (Name \cup {"lossy"}) \X {0} :
            Cardinality({ k \in DOMAIN deleted : deleted[k] = p })
              = Cardinality(ResidualSlots(image, SlotsOf(image, ReachableFrom(DirGraph(image))), p))

(* collect_deleted_dirents breaks only when the directories it visited     *)
(* hold at least Budget slots that name directories (the root is queued    *)
(* once more, by nobody): repeats spend the budget, the visited set only   *)
(* keeps them from being read again.                                       *)
BreakMeansManySlots ==
    dpc = "broke" => Cardinality(DirSlots(image, SlotsOf(image, visited))) >= Budget

(* The slots the walk has dealt with: all of a visited directory, or those *)
(* before the cursor of the one being scanned.                             *)
Scanned == { s \in SlotsOf(image, visited) : dpc = "scan" /\ s[1] = dir_ino => s[2] < didx }

(* The directory being scanned is visited, and what is pending is the root *)
(* or named by a slot already dealt with.                                  *)
PendingIsNamed ==
    /\ dpc = "scan" => dir_ino \in visited
    /\ \A y \in ToSet(dqueue) :
          y = RootIno \/ \E s \in DirSlots(image, Scanned) : SlotAt(image, s).ino = y

(* Nothing is forgotten: the root and every directory named by a slot the  *)
(* walk has dealt with is visited or pending.                              *)
NoSlotForgotten ==
    dpc # "broke" =>
        /\ RootIno \in visited \cup ToSet(dqueue)
        /\ \A s \in DirSlots(image, Scanned) :
              SlotAt(image, s).ino \in visited \cup ToSet(dqueue)

(* Only an empty queue ends the loop normally.                             *)
CollectDoneIsDrained == dpc = "done" => dqueue = << >>

(* The result holds each residue as often as the slots dealt with do.      *)
CollectedExactly ==
    /\ IsFiniteSet(Scanned)
    /\ \A p \in (Name \cup {"lossy"}) \X {0} :
          Cardinality({ k \in DOMAIN deleted : deleted[k] = p })
            = Cardinality(ResidualSlots(image, Scanned, p))

(* Every trip round the loop, made or to come, was paid for by a slot that *)
(* names a directory, the first one by the call itself.                    *)
SlotsPayBudget ==
    LET pushed == Cardinality(DirSlots(image, Scanned))
    IN  /\ dpc # "broke" => (Budget - dbudget) + Len(dqueue) = pushed + 1
        /\ dpc = "broke" => pushed >= Budget

(* The walk stays inside every set closed under the graph it explores.     *)
VisitedInsideClosedSets ==
    \A S \in SUBSET Ino :
        ClosedFromRoot(DirGraph(image), S) => visited \cup ToSet(dqueue) \subseteq S

(* The inductive invariant behind the theorems of DeletedWalkProofs.       *)
CollectInv ==
    /\ CollectTypeOK
    /\ PendingIsNamed
    /\ NoSlotForgotten
    /\ CollectDoneIsDrained
    /\ CollectedExactly
    /\ SlotsPayBudget
    /\ VisitedInsideClosedSets

(* collect_deleted_dirents returns on every image.                         *)
CollectReturns == <>Collected

CollectSearch == INSTANCE DirSearch
    WITH Node     <- Ino,
         RootNode <- RootIno,
         edges    <- DirGraph(image),
         found    <- visited \cup {RootIno},
         status   <- CASE dpc = "done" -> "complete"
                       [] dpc = "broke" -> "partial"
                       [] OTHER -> "searching"

(* collect_deleted_dirents implements the abstract search over the         *)
(* directories that live slots name, found when they are visited: it never *)
(* opens an inode no visited directory names, and an empty queue is a      *)
(* complete search.                                                        *)
CollectImplementsSearch == CollectSearch!Spec
=============================================================================
