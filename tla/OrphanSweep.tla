---------------------------- MODULE OrphanSweep ----------------------------
(***************************************************************************)
(* check_orphaned_inodes: the reachable-inode walk, then a sweep of every  *)
(* cylinder group's inode bitmap that flags each allocated, linked inode   *)
(* the walk did not reach.  The walk is ReachableWalk itself.              *)
(*                                                                         *)
(* An image further holds, for every cylinder group, what cg_inode_bitmap  *)
(* answers (None, or the set of used positions), and for every inode       *)
(* number what read_inode answers about di_nlink (-1 for an error).        *)
(***************************************************************************)
EXTENDS ReachableWalk

CONSTANTS
    Ipg,  \* fs_ipg as parsed, possibly not positive
    Ncg   \* fs_ncg

(* Inode numbers are machine integers, and those of the file system are    *)
(* among them.                                                             *)
ASSUME GroupAssumption ==
    /\ Ipg \in Int /\ Ncg \in Nat
    /\ IsFiniteSet(Ino) /\ (RootIno + 1)..(Ipg * Ncg - 1) \subseteq Ino
    /\ \A img \in Images :
        /\ img.bitmap \in [0..(Ncg - 1) -> [ok : BOOLEAN, used : SUBSET (0..(Ipg - 1))]]
        /\ img.nlink \in [Ino -> Nat \cup {-1}]

VARIABLES
    phase,    \* "walk", "group", "inode", "end"
    cg,
    within,
    orphans   \* the OrphanedInode anomalies pushed, in order

sweepVars == <<phase, cg, within, orphans>>
allVars == <<vars, sweepVars>>

SweepInit ==
    /\ Init
    /\ phase = "walk"
    /\ cg = 0
    /\ within = 0
    /\ orphans = << >>

-----------------------------------------------------------------------------

(* reachable_inodes runs to its return, drained or broke.                  *)
WalkOn == phase = "walk" /\ Walk /\ UNCHANGED sweepVars

(* A non-positive fs_ipg returns before the sweep.                         *)
StartSweep ==
    /\ phase = "walk"
    /\ Returned
    /\ phase' = IF Ipg > 0 THEN "group" ELSE "end"
    /\ UNCHANGED <<vars, cg, within, orphans>>

(* cg_inode_bitmap gave None: skip the whole group.                        *)
SkipGroup ==
    /\ phase = "group" /\ cg < Ncg
    /\ ~image.bitmap[cg].ok
    /\ cg' = cg + 1
    /\ UNCHANGED <<vars, phase, within, orphans>>

EnterGroup ==
    /\ phase = "group" /\ cg < Ncg
    /\ image.bitmap[cg].ok
    /\ within' = 0
    /\ phase' = "inode"
    /\ UNCHANGED <<vars, cg, orphans>>

ino == cg * Ipg + within
total == Ipg * Ncg

(* The inode under the sweep is reported: past the root, used, unreached,  *)
(* readable and linked.                                                    *)
IsOrphanOffByOne ==
    /\ ino > RootIno + 1 /\ ino < total
    /\ within \in image.bitmap[cg].used
    /\ ino \notin reachable
    /\ image.nlink[ino] > 0
IsOrphan ==
    /\ ino >= RootIno + 1 /\ ino < total
    /\ within \in image.bitmap[cg].used
    /\ ino \notin reachable
    /\ image.nlink[ino] > 0

Flag ==
    /\ phase = "inode" /\ within < Ipg
    /\ IsOrphan
    /\ orphans' = Append(orphans, ino)
    /\ within' = within + 1
    /\ UNCHANGED <<vars, phase, cg>>

Pass ==
    /\ phase = "inode" /\ within < Ipg
    /\ ~IsOrphan
    /\ within' = within + 1
    /\ UNCHANGED <<vars, phase, cg, orphans>>

LeaveGroup ==
    /\ phase = "inode" /\ within >= Ipg
    /\ cg' = cg + 1
    /\ phase' = "group"
    /\ UNCHANGED <<vars, within, orphans>>

EndSweep ==
    /\ phase = "group" /\ cg >= Ncg
    /\ phase' = "end"
    /\ UNCHANGED <<vars, cg, within, orphans>>

Sweep ==
    \/ WalkOn \/ StartSweep \/ SkipGroup \/ EnterGroup \/ Flag \/ Pass
    \/ LeaveGroup \/ EndSweep

SweepNext == Sweep \/ (phase = "end" /\ UNCHANGED allVars)

SweepSpec == SweepInit /\ [][SweepNext]_allVars /\ WF_allVars(Sweep)

-----------------------------------------------------------------------------

(* The inodes allocated in a bitmap that can be read and linked, but not   *)
(* among those of R.                                                       *)
AllocatedOutside(R) ==
    { i \in Ino :
        /\ i > RootIno /\ i < total
        /\ image.bitmap[i \div Ipg].ok
        /\ (i % Ipg) \in image.bitmap[i \div Ipg].used
        /\ image.nlink[i] > 0
        /\ i \notin R }

(* The inodes that are orphans by definition: allocated, linked, and named *)
(* by no entry of the directory tree.                                      *)
TrueOrphans ==
    AllocatedOutside(ReachableFrom([d \in Ino |-> TreeChildren(image, d)]))

(* check_orphaned_inodes flags exactly the true orphans, each once and in  *)
(* ascending order, on every image whose types are faithful and that has   *)
(* at most Budget directories; one unreadable group bitmap costs that      *)
(* group's inodes and no others.                                           *)
OrphansExact ==
    phase = "end" /\ Ipg > 0 /\ TypesFaithful(image)
      /\ Cardinality(CalledDir(image)) <= Budget =>
        /\ ToSet(orphans) = TrueOrphans
        /\ \A j, k \in DOMAIN orphans : j < k => orphans[j] < orphans[k]

(* Where the sweep is: it starts once the walk has returned, and ends past *)
(* the last group.                                                         *)
SweepPosition ==
    /\ phase \in {"walk", "group", "inode", "end"}
    /\ cg \in 0..Ncg /\ within \in Nat
    /\ phase = "walk" => cg = 0
    /\ phase # "walk" => Returned
    /\ phase \in {"group", "inode"} => Ipg > 0
    /\ phase = "inode" => cg < Ncg /\ image.bitmap[cg].ok /\ within <= Ipg
    /\ phase = "end" /\ Ipg > 0 => cg = Ncg

(* The first inode number the sweep has not dealt with.                    *)
Frontier == cg * Ipg + (IF phase = "inode" THEN within ELSE 0)

(* What has been flagged is what lies before the frontier, in ascending    *)
(* order.                                                                  *)
FlaggedSoFar ==
    /\ orphans \in Seq(Ino)
    /\ phase = "walk" => orphans = << >>
    /\ phase # "walk" /\ Ipg > 0 =>
          ToSet(orphans) = { i \in AllocatedOutside(reachable) : i < Frontier }
    /\ \A j, k \in DOMAIN orphans : j < k => orphans[j] < orphans[k]

(* The inductive invariant behind OrphansExact.                            *)
SweepInv == WalkInv /\ SweepPosition /\ FlaggedSoFar

(* check_orphaned_inodes returns, and the walk before it, on every image,  *)
(* a cyclic directory graph included.                                      *)
SweepReturns == <>(phase = "end")
=============================================================================
