----------------------------- MODULE DirSearch -----------------------------
(***************************************************************************)
(* What a walk of a directory graph promises, whatever its order of visit: *)
(* it only ever finds nodes named by nodes it has found, it finds each     *)
(* node once, it says "complete" only when nothing is left to find, and    *)
(* says "partial" when it gave up.  reachable_inodes and                   *)
(* collect_deleted_dirents both implement it.                              *)
(***************************************************************************)
CONSTANTS Node, RootNode

VARIABLES
    edges,   \* [Node -> SUBSET Node], the graph; never changes
    found,   \* the nodes the walk has found
    status   \* "searching", "complete" or "partial"

vars == <<edges, found, status>>

Init ==
    /\ edges \in [Node -> SUBSET Node]
    /\ found = {RootNode}
    /\ status = "searching"

Discover ==
    /\ status = "searching"
    /\ \E x \in found : \E y \in edges[x] \ found : found' = found \cup {y}
    /\ UNCHANGED <<edges, status>>

Conclude ==
    /\ status = "searching"
    /\ \A x \in found : edges[x] \subseteq found
    /\ status' = "complete"
    /\ UNCHANGED <<edges, found>>

GiveUp ==
    /\ status = "searching"
    /\ status' = "partial"
    /\ UNCHANGED <<edges, found>>

Next == Discover \/ Conclude \/ GiveUp

Spec == Init /\ [][Next]_vars
=============================================================================
