----------------------------- MODULE FileStream -----------------------------
(***************************************************************************)
(* What reading a file promises: a di_size larger than the partition is    *)
(* refused, otherwise the blocks of the file come out in tree order, each  *)
(* once, until exactly di_size bytes are out.                              *)
(***************************************************************************)
EXTENDS BlockTree

VARIABLES
    file,    \* the file being read
    slot,    \* the next leaf in tree order
    bytes,   \* what has been read so far
    status   \* "reading", "complete", "refused"

vars == <<file, slot, bytes, status>>

Init ==
    /\ file \in Files
    /\ slot = FirstSlot
    /\ bytes = << >>
    /\ status = "reading"

Refuse ==
    /\ status = "reading"
    /\ file.size > file.part_len
    /\ bytes = << >>
    /\ status' = "refused"
    /\ UNCHANGED <<file, slot, bytes>>

Emit ==
    /\ status = "reading"
    /\ file.size <= file.part_len
    /\ Len(bytes) < file.size
    /\ LET left == file.size - Len(bytes)
           len  == IF left < file.bsize THEN left ELSE file.bsize
       IN  bytes' = bytes \o BlockBytes(file, Leaf(file, slot), len)
    /\ slot' = NextSlot(file, slot)
    /\ UNCHANGED <<file, status>>

Finish ==
    /\ status = "reading"
    /\ file.size <= file.part_len
    /\ Len(bytes) = file.size
    /\ status' = "complete"
    /\ UNCHANGED <<file, slot, bytes>>

Next == Refuse \/ Emit \/ Finish

Spec == Init /\ [][Next]_vars
=============================================================================
