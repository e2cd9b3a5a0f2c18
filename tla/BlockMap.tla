------------------------------ MODULE BlockMap ------------------------------
(***************************************************************************)
(* read_inode_file: assembling a file's content through resolve_block, the *)
(* index arithmetic over direct, single, double and triple indirect        *)
(* pointers.  One step is one trip round the block loop.                   *)
(***************************************************************************)
EXTENDS BlockTree

VARIABLES
    file,       \* inode, superblock and partition; never written
    pc,         \* "start", "loop", "done", "refused"
    out,        \* the zero-filled buffer of di_size bytes
    remaining,
    written,
    bi          \* logical block index

vars == <<file, pc, out, remaining, written, bi>>

Init ==
    /\ file \in Files
    /\ pc = "start"
    /\ out = << >>
    /\ remaining = 0
    /\ written = 0
    /\ bi = 0

-----------------------------------------------------------------------------

(* size.div_ceil(bsize).                                                   *)
n_blocks == (file.size + file.bsize - 1) \div file.bsize

whole_len == file.bsize
this_len == IF remaining < file.bsize THEN remaining ELSE file.bsize

WrappingSub(a, b) == a - b
SaturatingSub(a, b) == IF a < b THEN 0 ELSE a - b

(* The allocation-bomb guard: di_size exceeds the partition.               *)
RefuseSize ==
    /\ pc = "start"
    /\ file.size > file.part_len
    /\ pc' = "refused"
    /\ UNCHANGED <<file, out, remaining, written, bi>>

(* The buffer is allocated zero-filled; an empty file is done.             *)
Allocate ==
    /\ pc = "start"
    /\ file.size <= file.part_len
    /\ out' = Zeros(file.size)
    /\ remaining' = file.size
    /\ pc' = IF file.size = 0 THEN "done" ELSE "loop"
    /\ UNCHANGED <<file, written, bi>>

(* One block: copy what is present over the zeros, or skip a hole.         *)
CopyBlock ==
    /\ pc = "loop"
    /\ bi < n_blocks
    /\ LET addr  == resolve_block(file, bi, Fanout(file))
           block == IF addr = 0 THEN << >> ELSE read_block(file, addr, this_len)
       IN  out' = [ j \in DOMAIN out |->
                      IF j - written \in 1..Len(block) THEN block[j - written] ELSE out[j] ]
    /\ written' = written + this_len
    /\ remaining' = SaturatingSub(remaining, file.bsize)
    /\ bi' = bi + 1
    /\ UNCHANGED <<file, pc>>

LoopEnd ==
    /\ pc = "loop"
    /\ bi >= n_blocks
    /\ pc' = "done"
    /\ UNCHANGED <<file, out, remaining, written, bi>>

Read == RefuseSize \/ Allocate \/ CopyBlock \/ LoopEnd

Returned == pc \in {"done", "refused"}

Terminating == Returned /\ UNCHANGED vars

Next == Read \/ Terminating

(* A called function keeps running: nothing else holds the thread.         *)
Spec == Init /\ [][Next]_vars /\ WF_vars(Read)

-----------------------------------------------------------------------------

(* Type correctness of the loop's locals.                                  *)
TypeOK ==
    /\ IsFile(file)
    /\ pc \in {"start", "loop", "done", "refused"}
    /\ out \in Seq(Byte)
    /\ remaining \in Nat
    /\ written \in Nat
    /\ bi \in Nat

(* The three counters of the loop agree with the file: the cursor and the  *)
(* remainder add up to di_size, the cursor stands at the block index, and  *)
(* the loop runs on exactly while bytes remain, so the copy never reaches  *)
(* past the buffer and the last, partial block is neither lost nor read    *)
(* twice.                                                                  *)
CountersAgree ==
    pc = "loop" =>
        /\ Len(out) = file.size
        /\ written + remaining = file.size
        /\ bi < n_blocks <=> remaining > 0
        /\ remaining > 0 => written = bi * file.bsize

(* What makes that inductive: the locals before the loop, the buffer from  *)
(* the allocation on, the remainder as a function of the block index, and  *)
(* the zeros the copy has not reached yet.                                 *)
BeforeLoop == pc \in {"start", "refused"} => out = << >> /\ remaining = 0 /\ written = 0 /\ bi = 0
BufferSized ==
    pc \in {"loop", "done"} =>
        /\ file.size <= file.part_len
        /\ Len(out) = file.size
        /\ written + remaining = file.size
RemainderIsRest == pc = "loop" => remaining = SaturatingSub(file.size, bi * file.bsize)
TailIsZero == \A j \in DOMAIN out : j > written => out[j] = 0

BlockInv ==
    /\ file \in Files /\ TypeOK
    /\ BeforeLoop /\ BufferSized /\ RemainderIsRest /\ TailIsZero

(* The slot of the tree a logical block index stands for, by division.     *)
SlotOf(f, b) ==
    LET n  == Fanout(f)
        i1 == b - UFS_NDADDR
        i2 == i1 - n
        i3 == i2 - n * n
    IN  IF b < UFS_NDADDR THEN [level |-> 0, digits |-> <<b>>]
        ELSE IF i1 < n THEN [level |-> 1, digits |-> <<i1>>]
        ELSE IF i2 < n * n THEN [level |-> 2, digits |-> <<i2 \div n, i2 % n>>]
        ELSE IF i3 < n * n * n
             THEN [level |-> 3, digits |-> <<i3 \div (n * n), (i3 \div n) % n, i3 % n>>]
        ELSE EndSlot

Stream == INSTANCE FileStream
    WITH slot   <- SlotOf(file, bi),
         bytes  <- SubSeq(out, 1, written),
         status <- CASE pc = "done"    -> "complete"
                     [] pc = "refused" -> "refused"
                     [] OTHER          -> "reading"

(* read_inode_file implements the file stream: resolve_block's divisions   *)
(* and remainders visit the leaves of the block map in tree order, each    *)
(* once, with holes, short pointer blocks, truncated data blocks and a     *)
(* fragment tail in between, and the buffer ends at exactly di_size.       *)
ImplementsFileStream == Stream!Spec
=============================================================================
