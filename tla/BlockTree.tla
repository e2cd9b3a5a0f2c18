----------------------------- MODULE BlockTree -----------------------------
(***************************************************************************)
(* The block map of a UFS inode as the reader sees it, and its order.      *)
(*                                                                         *)
(* A file record holds what the code reads of the superblock, the inode    *)
(* and the partition: di_size, fs_bsize, fs_nindir (any 32-bit value, the  *)
(* superblock does not validate it), the partition length, di_db, di_ib,   *)
(* the pointers an indirect block holds and the bytes a data block holds.  *)
(* A pointer block or data block cut off by the end of the partition is a  *)
(* shorter sequence.                                                       *)
(***************************************************************************)
EXTENDS Integers, Sequences, SequencesExt

CONSTANTS
    UFS_NDADDR,  \* direct pointers of an inode, 12 in the format
    Files,       \* the files under study
    Addr,        \* fragment addresses; 0 is a hole
    Byte         \* byte values; 0 among them

UFS_NIADDR == 3

IsFile(f) ==
    /\ f.size \in Nat
    /\ f.bsize \in Nat \ {0}
    /\ f.nindir \in Int
    /\ f.part_len \in Nat
    /\ f.direct \in [0..(UFS_NDADDR - 1) -> Addr]
    /\ f.indirect \in [0..(UFS_NIADDR - 1) -> Addr]
    /\ f.ptrs \in [Addr \ {0} -> Seq(Addr)]
    /\ f.data \in [Addr \ {0} -> Seq(Byte)]

ASSUME TreeAssumption ==
    /\ UFS_NDADDR \in Nat \ {0}
    /\ 0 \in Addr /\ 0 \in Byte
    /\ \A f \in Files : IsFile(f)

-----------------------------------------------------------------------------

(* indirect_ptr: a hole has only holes below it, and a read past the end   *)
(* of the pointer block yields 0.                                          *)
indirect_ptr(f, ind_addr, idx) ==
    IF ind_addr # 0 /\ idx < Len(f.ptrs[ind_addr]) THEN f.ptrs[ind_addr][idx + 1] ELSE 0

(* The `nindir` read_inode_file derives from fs_nindir.                    *)
Fanout(f) == IF f.nindir > 0 THEN f.nindir ELSE 0

(* resolve_block, the code's index arithmetic over the four levels.        *)
resolve_blockNoRebase(f, b, nindir) ==
    LET i == b - UFS_NDADDR
    IN  IF b < UFS_NDADDR THEN f.direct[b]
        ELSE IF nindir = 0 THEN 0
        ELSE IF i < nindir THEN indirect_ptr(f, f.indirect[0], i)
        ELSE indirect_ptr(f, indirect_ptr(f, f.indirect[1], i \div nindir), i % nindir)
resolve_block(f, b, nindir) ==
    LET i       == b - UFS_NDADDR
        i2      == i - nindir
        nindir2 == nindir * nindir
        i3      == i2 - nindir2
        rem     == i3 % nindir2
        dib     == indirect_ptr(f, f.indirect[2], i3 \div nindir2)
    IN  IF b < UFS_NDADDR THEN f.direct[b]
        ELSE IF nindir = 0 THEN 0
        ELSE IF i < nindir THEN indirect_ptr(f, f.indirect[0], i)
        ELSE IF i2 < nindir2 THEN
             indirect_ptr(f, indirect_ptr(f, f.indirect[1], i2 \div nindir), i2 % nindir)
        ELSE IF i3 >= nindir2 * nindir THEN 0
        ELSE indirect_ptr(f, indirect_ptr(f, dib, rem \div nindir), rem % nindir)

(* read_block for a data address: clamped to what the partition holds.     *)
read_block(f, addr, len) ==
    SubSeq(f.data[addr], 1, IF len < Len(f.data[addr]) THEN len ELSE Len(f.data[addr]))

-----------------------------------------------------------------------------

(* The order of the leaves, the way the format defines it and without any  *)
(* division: a slot is a level (0 for di_db, 1..3 for the trees under      *)
(* di_ib) and one digit per level of the tree.  The next slot is the next  *)
(* word of the same length in dictionary order, else the first slot of the *)
(* next level that has any.                                                *)
FirstSlot == [level |-> 0, digits |-> <<0>>]
EndSlot == [level |-> UFS_NIADDR + 1, digits |-> << >>]

(* How far digit k of a slot may count.                                    *)
Base(f, level) == IF level = 0 THEN UFS_NDADDR ELSE Fanout(f)

FirstOfLevel(f, level) ==
    IF level > UFS_NIADDR \/ Fanout(f) = 0 THEN EndSlot
    ELSE [level |-> level, digits |-> [k \in 1..level |-> 0]]

NextSlot(f, s) ==
    LET open == { k \in DOMAIN s.digits : s.digits[k] < Base(f, s.level) - 1 }
        k == CHOOSE m \in open : \A n \in open : n <= m
    IN  IF s = EndSlot THEN EndSlot
        ELSE IF open = {} THEN FirstOfLevel(f, s.level + 1)
        ELSE [s EXCEPT !.digits = [ j \in DOMAIN s.digits |->
                 IF j < k THEN s.digits[j] ELSE IF j = k THEN s.digits[j] + 1 ELSE 0 ]]

(* The data address a slot leads to; past the last level, a hole.          *)
Leaf(f, s) ==
    LET d == s.digits
        Under(a, i) == indirect_ptr(f, a, i)
    IN  CASE s.level = 0 -> f.direct[d[1]]
          [] s.level = 1 -> Under(f.indirect[0], d[1])
          [] s.level = 2 -> Under(Under(f.indirect[1], d[1]), d[2])
          [] s.level = 3 -> Under(Under(Under(f.indirect[2], d[1]), d[2]), d[3])
          [] OTHER       -> 0

Zeros(n) == [i \in 1..n |-> 0]

(* What a block of the file contributes: its bytes, then zeros for a hole  *)
(* or for what the partition does not hold.                                *)
BlockBytes(f, addr, len) ==
    LET b == IF addr = 0 THEN << >> ELSE read_block(f, addr, len)
    IN  b \o Zeros(len - Len(b))
=============================================================================
