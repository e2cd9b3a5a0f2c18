----------------------------- MODULE MCBlockMap -----------------------------
(***************************************************************************)
(* One block map with every level populated (the format's twelve direct    *)
(* pointers, two pointers to a pointer block, two bytes to a block), read  *)
(* with every single pointer punched out in turn, with a pointer block cut *)
(* short, with a data block cut short, with fs_nindir zero, too small and  *)
(* right, and with sizes on both sides of every level's edge.              *)
(***************************************************************************)
EXTENDS BlockMap

(* 1..12 direct data; 20s pointer blocks; 40s data under the trees.        *)
PtrBlock ==
    (20 :> <<40, 41>>) @@                                      \* di_ib[0]
    (21 :> <<22, 23>>) @@ (22 :> <<42, 43>>) @@ (23 :> <<44, 45>>) @@  \* di_ib[1]
    (24 :> <<25, 26>>) @@ (25 :> <<27, 28>>) @@ (26 :> <<29, 30>>) @@  \* di_ib[2]
    (27 :> <<46, 47>>) @@ (28 :> <<48, 49>>) @@ (29 :> <<50, 51>>) @@ (30 :> <<52, 53>>)

MCAddr == (0..12) \cup (20..30) \cup (40..53)
MCByte == 0..(2 * 53 + 1)

(* Each address holds two bytes of its own; `short` holds only one.        *)
Data(short) ==
    [ a \in MCAddr \ {0} |-> IF a = short THEN <<2 * a>> ELSE <<2 * a, 2 * a + 1>> ]

(* A hole in place of address h, wherever it is stored.                    *)
Punch(h, a) == IF a = h THEN 0 ELSE a

Ptrs(h, short) ==
    [ a \in MCAddr \ {0} |->
        IF a \notin DOMAIN PtrBlock THEN << >>
        ELSE IF a = short THEN <<Punch(h, PtrBlock[a][1])>>
        ELSE <<Punch(h, PtrBlock[a][1]), Punch(h, PtrBlock[a][2])>> ]

File(size, n, h, short) ==
    [ size |-> size, bsize |-> 2, nindir |-> n, part_len |-> 60,
      direct |-> [ i \in 0..11 |-> Punch(h, i + 1) ],
      indirect |-> (0 :> Punch(h, 20)) @@ (1 :> Punch(h, 21)) @@ (2 :> Punch(h, 24)),
      ptrs |-> Ptrs(h, short), data |-> Data(short) ]

(* Reaches: 24 direct, 28 single, 36 double, 52 triple; 60 the partition.  *)
MCFiles ==
    { File(size, n, h, short) :
        size \in {0, 1, 24, 25, 28, 29, 36, 51, 52, 61},
        n \in {-1, 1, 2},
        h \in {0, 12, 20, 22, 24, 30, 43},
        short \in {0, 12, 21, 53} }
=============================================================================
