---------------------------- MODULE MCVfsSession ----------------------------
(***************************************************************************)
(* A volume of 25 fragments, in both formats and byte orders: a root of    *)
(* two blocks with a deleted slot, a duplicate name and a name that the    *)
(* end of the memory may cut, a subdirectory with an entry whose inode is  *)
(* out of range and one with an empty name, a file with a direct block, a  *)
(* hole, an indirect block and a tail, a file whose bytes look like a      *)
(* directory entry, and a symlink that is inline, exactly fs_maxsymlinklen *)
(* long, one byte longer and so in blocks, or longer than the pointer      *)
(* region under a bound that lies.                                         *)
(***************************************************************************)
EXTENDS VfsSession

MCAddr == 0..1023
MCByte == 0..31
MCName == {".", "..", "d", "f", "ln", "l"}

Ptrs(v, ws) == FoldLeft(LAMBDA acc, w : acc \o Enc(v, w), << >>, ws)
NoPtrs == <<0, 0, 0, 0, 0>>

Regular == 8 * 4096 + 420
Dir == 4 * 4096 + 493
Link == 10 * 4096 + 511

D(mode, size, pos, ptrs) ==
    [mode |-> mode, size |-> size, pos |-> pos, birthtime |-> 9, region |-> ptrs,
     target |-> << >>, inline |-> FALSE, blocks |-> << >>, ib |-> 0]
S(ino, name, pos) == [ino |-> ino, name |-> name, short |-> name, pos |-> pos, last |-> pos]

Target(n) == SubSeq(<<10, 3, 22, 7, 16, 30, 5, 8, 2, 1, 4, 6>>, 1, n)

Vol(version, endian, max, size) ==
    LET v == [version |-> version, endian |-> endian]
        fast == max > 0 /\ size <= max
        full == Target(size)
        ptrs == IF fast THEN SubSeq(full \o Zeros(12), 1, 5 * PtrSize(v))
                ELSE Ptrs(v, <<16, 18, 20, 0, 0>>)
        At(j) == IF j <= size /\ ~fast THEN full[j] ELSE 0
    IN  [ version |-> version, endian |-> endian, sb_end |-> 2, bsize |-> 2,
          maxsymlinklen |-> max, count |-> 7,
          bytes |-> Zeros(10) \o <<25, 26>>
                      \o (IF version = "Ufs1" THEN <<14, 8>> ELSE Enc(v, 14)) \o <<27, 28>>
                      \o <<At(1), At(2), At(3), At(4)>>
                      \o SubSeq(Enc(v, 22) \o <<0>>, 1, 2) \o <<At(5), At(6)>> \o <<0>>,
          dinode |->
            (0 :> D(0, 0, 2, Ptrs(v, NoPtrs))) @@ (2 :> D(Dir, 4, 2, Ptrs(v, <<4, 6, 0, 0, 0>>)))
              @@ (3 :> D(Dir, 2, 2, Ptrs(v, <<8, 0, 0, 0, 0>>)))
              @@ (4 :> D(Regular, 7, 3, Ptrs(v, <<10, 0, 12, 0, 0>>)))
              @@ (5 :> [D(Link, size, 3, ptrs) EXCEPT !.target = full, !.inline = fast,
                                                      !.blocks = <<16, 18, 22>>, !.ib = 20])
              @@ (6 :> D(Regular, 3, 24, Ptrs(v, <<0, 14, 0, 0, 0>>)))
              @@ (7 :> D(0, 0, 24, Ptrs(v, NoPtrs))),
          slots |->
            [ i \in Ino |->
                CASE i = 2 -> <<S(2, ".", 4), S(2, "..", 4), S(3, "d", 5), S(0, "f", 5), S(4, "f", 6),
                                [S(5, "ln", 6) EXCEPT !.short = "l", !.last = 7],
                                S(6, "l", 7), S(6, "f", 7)>>
                  [] i = 3 -> <<S(3, ".", 8), S(2, "..", 8), S(7, "f", 9), S(6, "", 9), S(5, "l", 9)>>
                  [] i = 6 -> <<S(4, "f", 14)>>
                  [] OTHER -> << >> ] ]

MCVolumes ==
    { Vol("Ufs1", "Big", m[1], m[2]) : m \in {<<0, 3>>, <<5, 5>>, <<5, 6>>, <<7, 6>>} }
      \cup { Vol("Ufs2", "Little", m[1], m[2]) : m \in {<<3, 3>>, <<3, 4>>} }
      \cup { Vol("Ufs2", "Big", m[1], m[2]) : m \in {<<3, 4>>, <<10, 6>>} }
=============================================================================
