---------------------------- MODULE MCDirBlock ----------------------------
(***************************************************************************)
(* A directory of four chunks in two blocks, all direct, holding the dots  *)
(* and a to e; two further names fill the last slack and then a chunk in a *)
(* third block, past the two direct pointers.  Up to three operations,     *)
(* then an image that is sound or has one field or block wrong.            *)
(***************************************************************************)
EXTENDS DirBlock, TLC

MCName == {".", "..", "a", "b", "c", "d", "e", "n", "m"}
Rec(n, len) == [ino |-> 3, reclen |-> len, namlen |-> 1, name |-> n]
Stored ==
    (0 :> Rec(".", 3)) @@ (3 :> Rec("..", 3)) @@ (6 :> Rec("a", 3)) @@ (9 :> Rec("b", 3))
      @@ (12 :> Rec("c", 3)) @@ (15 :> Rec("d", 3)) @@ (18 :> Rec("e", 6))
MCFirst == [ p \in 0..29 |-> IF p \in DOMAIN Stored THEN Stored[p] ELSE Blank ]
MCStarts == DOMAIN Stored

MCJunk == { [ino |-> i, reclen |-> r, namlen |-> l, name |-> "a"] :
              i \in {0, 7}, r \in {0, 2, 3}, l \in {0, 9} }

D(kind, at, value) == [kind |-> kind, at |-> at, value |-> value]
MCDamages ==
    {D("none", 0, 0), D("hole", 0, 0), D("hole", 1, 0)}
      \cup { D("reclen", p, v) : p \in {3, 6, 15}, v \in {0, 1, 2, 4, 40} }
      \cup { D("namlen", p, 9) : p \in {6, 9} }
      \cup { D("size", 0, v) : v \in {0, 5, 13, 19, 100} }
      \cup { D("cut", b, v) : b \in {0, 1}, v \in {0, 5, 8} }
=============================================================================
