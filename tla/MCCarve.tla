------------------------------ MODULE MCCarve ------------------------------
(***************************************************************************)
(* Two groups of four inodes, one inode handed out in each (the last of    *)
(* group 0 and the first of group 1), two blocks to fight over, two names, *)
(* up to three creations: enough for an inode, a block, a slot and a name  *)
(* to be freed and taken again in every order.                             *)
(***************************************************************************)
EXTENDS Carve

MCBlock == {1, 2}
MCFileName == {"a", "b"}
MCAllocated == {3, 4}
=============================================================================
