----------------------------- MODULE MCRecover -----------------------------
(***************************************************************************)
(* recover_deleted from its first call on: parse_primary_sb, beside the    *)
(* probe and the open of the reader, over every pair of superblock regions *)
(* of MCPrimarySb; and, where it returns a superblock, names and carving   *)
(* over every history of MCCarve.                                          *)
(*                                                                         *)
(* No file touches the superblock, so the search can be settled before the *)
(* history begins.  The history is explored behind one sound superblock    *)
(* that the reader probed in full: recovery sees no other part of it.      *)
(***************************************************************************)
EXTENDS MCPrimarySb, MCCarve

Good == [size |-> "full", magic |-> "Ufs2 Little", bsize |-> 4096, fsize |-> 4096, ncg |-> 4]
Sound == [off \in Offsets |-> IF off = "SBLOCK_UFS2" THEN Good ELSE [Good EXCEPT !.magic = "neither"]]

Found == Returned /\ auditor.verdict = "Ok" /\ region = Sound /\ probe.window = Offsets

RecoverInit == SearchInit /\ Init
RecoverNext ==
    \/ Search /\ UNCHANGED vars
    \/ ~Found /\ AllReturned /\ UNCHANGED vars
    \/ Found /\ Next /\ UNCHANGED searchVars

RecoverSpec == RecoverInit /\ [][RecoverNext]_<<searchVars, vars>>
=============================================================================
