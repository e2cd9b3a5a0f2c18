---------------------------- MODULE MCPrimarySb ----------------------------
(***************************************************************************)
(* Every pair of regions over boundary values of the validated fields.     *)
(***************************************************************************)
EXTENDS PrimarySb

MCBlockSizes == {0, 4096, 65537}
MCFragSizes == {-1, 4096, 8192}
MCGroupCounts == {4, 2^24 + 1}
=============================================================================
