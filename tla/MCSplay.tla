-------------------------------- MODULE MCSplay --------------------------------
(****************************************************************************)
(* Elements for TLC: 1, 2, ... have different keys, except that 2 has the   *)
(* key of 1.                                                                *)
(****************************************************************************)
EXTENDS SplayTree

CONSTANT Count

Numbers == 1 .. Count
KeyOf   == [n \in Numbers |-> IF n = 2 THEN 1 ELSE n]
================================================================================
