------------------------------ MODULE MCOrders ------------------------------
(***************************************************************************)
(* Instances of OrderRecords for TLC.                                      *)
(***************************************************************************)
EXTENDS OrderRecords

CONSTANT o1
=============================================================================
