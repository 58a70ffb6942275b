------------------------------ MODULE MCBooks ------------------------------
(***************************************************************************)
(* An instance of BookTruth for TLC: one paper position that costs 2 and   *)
(* pays 0 or 3, so that a live bankroll of 4 can fall below its drawdown   *)
(* limit and rise above its start, and two workers, so that one may close  *)
(* what the other has opened and not yet paid for, or has closed already.  *)
(***************************************************************************)
EXTENDS BookTruth, TLC

CONSTANTS p1, w1, w2

Costs == p1 :> 2
=============================================================================
