------------------------------ MODULE MCRecord ------------------------------
(***************************************************************************)
(* An instance of RecordTruth for TLC: three positions of two wallets,     *)
(* tiers and categories, two jobs and three closes, so that a position may *)
(* be closed twice.  A loss of 4 is a deeper fall from 6 than from 9.      *)
(***************************************************************************)
EXTENDS RecordTruth, TLC

CONSTANTS p1, p2, p3, a, b

MCWallet   == p1 :> a @@ p2 :> b @@ p3 :> a
MCTier     == p1 :> a @@ p2 :> a @@ p3 :> b
MCCategory == p1 :> b @@ p2 :> a @@ p3 :> a
MCResults  == {-4, 3}
MCMarks    == {-2}
=============================================================================
