------------------------------ MODULE MCLedger ------------------------------
(***************************************************************************)
(* Two or three trades over two keys; two of them share one.               *)
(***************************************************************************)
EXTENDS LedgerTruth, TLC

CONSTANTS t1, t2, t3, k1, k2

MCTrades == {t1, t2, t3}
MCKeys   == {k1, k2}
MCKeyOf  == t1 :> k1 @@ t2 :> k1 @@ t3 :> k2
=============================================================================
