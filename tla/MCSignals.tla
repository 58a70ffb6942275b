----------------------------- MODULE MCSignals -----------------------------
(***************************************************************************)
(* Three pipelines, two related markets, the settings' defaults.  The book *)
(* is too thin, just thick enough for a MICRO, or deep; a balance of 1000  *)
(* is too small to copy anything, one of 3000 is not.                      *)
(***************************************************************************)
EXTENDS SignalCaps, TLC

CONSTANTS m1, m2, t1, t2, t3

Seen(m, s, p, n) == [market |-> m, side |-> s, price |-> p, size |-> n]

MCRelated == {{m1, m2}}
\* a purchase, a sale, a purchase at a price that is flipped, and a small trade
MCEvents  == {Seen(m1, "BUY", 50, 5000), Seen(m2, "SELL", 60, 5000),
              Seen(m1, "BUY", 95, 900), Seen(m2, "BUY", 50, 100)}
MCRanks   == {[score |-> 90, roi |-> 100, consistency |-> 90],
              [score |-> 60, roi |-> 100, consistency |-> 90]}

Symmetry == Permutations(Trades)
=============================================================================
