------------------------------- MODULE MCPaper -------------------------------
(***************************************************************************)
(* Instances of PaperAccount for TLC.  Cents: Unit = 100, every fill at    *)
(* 0.50 (or rejected at 0.99), mid prices at a stop-loss, at the entry     *)
(* price and at a take-profit that is a win once the market resolved.      *)
(***************************************************************************)
EXTENDS PaperAccount, TLC

CONSTANTS m1, m2, t1, t2, t3

Sig(m, s, n) == [market |-> m, strategy |-> s, size |-> n]

MCFillPrices == {50, 99}

\* both strategies of one market
Mixed == {Sig(m1, "COPY", 100), Sig(m1, "NO_FLIP", 50)}
\* two markets: two locks, and together more money than a bank of 150 has
TwoMarkets == {Sig(m1, "COPY", 100), Sig(m2, "COPY", 100)}
\* three slots, all three strategies
Spread == {Sig(m1, "COPY", 100), Sig(m2, "MICRO", 100), Sig(m1, "NO_FLIP", 50)}

Symmetry == Permutations(Trades)

\* Bound: the account properties are conditioned on hazards that have not
\* happened, so a behaviour is followed up to the first one (and past a clamp,
\* which ClampOnlyForgives does not exclude).
Untainted == hazard \subseteq {"shortfall"}
=============================================================================
