----------------------------- MODULE WhaleScore -----------------------------
(***************************************************************************)
(* WhaleScorerService.score_wallet and what the whitelist decides about a  *)
(* wallet from its trades.  Money is in whole dollars, a component and the *)
(* score in whole points, rounded down.                                    *)
(***************************************************************************)
EXTENDS Integers, Sequences

CONSTANTS MinVolume, MinTrades, MinResolved

\* What the scorer computes from the trades of a wallet.  At least half of the trades
\* are as large as the median.
Sums == [volume : Nat, bought : Nat,                   \* of all trades, of the purchases
         trades : Nat, median : Nat,                   \* number and median of all trades
         resolved : Nat, wins : Nat,                   \* numbers of resolved trades
         cost : Nat, payout : Nat,                     \* of the resolved trades
         decayed : Int,                                \* their profit, decayed
         kinds : SUBSET [wins : Nat, total : Nat]]     \* the resolved ones by category

Histories == {h \in Sums : /\ h.bought <= h.volume
                           /\ h.median * h.trades <= 2 * h.volume
                           /\ h.wins <= h.resolved
                           /\ \A k \in h.kinds : k.wins <= k.total}

\* What BitqueryClient builds: each trade with resolution None, so none is resolved.
Fetched == {h \in Histories : /\ h.resolved = 0 /\ h.cost = 0 /\ h.payout = 0
                              /\ h.kinds = {}}

Scorable(h) == /\ h.trades > 0
               /\ h.volume >= MinVolume
               /\ h.trades >= MinTrades
               /\ h.resolved >= MinResolved

\* abs(buy - sell) / total < 0.15
IsMarketMaker(h) ==
    LET sold == h.volume - h.bought IN
    /\ h.volume > 0
    /\ 100 * (IF h.bought >= sold THEN h.bought - sold ELSE sold - h.bought)
           < 15 * h.volume

Scored(h) == h.trades > 0 /\ ~IsMarketMaker(h) /\ Scorable(h)

AtMost100(n)  == IF n <= 100 THEN n ELSE 100
AtLeast0(n)   == IF n >= 0 THEN n ELSE 0

-----------------------------------------------------------------------------
\* The five components

Roi(h) == IF h.cost = 0 THEN 0
          ELSE AtMost100(AtLeast0(((h.payout - h.cost) * 200) \div h.cost))

Consistency(h) == ((h.wins + 15) * 100) \div (h.resolved + 30)

Sizing(h, p90) == IF h.trades = 0 THEN 0 ELSE AtMost100((h.median * 100) \div p90)

Frequent(h) == {k \in h.kinds : k.total >= 5}

Rate(k) == (k.wins * 100) \div k.total

Specialization(h) ==
    IF Frequent(h) = {} THEN 0
    ELSE Rate(CHOOSE k \in Frequent(h) : \A l \in Frequent(h) : Rate(k) >= Rate(l))

\* no lower bound: recent losses count more than the old profit
Recency(h) == IF h.payout <= h.cost THEN 0
              ELSE AtMost100((h.decayed * 100) \div (h.payout - h.cost))

Score(h, p90) ==
    AtMost100(AtLeast0((35 * Roi(h) + 25 * Consistency(h) + 20 * Sizing(h, p90)
                        + 10 * Specialization(h) + 10 * Recency(h)) \div 100))

-----------------------------------------------------------------------------
\* The platform-wide trade size, for which the volumes of the wallets stand in

\* v: the volumes of the scored wallets, in order
NewP90(v) == LET i == (Len(v) * 9) \div 10
             IN  v[(IF i <= Len(v) - 1 THEN i ELSE Len(v) - 1) + 1]

Fallback == 2000

\* 0: there is no key, it has expired, or Redis fails
P90(cached) == IF cached = 0 THEN Fallback ELSE cached
=============================================================================
