------------------------------ MODULE MCWatch ------------------------------
(***************************************************************************)
(* Two wallets.  The ranks give one of them 85 and the other 58, below the *)
(* floor.  The scores are the ones of a wallet with 20 purchases of 2500, by  *)
(* the fallback P90 and by a cached one, as its history is fetched; a      *)
(* minimum of resolved markets above 0 would leave none.                   *)
(***************************************************************************)
EXTENDS ListKept

CONSTANTS w1, w2

MCTiers == <<1, 1, 1>>

S == INSTANCE WhaleScore WITH MinVolume <- 5000, MinTrades <- 20, MinResolved <- 0

MCHistory == [volume |-> 50000, bought |-> 50000, trades |-> 20, median |-> 2500,
              resolved |-> 0, wins |-> 0, cost |-> 0, payout |-> 0, decayed |-> 0,
              kinds |-> {}]

MCScores == {S!Score(h, S!P90(c)) :
                h \in {i \in {MCHistory} : S!Scored(i)},
                c \in {0, S!NewP90(<<5000, 50000>>)}}
=============================================================================
