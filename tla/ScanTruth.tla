----------------------------- MODULE ScanTruth -----------------------------
(***************************************************************************)
(* What the whitelist may believe of the histories it reads.               *)
(***************************************************************************)
EXTENDS HistoryScan, Dollars

Places == UNION {{<<i, k>> : k \in DOMAIN chain[i]} : i \in DOMAIN chain}

\* Types.
ScanTypeOK ==
    /\ pc \in {"idle", "post", "judge", "next", "ranks", "histories", "raised"}
    /\ hasKey \in BOOLEAN /\ cut \in BOOLEAN
    /\ who \in Candidates \cup {Discovery}
    /\ attempt \in 0 .. MaxRetries
    /\ chain \in Chains
    /\ got \in Seq(Places)
    /\ todo \subseteq Candidates /\ scored \subseteq Candidates /\ failed \subseteq Candidates

\* where block i begins in the list of all transfers
Lengths   == [i \in DOMAIN chain |-> Len(chain[i])]
Before(i) == SumOf(Lengths, 1 .. i - 1)

\* a page ends at n, or within block i
PageEnd(n)   == \E m \in 0 .. n : n = m * PageSize
Straddles(i) == \E n \in Before(i) + 1 .. Before(i) + Len(chain[i]) - 1 : PageEnd(n)

\* "Fetch all conditional token trades for a wallet": a scan by offset over a
\* chain that grows meanwhile and that no order but block time sorts still has
\* every trade of every block that was there at its last answer, built from all
\* the transfers of its transaction, unless an answer had no data or a page
\* ended within the block.
Whole(i) == \E o \in Orders(i) : {t \in TradesOf(got) : t.tx[1] = i} = TradesOf(o)
HistoryWhole ==
    pc = "judge" /\ ~cut => \A i \in DOMAIN chain : Straddles(i) \/ Whole(i)

\* Why: while the pages come, each place of got is one of the block that begins
\* and ends around it, and no page end cuts off a block it does not straddle.
Complete(i) == \E o \in Orders(i) : \A k \in DOMAIN o :
                Before(i) + k \in DOMAIN got /\ got[Before(i) + k] = o[k]
PagesInv ==
    pc \in {"post", "judge"} /\ who # Discovery =>
       /\ Len(got) <= Before(Len(chain) + 1)
       /\ pc = "post" => PageEnd(Len(got))
       /\ pc = "judge" /\ ~cut => Len(got) = Before(Len(chain) + 1)
       /\ \A i \in DOMAIN chain :
             /\ \A n \in DOMAIN got :
                   Before(i) < n /\ n <= Before(i) + Len(chain[i]) => got[n][1] = i
             /\ Straddles(i) \/ Len(got) <= Before(i) \/ Complete(i)

\* A wallet whose scan raised, on whatever page, is not scored by the pages it
\* got, and every candidate has its turn however many of the others raised: the
\* ranks replace the scores only when each of them raised or was declined. It
\* says nothing of an answer without data, behind which the pages do count.
RaisedNotScored ==
    /\ scored \cap failed = {}
    /\ pc = "histories" => scored # {} /\ todo = {}
    /\ pc = "ranks" => scored = {} /\ (hasKey => todo = {})

\* Why: a wallet leaves todo with its turn, and only then.
TurnInv ==
    /\ todo \cap (scored \cup failed) = {}
    /\ who # Discovery => who \in todo
    /\ pc = "judge" => who # Discovery
    /\ pc = "idle" => who = Discovery
    /\ pc = "idle" \/ (pc = "post" /\ who = Discovery) => scored = {} /\ failed = {}
    /\ pc = "post" /\ who = Discovery => hasKey

\* Every refresh gets its scores or raises.
ScanEnds == pc = "post" ~> pc \in {"ranks", "histories"}
=============================================================================
