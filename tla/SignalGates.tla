---------------------------- MODULE SignalGates ----------------------------
(***************************************************************************)
(* SignalEngine.evaluate, run by one pipeline task per incoming trade, up  *)
(* to the position its executor opens.  The gates before the bankroll is   *)
(* read look at the trade, at the exchange and at tables nothing else      *)
(* changes meanwhile: they are one step with that read.  After it come     *)
(* three reads of shared state, each a step: the exposure of the market,   *)
(* the circuit breaker, the open positions of related markets.             *)
(*                                                                         *)
(* Both executors are represented by what they are shown to promise,       *)
(* PositionBook: PaperTrader with a slot per market and strategy and a     *)
(* duplicate lookup that may fail, OrderExecutor, which looks for no       *)
(* duplicates, with a slot per trade.                                      *)
(***************************************************************************)
EXTENDS SignalSizing, Dollars

CONSTANTS
    Trades, Markets,
    Related,             \* pairs {m, n} whose questions share half their words
    Events,              \* the trades that may arrive
    Ranks,               \* the ranks of whitelisted wallets
    Depths,              \* depths of the order book within the slippage
    Bank,                \* effective_bankroll, used when Redis does not answer
    Bankrolls, MaxBank,  \* the balances Redis may hold, and a bound on them
    MinWhaleSize, MinEntryPrice, MaxEntryPrice,
    NoFlipMaxEntryPrice, ScoreFloor,
    Faults               \* which reads may fail, see FaultKinds

Strategies == {"COPY", "MICRO", "NO_FLIP"}
FaultKinds == {"redis", "db"}
Event == [market : Markets, side : {"BUY", "SELL"}, price : 0 .. 100,
          size : Nat]

ASSUME TradesAssumption ==
    /\ IsFiniteSet(Trades)
    /\ Trades \cap (Markets \X Strategies) = {}
    /\ <<>> \notin Trades
ASSUME EventsAssumption == Events \subseteq Event /\ Ranks \subseteq Rank
ASSUME DepthAssumption  == Depths \subseteq Nat
ASSUME BankAssumption   == /\ MaxBank \in Nat \ {0}
                           /\ Bankrolls \subseteq 0 .. MaxBank
                           /\ Bankrolls # {}
                           /\ Bank \in 0 .. MaxBank
ASSUME PriceAssumption  ==
    /\ MinWhaleSize \in Nat \ {0}
    /\ {MinEntryPrice, MaxEntryPrice, NoFlipMaxEntryPrice, ScoreFloor} \subseteq Nat
ASSUME FaultsAssumption == Faults \subseteq FaultKinds

VARIABLES
    simulated,  \* SIMULATION_MODE
    pc,         \* pc[t]: the next read of trade t's pipeline
    offer,      \* offer[t]: the signal it carries, with the bankroll and the
                \*           depth its size was computed from
    status, slot, blind,    \* the positions, as in PositionBook
    bankroll,   \* sim:bankroll or bot:bankroll
    halted,     \* bot:circuit_breaker_active
    crowd,      \* history: crowd[m], most pipelines past POSITION_CAP at once
    stopped,    \* history: trades that arrived under the present halt
    hazard      \* history: see HazardKinds

task    == <<pc, offer>>
book    == <<status, slot, blind>>
history == <<crowd, stopped, hazard>>
vars    == <<simulated, task, book, bankroll, halted, history>>

Past        == {"breaker", "related", "execute"}    \* past POSITION_CAP
PcValues    == {"idle", "cap", "done"} \cup Past
HazardKinds == {"exposureUnread", "breakerUnread", "relatedUnread", "together"}

Offer(m, s, n, b, d) ==
    [market |-> m, strategy |-> s, size |-> n, bank |-> b, depth |-> d]
NoOffer == Offer("none", "COPY", 10, 0, 0)

Pairs == Markets \X Strategies
Book  == INSTANCE PositionBook WITH Slots <- Pairs \cup Trades

IsOpen(t)  == status[t] = "OPEN"
IsCopy(t)  == offer[t].strategy = "COPY"
Pair(t)    == <<offer[t].market, offer[t].strategy>>
SlotOf(t)  == IF simulated THEN Pair(t) ELSE t

\* _get_market_exposure: SUM(size_usdc) of the open positions of every strategy
Sizes       == [t \in Trades |-> offer[t].size]
Holding(m)  == {t \in Trades : IsOpen(t) /\ offer[t].market = m}
Exposure(m) == SumOf(Sizes, Holding(m))

PastCap(m) ==
    {t \in Trades : pc[t] \in Past /\ IsCopy(t) /\ offer[t].market = m}

AreRelated(m, n) == m # n /\ {m, n} \in Related

Init ==
    /\ simulated \in BOOLEAN
    /\ pc = [t \in Trades |-> "idle"]
    /\ offer = [t \in Trades |-> NoOffer]
    /\ Book!Init
    /\ bankroll \in Bankrolls
    /\ halted \in BOOLEAN
    /\ crowd = [m \in Markets |-> 0]
    /\ stopped = {}
    /\ hazard = {}

-----------------------------------------------------------------------------
\* Gates 0 to 6

\* a sale of YES is a purchase of NO at the complementary price
Converted(e) == IF e.side = "SELL"
                THEN [e EXCEPT !.side = "BUY", !.price = 100 - e.price]
                ELSE e

\* The public channel has no wallets: the rank follows from the size of the
\* trade.  A wallet the whitelist only knows from Redis has no component scores.
SizeScore(n) == Least(85, 55 + ((n - MinWhaleSize) * 10) \div (3 * MinWhaleSize))
SizeRank(n)  == [score |-> SizeScore(n), roi |-> 75, consistency |-> 75]
ScoreOnly(r) == [r EXCEPT !.roi = 0, !.consistency = 0]
RanksOf(e)   == IF simulated THEN {SizeRank(e.size)}
                ELSE Ranks \cup {ScoreOnly(r) : r \in Ranks}

BigEnough(e) == e.size >= MinWhaleSize
Eligible(e, r) == /\ BigEnough(e)
                  /\ e.price \in MinEntryPrice .. MaxEntryPrice
                  /\ r.score >= ScoreFloor
Flips(e) == /\ BigEnough(e)
            /\ e.price > MaxEntryPrice
            /\ 100 - e.price \in 3 .. NoFlipMaxEntryPrice

BankRead == {bankroll} \cup (IF "redis" \in Faults THEN {Bank} ELSE {})

Screened(t, to, o) ==
    /\ pc[t] = "idle"
    /\ pc' = [pc EXCEPT ![t] = to]
    /\ offer' = [offer EXCEPT ![t] = o]
    /\ stopped' = IF halted THEN stopped \cup {t} ELSE stopped
    /\ UNCHANGED <<simulated, book, bankroll, halted, crowd, hazard>>

\* the trade fails a gate, the exchange does not answer, or the signal is a
\* supplemental one in live mode
Refuse(t) == Screened(t, "done", NoOffer)

Copy(t) ==
    \E e \in Events, d \in Depths, b \in BankRead :
        \E r \in RanksOf(e) :
            LET c == Converted(e)  n == CopySize(b, r, d) IN
            /\ Eligible(c, r)
            /\ d >= MinCopySize
            /\ n >= MinCopySize
            /\ Screened(t, "cap", Offer(e.market, "COPY", n, b, d))

\* A supplemental signal goes to the executor as it is, past the gates that are
\* left; only PaperTrader takes one.
Supplement(t, o) == simulated /\ Screened(t, "execute", o)

Micro(t) ==
    \E e \in Events, d \in Depths :
        \E r \in RanksOf(e) :
            /\ Eligible(Converted(e), r)
            /\ d < MinCopySize
            /\ d >= MicroMinDepth
            /\ Supplement(t, Offer(e.market, "MICRO", MicroSize(d), 0, d))

NoFlip(t) ==
    \E e \in Events, b \in BankRead :
        /\ Flips(Converted(e))
        /\ Supplement(t, Offer(e.market, "NO_FLIP", NoFlipSize(b), b, 0))

-----------------------------------------------------------------------------
\* Gates 7 to 10

Advance(t, from, to) ==
    /\ pc[t] = from
    /\ pc' = [pc EXCEPT ![t] = to]
    /\ UNCHANGED <<simulated, offer, book, bankroll, halted, stopped>>

Note(h) == hazard' = hazard \cup h

\* what a failing read answers is a value as good as any
Reads(value, default) ==
    {value} \cup (IF "db" \in Faults THEN {default} ELSE {})

\* Mutant: the cap is not looked at
Uncapped(x, b) == x >= 0 /\ b >= 0

UnderCap(x, b) == 100 * x < MaxExposurePct * b

CapPasses(t) ==
    LET m == offer[t].market IN
    /\ Advance(t, "cap", "breaker")
    /\ \E x \in Reads(Exposure(m), 0) :
          /\ UnderCap(x, offer[t].bank)
          /\ Note(IF x = Exposure(m) THEN {} ELSE {"exposureUnread"})
    /\ crowd' = [crowd EXCEPT ![m] = Most(@, Cardinality(PastCap(m)) + 1)]

\* POSITION_CAP or the hours to the market's resolution
CapRejects(t) == Advance(t, "cap", "done") /\ UNCHANGED <<crowd, hazard>>

BreakerPasses(t) ==
    /\ Advance(t, "breaker", "related")
    /\ \/ ~halted /\ UNCHANGED hazard
       \/ "redis" \in Faults /\ Note({"breakerUnread"})
    /\ UNCHANGED crowd

BreakerRejects(t) ==
    /\ halted
    /\ Advance(t, "breaker", "done")
    /\ UNCHANGED <<crowd, hazard>>

\* Mutant: the market is compared with itself
SameOpen(t) == {u \in Trades : IsOpen(u) /\ offer[u].market = offer[t].market}

\* Only simulated rows count: in live mode there are none.
RelatedOpen(t) ==
    {u \in Trades : /\ simulated /\ IsOpen(u)
                    /\ AreRelated(offer[t].market, offer[u].market)}

RelatedAhead(t) ==
    {u \in Trades : /\ pc[u] = "execute" /\ IsCopy(u)
                    /\ AreRelated(offer[t].market, offer[u].market)}

RelatedPasses(t) ==
    /\ Advance(t, "related", "execute")
    /\ \E x \in Reads(RelatedOpen(t), {}) :
          /\ x = {}
          /\ Note((IF x = RelatedOpen(t) THEN {} ELSE {"relatedUnread"}) \cup
                  (IF RelatedAhead(t) = {} THEN {} ELSE {"together"}))
    /\ UNCHANGED crowd

RelatedRejects(t) ==
    /\ RelatedOpen(t) # {}
    /\ Advance(t, "related", "done")
    /\ UNCHANGED <<crowd, hazard>>

-----------------------------------------------------------------------------
\* The executor, the jobs that close positions, and the keys in Redis

\* PaperTrader's lookup answers "none" when the database does not
LooksFail == simulated /\ "db" \in Faults

Open(t) ==
    /\ pc[t] = "execute"
    /\ pc' = [pc EXCEPT ![t] = "done"]
    /\ \/ Book!Open(t, SlotOf(t))
       \/ LooksFail /\ Book!OpenBlind(t, SlotOf(t))
    /\ UNCHANGED <<simulated, offer, bankroll, halted, history>>

\* no cash, a duplicate, a price out of range, a refused order
Decline(t) ==
    /\ pc[t] = "execute"
    /\ pc' = [pc EXCEPT ![t] = "done"]
    /\ UNCHANGED <<simulated, offer, book, bankroll, halted, history>>

Close(t) ==
    /\ Book!Close(t)
    /\ UNCHANGED <<simulated, task, bankroll, halted, history>>

\* deductions and restores, or the bankroll sync
BankrollMoves ==
    /\ bankroll' \in Bankrolls
    /\ UNCHANGED <<simulated, task, book, halted, history>>

\* redis-cli SET bot:circuit_breaker_active
SetBreaker ==
    /\ halted' = ~halted
    /\ stopped' = IF halted THEN {} ELSE stopped
    /\ UNCHANGED <<simulated, task, book, bankroll, crowd, hazard>>

Pipeline(t) ==
    \/ Refuse(t) \/ Copy(t) \/ Micro(t) \/ NoFlip(t)
    \/ CapPasses(t) \/ CapRejects(t)
    \/ BreakerPasses(t) \/ BreakerRejects(t)
    \/ RelatedPasses(t) \/ RelatedRejects(t)
    \/ Open(t) \/ Decline(t)

Next == \/ \E t \in Trades : Pipeline(t) \/ Close(t)
        \/ BankrollMoves
        \/ SetBreaker

Spec == Init /\ [][Next]_vars
=============================================================================
