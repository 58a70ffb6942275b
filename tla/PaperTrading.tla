---------------------------- MODULE PaperTrading ----------------------------
(***************************************************************************)
(* The paper-trading half of the bot: PaperTrader.execute, run once per    *)
(* accepted signal as an asyncio task, the three APScheduler jobs of       *)
(* MarketMonitor (mark_to_market, fast_exit_check, check_resolutions), the *)
(* bot_positions table in Postgres and the sim:bankroll and                *)
(* sim:peak_bankroll keys in Redis.                                        *)
(*                                                                         *)
(* Every await on Postgres, Redis or the CLOB is a point where another     *)
(* task may run, so each such call is one action; what a task read before  *)
(* an await it carries in `fill', `todo', `cur', `quote' and `got'.        *)
(*                                                                         *)
(* A trade t is the pipeline task and, once it inserted one, the position  *)
(* it opened: a pipeline inserts at most one row.  Money and prices are    *)
(* integers (cents); Unit is one dollar, the price of a winning share.     *)
(***************************************************************************)
EXTENDS Integers, FiniteSets

CONSTANTS
    Trades,         \* the trades that reach PaperTrader.execute
    NoTrade,        \* "no task holds this lock"
    Jobs,           \* the scheduler jobs that run, of "mark", "fast", "resolve"
    Markets,
    Signals,        \* the signals (market, strategy, copy size) that may arrive
    FillPrices,     \* the prices _compute_vwap_fill may return
    MidPrices,      \* the prices _get_mid_price may return
    Unit,           \* one dollar
    Bank,           \* SIM_BANKROLL_USDC
    MinEntryPrice, SimFillPriceMax,              \* fill price assertion
    StopLossPct, TakeProfitPct,                  \* COPY and MICRO exits, in %
    NoFlipTakeProfitPct, NoFlipStopLossPrice,    \* NO_FLIP exits
    Faults,         \* which calls may fail, see FaultKinds
    MaxCrashes      \* bound on process crashes

Strategies == {"COPY", "MICRO", "NO_FLIP"}
JobNames   == {"mark", "fast", "resolve"}
Signal     == [market : Markets, strategy : Strategies, size : Nat \ {0}]
Keys       == Markets \X Strategies
FaultKinds == {"lookup", "dbWrite", "redisGet", "redisSet", "crash"}

\* 0.5 * (1 + SIM_FILL_SLIPPAGE): the slippage is below the cent
FallbackFill == Unit \div 2

ASSUME TradesAssumption  == NoTrade \notin Trades /\ Trades \cap JobNames = {}
ASSUME TradesFinite      == IsFiniteSet(Trades)   \* for the sums of PaperAccount
ASSUME JobsAssumption    == Jobs \subseteq JobNames
ASSUME SignalsAssumption == Signals \subseteq Signal
ASSUME PricesAssumption  ==
    /\ Unit \in Nat \ {0, 1}
    /\ FillPrices \subseteq Int
    /\ MidPrices \subseteq Nat
ASSUME MoneyAssumption   ==
    /\ Bank \in Nat
    /\ MinEntryPrice \in Nat \ {0}
    /\ SimFillPriceMax \in Nat
    /\ {StopLossPct, TakeProfitPct, NoFlipTakeProfitPct} \subseteq Nat
    /\ NoFlipStopLossPrice \in Nat
ASSUME FaultsAssumption  == Faults \subseteq FaultKinds /\ MaxCrashes \in Nat

VARIABLES
    pc,         \* pc[t]: where the pipeline task of trade t stands
    sig,        \* sig[t]: the signal t executes
    blind,      \* the trades whose duplicate lookup failed
    lock,       \* lock[k]: the task that holds _market_locks[market:strategy]
    fill,       \* fill[t]: fill price; the entry_price of t's row once inserted
    row,        \* row[t]: status, unrealized P&L and exit price in bot_positions
    bankroll,   \* sim:bankroll
    peak,       \* sim:peak_bankroll
    jpc,        \* jpc[j]: where job j stands
    todo,       \* todo[j]: positions of j's snapshot it has not visited yet
    cur,        \* cur[j]: the position j works on
    quote,      \* quote[j]: the price j read for it
    got,        \* got[a]: the balance task or job a computes with
    crashes,    \* crashes so far
    hazard      \* history: what has gone wrong so far, see HazardKinds

vars == <<pc, sig, blind, lock, fill, row, bankroll, peak, jpc, todo, cur, quote,
          got, crashes, hazard>>

pipeVars == <<pc, sig, blind, lock, fill>>
jobVars  == <<jpc, todo, cur, quote>>

Actors == Trades \cup Jobs

PcValues == {"idle", "acquire", "lookup", "cash", "book", "insert",
             "deductGet", "deductSet", "alert", "done", "dead"}
\* inside `async with self._market_locks[lock_key]'
Critical == {"lookup", "cash", "book", "insert", "deductGet", "deductSet",
             "alert"}
JpcValues == {"idle", "loop", "mark", "close", "restoreGet", "restoreSet",
              "peakGet", "peakSet"}

\* what breaks the account: see AccountExact and PeakCovers in PaperAccount
HazardKinds == {"lostUpdate", "stalePeak", "shortfall", "doubleClose",
                "redis", "crashMidUpdate", "crashMidPeak"}

NoSignal == [market |-> "none", strategy |-> "COPY", size |-> 1]
NoRow    == [status |-> "ABSENT", unrealized |-> 0, exit |-> 0]

-----------------------------------------------------------------------------
\* Reading the table

Key(t)    == <<sig[t].market, sig[t].strategy>>
IsOpen(t) == row[t].status = "OPEN"

\* _get_open_position: COPY is blocked by any open position of the market,
\* MICRO and NO_FLIP by an open position of their own strategy
Blocking(t) == {u \in Trades : /\ IsOpen(u)
                               /\ sig[u].market = sig[t].market
                               /\ \/ sig[t].strategy = "COPY"
                                  \/ sig[u].strategy = sig[t].strategy}

Shares(t)      == sig[t].size \div fill[t]
Proceeds(t, q) == q * Shares(t)
Pnl(t, q)      == (q - fill[t]) * Shares(t)
Abs(n)         == IF n < 0 THEN -n ELSE n

\* between reading a balance and writing the one computed from it
Updating(a) == IF a \in Jobs THEN jpc[a] = "restoreSet" ELSE pc[a] = "deductSet"
InPeak(j)   == jpc[j] \in {"peakGet", "peakSet"}

-----------------------------------------------------------------------------
Init ==
    /\ pc = [t \in Trades |-> "idle"]
    /\ sig = [t \in Trades |-> NoSignal]
    /\ blind = {}
    /\ lock = [k \in Keys |-> NoTrade]
    /\ fill = [t \in Trades |-> FallbackFill]
    /\ row = [t \in Trades |-> NoRow]
    /\ bankroll = Bank                       \* initialize_bankroll
    /\ peak = Bank
    /\ jpc = [j \in Jobs |-> "idle"]
    /\ todo = [j \in Jobs |-> {}]
    /\ cur = [j \in Jobs |-> NoTrade]
    /\ quote = [j \in Jobs |-> 0]
    /\ got = [a \in Actors |-> 0]
    /\ crashes = 0
    /\ hazard = {}

-----------------------------------------------------------------------------
\* PaperTrader.execute and _execute_locked, one action per await

\* the task moves on; nothing else of the pipeline changes
Goto(t, from, to) == /\ pc[t] = from
                     /\ pc' = [pc EXCEPT ![t] = to]

\* leaving `async with': the task ends and frees the lock it holds
Leave(t) == /\ pc' = [pc EXCEPT ![t] = "done"]
            /\ lock' = [lock EXCEPT ![Key(t)] = NoTrade]

Receive(t) ==
    /\ Goto(t, "idle", "acquire")
    /\ \E s \in Signals : sig' = [sig EXCEPT ![t] = s]
    /\ UNCHANGED <<blind, lock, fill, row, bankroll, peak, jobVars, got, crashes,
                   hazard>>

\* Mutant: execute without `async with'
AcquireNoLock(t) ==
    /\ Goto(t, "acquire", "lookup")
    /\ lock' = [lock EXCEPT ![Key(t)] = t]
    /\ UNCHANGED <<sig, blind, fill, row, bankroll, peak, jobVars, got, crashes,
                   hazard>>

Acquire(t) ==
    /\ Goto(t, "acquire", "lookup")
    /\ lock[Key(t)] = NoTrade
    /\ lock' = [lock EXCEPT ![Key(t)] = t]
    /\ UNCHANGED <<sig, blind, fill, row, bankroll, peak, jobVars, got, crashes,
                   hazard>>

\* Guard 1: DUPLICATE_POSITION
LookupDuplicate(t) ==
    /\ pc[t] = "lookup"
    /\ Blocking(t) # {}
    /\ Leave(t)
    /\ UNCHANGED <<sig, blind, fill, row, bankroll, peak, jobVars, got, crashes,
                   hazard>>

\* Mutant: Guard 1 dropped
LookupFreeAny(t) ==
    /\ Goto(t, "lookup", "cash")
    /\ UNCHANGED <<sig, blind, lock, fill, row, bankroll, peak, jobVars, got, crashes,
                   hazard>>

LookupFree(t) ==
    /\ Goto(t, "lookup", "cash")
    /\ Blocking(t) = {}
    /\ UNCHANGED <<sig, blind, lock, fill, row, bankroll, peak, jobVars, got, crashes,
                   hazard>>

\* the query raises: _get_open_position answers None, and the task goes on
\* without knowing whether its slot is taken
LookupFails(t) ==
    /\ "lookup" \in Faults
    /\ Goto(t, "lookup", "cash")
    /\ blind' = blind \cup {t}
    /\ UNCHANGED <<sig, lock, fill, row, bankroll, peak, jobVars, got, crashes,
                   hazard>>

\* get_available_cash: a failed read answers SIM_BANKROLL_USDC
AvailableCash == {bankroll} \cup (IF "redisGet" \in Faults THEN {Bank} ELSE {})

\* Guard 2: INSUFFICIENT_CASH
CashShort(t) ==
    /\ pc[t] = "cash"
    /\ \E available \in AvailableCash : available < sig[t].size
    /\ Leave(t)
    /\ UNCHANGED <<sig, blind, fill, row, bankroll, peak, jobVars, got, crashes,
                   hazard>>

CashEnough(t) ==
    /\ Goto(t, "cash", "book")
    /\ \E available \in AvailableCash : available >= sig[t].size
    /\ UNCHANGED <<sig, blind, lock, fill, row, bankroll, peak, jobVars, got, crashes,
                   hazard>>

\* get_orderbook and _compute_vwap_fill, or the fallback price when the fetch
\* fails or the price is not positive
FetchedPrices == {p \in FillPrices : p > 0} \cup {FallbackFill}
InFillRange(p) == MinEntryPrice <= p /\ p <= SimFillPriceMax

FetchBook(t) ==
    /\ Goto(t, "book", "insert")
    /\ \E p \in FetchedPrices : /\ InFillRange(p)
                                /\ fill' = [fill EXCEPT ![t] = p]
    /\ UNCHANGED <<sig, blind, lock, row, bankroll, peak, jobVars, got, crashes,
                   hazard>>

\* PRICE_ASSERTION_FAILED
PriceRejected(t) ==
    /\ pc[t] = "book"
    /\ \E p \in FetchedPrices : ~InFillRange(p)
    /\ Leave(t)
    /\ UNCHANGED <<sig, blind, fill, row, bankroll, peak, jobVars, got, crashes,
                   hazard>>

\* the transaction that inserts the OPEN position and its FILLED order commits
Insert(t) ==
    /\ Goto(t, "insert", "deductGet")
    /\ row' = [row EXCEPT ![t].status = "OPEN"]
    /\ UNCHANGED <<sig, blind, lock, fill, bankroll, peak, jobVars, got, crashes,
                   hazard>>

\* Mutant: the failed insert is swallowed and the cash deducted all the same
InsertFailsDeducts(t) ==
    /\ "dbWrite" \in Faults
    /\ Goto(t, "insert", "deductGet")
    /\ UNCHANGED <<sig, blind, lock, fill, row, bankroll, peak, jobVars, got, crashes,
                   hazard>>

\* it raises: the exception leaves execute, caught by the pipeline
InsertFails(t) ==
    /\ "dbWrite" \in Faults
    /\ pc[t] = "insert"
    /\ Leave(t)
    /\ UNCHANGED <<sig, blind, fill, row, bankroll, peak, jobVars, got, crashes,
                   hazard>>

-----------------------------------------------------------------------------
\* _deduct_from_bankroll and restore_bankroll: a read, an await, a write

\* a read of the balance while another actor is between its read and its write
Overlap(a) == IF \E b \in Actors \ {a} : Updating(b) THEN {"lostUpdate"} ELSE {}

ReadBalance(a, more) ==
    \/ /\ got' = [got EXCEPT ![a] = bankroll]
       /\ hazard' = hazard \cup Overlap(a) \cup more
    \/ /\ "redisGet" \in Faults
       /\ got' = [got EXCEPT ![a] = Bank]
       /\ hazard' = hazard \cup {"redis"} \cup Overlap(a) \cup more

DeductGet(t) ==
    /\ Goto(t, "deductGet", "deductSet")
    /\ ReadBalance(t, {})
    /\ UNCHANGED <<sig, blind, lock, fill, row, bankroll, peak, jobVars, crashes>>

\* Mutant: no max(0.0, ...)
DeductedUnclamped(t) == got[t] - sig[t].size

\* new_balance = max(0.0, current - amount)
Deducted(t) == IF got[t] >= sig[t].size THEN got[t] - sig[t].size ELSE 0

DeductSet(t) ==
    /\ Goto(t, "deductSet", "alert")
    /\ bankroll' = Deducted(t)
    /\ got' = [got EXCEPT ![t] = 0]
    /\ hazard' = hazard \cup (IF got[t] < sig[t].size THEN {"shortfall"} ELSE {})
    /\ UNCHANGED <<sig, blind, lock, fill, row, peak, jobVars, crashes>>

\* the write raises and is swallowed: the position stays, the cash too
DeductSetFails(t) ==
    /\ "redisSet" \in Faults
    /\ Goto(t, "deductSet", "alert")
    /\ got' = [got EXCEPT ![t] = 0]
    /\ hazard' = hazard \cup {"redis"}
    /\ UNCHANGED <<sig, blind, lock, fill, row, bankroll, peak, jobVars, crashes>>

\* Mutant: the return leaves the lock held
AlertKeepsLock(t) ==
    /\ Goto(t, "alert", "done")
    /\ UNCHANGED <<sig, blind, lock, fill, row, bankroll, peak, jobVars, got, crashes,
                   hazard>>

\* the alert was sent (or failed); execute returns
Alert(t) ==
    /\ pc[t] = "alert"
    /\ Leave(t)
    /\ UNCHANGED <<sig, blind, fill, row, bankroll, peak, jobVars, got, crashes,
                   hazard>>

-----------------------------------------------------------------------------
\* The MarketMonitor jobs

\* fast_exit_check leaves positions alone that moved by less than 10%
Volatile(t) == \/ Abs(row[t].unrealized) * 10 >= sig[t].size
               \/ sig[t].strategy = "NO_FLIP"

\* _fetch_open_positions, with the filter fast_exit_check applies to the rows
Snapshot(j) == {t \in Trades : IsOpen(t) /\ (j = "fast" => Volatile(t))}

\* Mutant: the loop does not notice that the snapshot is exhausted
LoopPcStuck(rest) == "loop"

LoopPc(rest) == IF rest = {} THEN "idle" ELSE "loop"

\* the job is done with the position: on to the next, or the run ends
NextPosition(j) == /\ jpc' = [jpc EXCEPT ![j] = LoopPc(todo[j])]
                   /\ cur' = [cur EXCEPT ![j] = NoTrade]
                   /\ quote' = [quote EXCEPT ![j] = 0]
                   /\ got' = [got EXCEPT ![j] = 0]
                   /\ todo' = todo

JobGoto(j, from, to) == /\ jpc[j] = from
                        /\ jpc' = [jpc EXCEPT ![j] = to]
                        /\ UNCHANGED <<todo, cur, quote>>

\* max_instances = 1: a job starts only when its last run has ended
JobStart(j) ==
    /\ jpc[j] = "idle"
    /\ todo' = [todo EXCEPT ![j] = Snapshot(j)]
    /\ jpc' = [jpc EXCEPT ![j] = LoopPc(Snapshot(j))]
    /\ UNCHANGED <<pipeVars, row, bankroll, peak, cur, quote, got, crashes,
                   hazard>>

\* no mid price, an API error, or (check_resolutions) the market is active
JobSkip(j) ==
    /\ jpc[j] = "loop"
    /\ \E t \in todo[j] :
        /\ todo' = [todo EXCEPT ![j] = @ \ {t}]
        /\ jpc' = [jpc EXCEPT ![j] = LoopPc(todo[j] \ {t})]
    /\ UNCHANGED <<pipeVars, row, bankroll, peak, cur, quote, got, crashes,
                   hazard>>

\* _check_no_flip_exit: take-profit and absolute stop-loss
NoFlipMustExit(t, q) == \/ Pnl(t, q) * 100 >= NoFlipTakeProfitPct * sig[t].size
                        \/ q <= NoFlipStopLossPrice

\* stop-loss and take-profit of the other strategies
MustExit(t, q) ==
    IF sig[t].strategy = "NO_FLIP"
    THEN NoFlipMustExit(t, q)
    ELSE \/ Pnl(t, q) * 100 <= -(StopLossPct * sig[t].size)
         \/ Pnl(t, q) * 100 >= TakeProfitPct * sig[t].size

\* exits that also depend on what is not modelled: for NO_FLIP the price of the
\* YES token has reverted; mark_to_market finds the position past half of its
\* time, which it checks only for a profitable one
MayRevert(t)      == sig[t].strategy = "NO_FLIP"
MayExit(j, t, q)  == \/ MustExit(t, q)
                     \/ MayRevert(t)
                     \/ j = "mark" /\ Pnl(t, q) > 0

\* _close_resolved_position: a mid price of at least 0.70 is a win
Resolved(q) == IF q * 10 >= 7 * Unit THEN Unit ELSE 0

\* the price of a position of the snapshot arrives
Quote(j, t, q) ==
    /\ jpc[j] = "loop"
    /\ t \in todo[j]
    /\ todo' = [todo EXCEPT ![j] = @ \ {t}]
    /\ cur' = [cur EXCEPT ![j] = t]
    /\ quote' = [quote EXCEPT ![j] = q]
    /\ UNCHANGED <<pipeVars, row, bankroll, peak, got, crashes, hazard>>

MarkQuote(j) ==
    /\ j = "mark"
    /\ \E t \in todo[j], q \in MidPrices : Quote(j, t, q)
    /\ jpc' = [jpc EXCEPT ![j] = "mark"]

FastExit(j) ==
    /\ j = "fast"
    /\ \E t \in todo[j], q \in MidPrices : Quote(j, t, q) /\ MayExit(j, t, q)
    /\ jpc' = [jpc EXCEPT ![j] = "close"]

FastKeep(j) ==
    /\ j = "fast"
    /\ jpc[j] = "loop"
    /\ \E t \in todo[j], q \in MidPrices :
        /\ ~MustExit(t, q)
        /\ todo' = [todo EXCEPT ![j] = @ \ {t}]
        /\ jpc' = [jpc EXCEPT ![j] = LoopPc(todo[j] \ {t})]
    /\ UNCHANGED <<pipeVars, row, bankroll, peak, cur, quote, got, crashes,
                   hazard>>

\* the market is no longer active
Resolve(j) ==
    /\ j = "resolve"
    /\ \E t \in todo[j], q \in MidPrices : Quote(j, t, Resolved(q))
    /\ jpc' = [jpc EXCEPT ![j] = "close"]

\* mark_to_market's UPDATE ... WHERE id = pos.id, whatever the status is now,
\* then its exit checks
Mark(j) ==
    /\ jpc[j] = "mark"
    /\ row' = [row EXCEPT ![cur[j]].unrealized = Pnl(cur[j], quote[j])]
    /\ \/ /\ MayExit(j, cur[j], quote[j])
          /\ JobGoto(j, "mark", "close")
          /\ got' = got
       \/ /\ ~MustExit(cur[j], quote[j])
          /\ NextPosition(j)
    /\ UNCHANGED <<pipeVars, bankroll, peak, crashes, hazard>>

\* _force_close_position and _close_resolved_position: UPDATE ... WHERE id = pos.id
Close(j) ==
    /\ JobGoto(j, "close", "restoreGet")
    /\ row' = [row EXCEPT ![cur[j]] =
                  [status |-> "CLOSED", unrealized |-> 0, exit |-> quote[j]]]
    /\ hazard' = hazard \cup
                 (IF row[cur[j]].status = "CLOSED" THEN {"doubleClose"} ELSE {})
    /\ UNCHANGED <<pipeVars, bankroll, peak, got, crashes>>

\* an UPDATE raises: caught by the job's loop, nothing is restored
JobWriteFails(j) ==
    /\ "dbWrite" \in Faults
    /\ jpc[j] \in {"mark", "close"}
    /\ NextPosition(j)
    /\ UNCHANGED <<pipeVars, row, bankroll, peak, crashes, hazard>>

RestoreGet(j) ==
    /\ JobGoto(j, "restoreGet", "restoreSet")
    /\ ReadBalance(j, IF \E i \in Jobs \ {j} : InPeak(i) THEN {"stalePeak"} ELSE {})
    /\ UNCHANGED <<pipeVars, row, bankroll, peak, crashes>>

\* Mutant: only the realized P&L is paid back, not the capital
RestoreSetPnl(j) ==
    LET balance == got[j] + Pnl(cur[j], quote[j]) IN
    /\ JobGoto(j, "restoreSet", "peakGet")
    /\ bankroll' = balance
    /\ got' = [got EXCEPT ![j] = balance]
    /\ UNCHANGED <<pipeVars, row, peak, crashes, hazard>>

\* new_balance = current + amount, kept for the comparison with the peak
RestoreSet(j) ==
    LET balance == got[j] + Proceeds(cur[j], quote[j]) IN
    /\ JobGoto(j, "restoreSet", "peakGet")
    /\ bankroll' = balance
    /\ got' = [got EXCEPT ![j] = balance]
    /\ UNCHANGED <<pipeVars, row, peak, crashes, hazard>>

RestoreSetFails(j) ==
    /\ "redisSet" \in Faults
    /\ jpc[j] = "restoreSet"
    /\ NextPosition(j)
    /\ hazard' = hazard \cup {"redis"}
    /\ UNCHANGED <<pipeVars, row, bankroll, peak, crashes>>

\* Mutant: the peak is taken over without comparing
PeakGetAlways(j) ==
    /\ JobGoto(j, "peakGet", "peakSet")
    /\ UNCHANGED <<pipeVars, row, bankroll, peak, got, crashes, hazard>>

\* Mutant: the comparison is the wrong way round
PeakGetInverted(j) ==
    /\ jpc[j] = "peakGet"
    /\ \/ got[j] < peak /\ JobGoto(j, "peakGet", "peakSet") /\ got' = got
       \/ got[j] >= peak /\ NextPosition(j)
    /\ UNCHANGED <<pipeVars, row, bankroll, peak, crashes, hazard>>

PeakGet(j) ==
    /\ jpc[j] = "peakGet"
    /\ \/ got[j] > peak /\ JobGoto(j, "peakGet", "peakSet") /\ got' = got
       \/ got[j] <= peak /\ NextPosition(j)
    /\ UNCHANGED <<pipeVars, row, bankroll, peak, crashes, hazard>>

PeakSet(j) ==
    /\ jpc[j] = "peakSet"
    /\ peak' = got[j]
    /\ NextPosition(j)
    /\ UNCHANGED <<pipeVars, row, bankroll, crashes, hazard>>

\* the read or the write of the peak raises: swallowed
PeakFails(j) ==
    /\ {"redisGet", "redisSet"} \cap Faults # {}
    /\ jpc[j] \in {"peakGet", "peakSet"}
    /\ NextPosition(j)
    /\ hazard' = hazard \cup {"redis"}
    /\ UNCHANGED <<pipeVars, row, bankroll, peak, crashes>>

-----------------------------------------------------------------------------
\* The process stops and is started again: its tasks, locks and snapshots are
\* gone, Postgres and Redis are not, initialize_bankroll finds its key.
PendingUpdate == \/ \E t \in Trades : pc[t] \in {"deductGet", "deductSet"}
                 \/ \E j \in Jobs : jpc[j] \in {"restoreGet", "restoreSet"}

Crash ==
    /\ "crash" \in Faults
    /\ crashes < MaxCrashes
    /\ crashes' = crashes + 1
    /\ pc' = [t \in Trades |-> IF pc[t] \in {"idle", "done"} THEN pc[t] ELSE "dead"]
    /\ lock' = [k \in Keys |-> NoTrade]
    /\ jpc' = [j \in Jobs |-> "idle"]
    /\ todo' = [j \in Jobs |-> {}]
    /\ cur' = [j \in Jobs |-> NoTrade]
    /\ quote' = [j \in Jobs |-> 0]
    /\ got' = [a \in Actors |-> 0]
    /\ hazard' = hazard \cup
                 (IF PendingUpdate THEN {"crashMidUpdate"} ELSE {}) \cup
                 (IF \E j \in Jobs : InPeak(j) THEN {"crashMidPeak"} ELSE {})
    /\ UNCHANGED <<sig, blind, fill, row, bankroll, peak>>

-----------------------------------------------------------------------------
Pipeline(t) ==
    \/ Acquire(t)
    \/ LookupDuplicate(t) \/ LookupFree(t) \/ LookupFails(t)
    \/ CashShort(t) \/ CashEnough(t)
    \/ FetchBook(t) \/ PriceRejected(t)
    \/ Insert(t) \/ InsertFails(t)
    \/ DeductGet(t) \/ DeductSet(t) \/ DeductSetFails(t)
    \/ Alert(t)

\* one run of a job, once started
JobRun(j) ==
    \/ JobSkip(j) \/ MarkQuote(j) \/ FastExit(j) \/ FastKeep(j) \/ Resolve(j)
    \/ Mark(j) \/ Close(j) \/ JobWriteFails(j)
    \/ RestoreGet(j) \/ RestoreSet(j) \/ RestoreSetFails(j)
    \/ PeakGet(j) \/ PeakSet(j) \/ PeakFails(j)

Next ==
    \/ \E t \in Trades : Receive(t) \/ Pipeline(t)
    \/ \E j \in Jobs : JobStart(j) \/ JobRun(j)
    \/ Crash

Spec == Init /\ [][Next]_vars

\* The event loop runs every ready task, every awaited call answers or raises
\* (the clients have timeouts), and the scheduler fires every job again.
\* Nothing makes a trade arrive or the process crash.
Fairness == /\ \A t \in Trades : WF_vars(Pipeline(t))
            /\ \A j \in Jobs : WF_vars(JobStart(j)) /\ WF_vars(JobRun(j))

FairSpec == Spec /\ Fairness
=============================================================================
