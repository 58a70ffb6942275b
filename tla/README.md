# polytest: specification and proofs

polytest is a bot that copies the trades of large traders ("whales") on
Polymarket. It runs in one of two modes: *simulation*, where a paper trader
books positions at prices read from the order book, and *live*, where an order
executor places limit orders on the exchange. Both are one asyncio process over
Postgres, Redis and the exchange's HTTP and WebSocket interfaces.

This directory holds TLA+ modules of the parts that keep state, TLC
configurations that check them on small instances, and proofs, checked by TLAPS,
for every instance. `PROJECT.json` is the index: the components, the runs with
the properties each checks, the source lines behind every definition, the
hazards, the findings and the theorems.

All source paths below are relative to the repository.

## 1. The system

### 1.1 How a trade travels

A stream (`data/websocket_stream.py`) calls `WhaleBot._handle_trade`
(`main.py`), which starts **one asyncio task per trade** and returns. The task
(`_process_trade_pipeline`) runs

    PositionLedger.update  ->  SignalEngine.evaluate  ->  PaperTrader.execute
                                                      or  OrderExecutor.execute

and a rejected trade may leave a *supplemental* signal (strategy MICRO or
NO_FLIP) that a second task executes. Nothing bounds the number of tasks or
orders them. APScheduler jobs work on the same tables and keys: mark-to-market,
fast exits and resolutions in simulation; order polling, stale order cleanup and
bankroll sync in live mode. A job has one instance at a time (APScheduler's
default), but different jobs overlap each other and every pipeline.

The process has one thread. Two tasks interleave only at an `await`; therefore
**each await on Postgres, Redis, the exchange or a lock is a step of its own in
the modules**, and the code between two awaits is atomic. A transaction is atomic
at its commit.

### 1.2 Inventory

Status: **M** modelled, **P** partly, **-** not modelled.

| Component | State | Operations | What is hard | What makes it correct | |
|---|---|---|---|---|---|
| Paper trader `simulation/paper_trader.py` | `bot_positions` rows, `sim:bankroll`, `sim:peak_bankroll`, one lock per market and strategy | `execute`, `_get_open_position`, cash check, `_deduct_from_bankroll`, `restore_bankroll`, `initialize_bankroll` | locks that do not cover what they read; get-then-set of a balance; crash between commit and balance | one open position per slot, but for a failed lookup; the balance is the one the positions account for; a waiting task gets its lock | M |
| Paper market monitor `simulation/market_monitor.py` | snapshot of the open positions, held across awaits | `mark_to_market`, `fast_exit_check`, `check_resolutions` | three jobs close the same position from different snapshots | a position is closed once and paid once; runs end | M |
| Live order executor `execution/order_executor.py` | `bot_orders` and `bot_positions` rows, one monitor task per order | `execute`, `_monitor_single_order`, `monitor_open_orders`, `cancel_stale_orders` | lost answers, retries of a POST, cancel against fill, three actors that write one row, crash | rows agree with each other and with the exchange; every order ends; a written-off position is not live | M |
| CLOB client `data/clob_client.py` | none between calls | `_retry_request`, `place_limit_order`, `cancel_order`, `get_order_status`, readers | a request that timed out may have succeeded | as the executor meets it | P |
| Position ledger `signals/position_ledger.py` | one Redis hash per wallet and market with a TTL; in-memory fallback; `_redis_ok` | `update`, `classify_trade` | read, read again and write with no lock; the switch to the fallback; EXPIRE after HSET | the entry is what the trades amount to; entries expire; a reversal is seen | M |
| Signal engine `signals/signal_engine.py` | `_market_cache`; reads bankroll, positions, ledger, whitelist | `evaluate` (ten gates), size computation, supplemental signals | gates read state that other pipelines are about to change; failed reads count as zero | the size stays under its caps; how far pipelines together exceed the exposure cap of a market; a halt stops copies | M |
| Risk gate and bankroll sync `execution/risk_gate.py`, `execution/position_tracker.py` | `bot:bankroll`, `bot:peak_bankroll`, `bot:circuit_breaker_active` | `initialize`, `update_bankroll`, `sync_bankroll`, the breaker flag | two keys written one after the other, by starts and by a job; the breaker fails open, and nobody trips it | the peak covers the bankroll and was reached; a live bot ends up with the bankroll of its rows; a tripped breaker stops trading | M |
| Whitelist manager `scoring/whitelist_manager.py` | in-memory map, Redis sorted set, `wallet_scores` | `refresh_whitelist`, lookups, `_update_p90_cache` | a restart empties the map the protection relies on; two refreshes overlap; a failed Redis write | a wallet with an open position stays; Redis agrees with memory; nobody below the floor is listed | M |
| Whale scorer `scoring/whale_scorer.py` | none | `score_wallet`, five components, P90 lookup | boundaries, division by small counts, a P90 in another unit | bounds of the scores and what they imply for the list | M |
| Trade streams `data/websocket_stream.py` | connection, back-off | `stream_trades`, `stream_market_trades` | reconnect, shutdown while waiting, exceptions nobody catches | bounded back-off; the task stays in its loop whatever the connection does | P |
| Performance tracker `simulation/performance_tracker.py` | none (reads) | `compute_metrics`, drawdown, breakdowns | rows and balance are read at different times; rows commit in another order than their times; late marks | a report adds up; the drawdown is the worst fall; parts agree with totals | M |
| Scheduler `scheduler/jobs.py` | APScheduler's | fires the jobs | overlap of different jobs | every job runs again after it ends | P |
| Application lifecycle `main.py` | tasks, shutdown event, phase of `run()` | start-up, pipelines, signals, shutdown | tasks nobody awaits; a signal during the first refresh | a pipeline failure stays in its task; a signal ends the process | P |
| Models and session `db/` | tables | transactions | UNIQUE order id | a transaction is atomic | P |
| Settings `config/settings.py` | constants | - | - | - | P |
| Bitquery client `data/bitquery_client.py` | none between calls | discovery, pages of a wallet's transfers, retries | offsets into a chain that grows, in an order only block time fixes; an error that looks like the end | a history is whole or known not to be; a failure costs one wallet | P |
| Gamma client `data/gamma_client.py` | none | markets | every failure is an empty answer | as the stream meets it | P |
| Reset script `scripts/reset_sim.py`, other scripts | none of their own | wipes the tables, then key by key | runs beside the bot; stops half way | the balance is still the one of the rows | P |
| HTTP monitor `monitor/api.py` | none (reads) | `/api/status` and single reads | reads balance and rows apart; a failed read shows as nothing | what it shows adds up | P |
| Telegram alerts `alerts/telegram_bot.py` | none | sends texts | - | - | - |

## 2. The modules

    PositionBook          abstract: positions per slot, opened once or blind, closed for good
      |      \
      |       \__ OrderRecords   properties of the live half, refinement of PositionBook
      |             |
      |           OrderLifecycle  OrderExecutor, its monitor tasks, its two jobs, the exchange
      |
    PaperAccount          properties of the paper half, refinement of PositionBook
      |
    PaperTrading          PaperTrader and the three MarketMonitor jobs

    LedgerEntries         what a sequence of trades amounts to (reference definition)
      |
    WhaleLedger           PositionLedger.update, step by step
      |
    LedgerTruth           its properties

    SignalSizing          the sizes of signals (pure)
      |
    SignalGates           SignalEngine.evaluate; its executors are PositionBook
      |
    SignalCaps            its properties

    WhitelistRefresh      the list in memory and in Redis, refresh_whitelist
      |       TradeStream   the reconnect loop
      |      /
    LiveWatch             WhaleBot.run: start-up, stream, score lookups, shutdown
      |
    ListKept              its properties

    WhaleScore            the scorer and the P90 cache (pure)
      |
    HistoryScan           candidates, pages, retries: the histories a refresh reads
      |
    ScanTruth             its properties

    BotBooks              balances, reset and readers over several lives of the bot
      |
    BookTruth             its properties

    TrackRecord           the rows two jobs close, and the report computed from them
      |
    RecordTruth           its properties

    Dollars               sums over finite sets, as cardinalities (used by PaperAccount,
                          WhaleLedger, BotBooks, ScanTruth and TrackRecord)

    MCPaper, MCOrders, MCLedger, MCSignals, MCWatch,
    MCBooks, MCScan, MCRecord                                    instances for TLC
    DollarSums                                                   lemmas about Dollars
    PaperTradingProofs, OrderLifecycleProofs, LedgerProofs, SignalProofs,
    WhitelistProofs (list, stream, scorer and scan), BookProofs,
    RecordProofs                                                 theorems

A component's module holds its state and actions, the module above it holds its
properties, so that a reader can compare the former with the code and argue about
the latter. No module declares a RECURSIVE operator.

### 2.1 PaperTrading

Composes the trader, the monitor, the scheduler that starts its jobs and
the two stores.

| Variable | In the program |
|---|---|
| `pc[t]`, `sig[t]`, `fill[t]` | where the pipeline task of trade *t* stands, its signal, its fill price |
| `lock[k]` | `_market_locks["market:strategy"]` |
| `row[t]` | the `bot_positions` row *t* inserted: status, unrealized P&L, exit price |
| `bankroll`, `peak` | `sim:bankroll`, `sim:peak_bankroll` |
| `jpc[j]`, `todo[j]`, `cur[j]`, `quote[j]` | where a job stands, what is left of its snapshot, the position and price in hand |
| `got[a]` | the balance a task or job has read and not written yet |
| `blind` | history: the trades whose duplicate lookup failed |
| `hazard` | history: what has gone wrong so far; no action reads it |

`execute` is the sequence *acquire, lookup, cash, book, insert, deductGet,
deductSet, alert*, with every early return and failing call of the code; the exits
are *loop, mark* or *close, restoreGet, restoreSet, peakGet, peakSet*. `Crash` loses
every task and job and keeps the rows and the keys. `PositionBook` has an action for either
insert: `Open` where the lookup answered, and `OpenBlind` where it failed and the code goes on as if it had
found nothing (`paper_trader.py:450-452`). Money is in cents and a
share count is an integer quotient, which leaves the order of reads and writes as
it is. The walk over the order book is reduced to the fill price it returns, and
the elapsed time of an exit rule to a choice whether it has passed.

### 2.2 OrderLifecycle

An order *t* is its executing task, the monitor task that follows and the two
rows they write. The exchange knows an order by the attempt `<<t, k>>`, the *k*-th
request of *t*: to the exchange a retried POST is another order. `pc[a]` holds
what an actor has decided and not yet written, `id[t]` the attempt whose order id
was answered (0: an answer without an id, recorded as the empty string, which the
UNIQUE column accepts once). A refusal (4xx) is not retried; an answer that cannot be parsed ends in an exception or
the empty id although the order is on the exchange (`PostUnread`). The exchange may match, cancel or expire a live order
at any time and owes nothing. Prices, sizes and partial fills are abstracted: the
code has one branch for a fill, whatever its amount.

### 2.3 WhaleLedger

One pipeline task per trade runs `update`: read and classify, read again, write or
delete. HSET and EXPIRE are two calls. A failing call may or may not have taken
effect; it switches the ledger to the in-memory dictionary for good, and a restart
goes back to Redis and empties the dictionary. `LedgerEntries!Apply` is the reference:
the entry before and one trade give the entry after; the history variable `book`
applies it to each trade at the moment its write takes effect.
`avg_price` is left out because only `classify_trade_with_size` reads it, which the
program never calls, and so is the token id, on which neither class nor size depends.

### 2.4 SignalGates

One pipeline task per trade runs `evaluate`, in either mode (`simulated` is chosen
at the start). Gates 0 to 6 look at the trade, at the exchange, at scores that
pipelines do not change, and at the balance: they are one step, with the balance read in
it, and what the exchange may answer is a choice. The three reads that follow are of
state the other pipelines change, so each is a step: the exposure of the market
(`CapPasses`, which lets a signal of any size pass below the cap), the breaker, the open
positions of related markets. Between the last one and the position, any number
of steps of others may come.

| Variable | In the program |
|---|---|
| `pc[t]`, `offer[t]` | the next read of the pipeline, its signal and what it was computed from |
| `status[t]`, `slot[t]`, `blind` | the positions, as in PositionBook |
| `bankroll`, `halted` | `sim:bankroll` or `bot:bankroll`, `bot:circuit_breaker_active` |
| `crowd[m]`, `stopped`, `hazard` | history: most pipelines past the cap at once, trades that arrived under the present halt, what went wrong |

The executors are replaced by what they are shown to implement (2.1, 2.2): `Open` and
`Close` are the actions of `PositionBook`, with `OpenBlind` where the paper trader's lookup fails. What
`_get_market_exposure` sums is computed from the rows (`Sizes`, `Holding`, `Exposure`). The paper trader's slot is a market and a
strategy; the live executor looks for no duplicates, so its slot is the trade itself. The writers
of the balance and the breaker may act at any time: the latter is the operator's `redis-cli`
(`telegram_bot.py:150`), since nothing in the program calls the function that would set it.
The quantities are whole dollars and points; every size is rounded down to $10, which
hides what the integer divisions lose.

### 2.5 LiveWatch

Composes the whitelist, the stream and the phases of `WhaleBot.run`.

| Variable | In the program |
|---|---|
| `map`, `zset` | `_in_memory` and the sorted set `whale:whitelist`; a score of 0: not there |
| `rpc[r]`, `shield[r]`, `work[r]` | where refresh *r* (start-up or nightly) stands, the positions it read, the map it still has to write |
| `copied` | the wallets with an open position |
| `conn`, `backoff` | where the stream's task stands, seconds until its next attempt |
| `shutdown` | the shutdown event |
| `sim`, `phase`, `following` | mode, where `run()` stands, the wallets the stream was started with |
| `pipe[w]` | a trade of *w* on its way through the score gate and the executor |
| `exposed`, `owner`, `stale` | history: positions without protection, who replaced the map last, Redis may differ |

A refresh is *gather, swap, persist, mirror*: the read of the positions is one step, the
exchange of the map another, and the two writes, each of which may fail, follow. The
scores come out at *swap*, since nothing the bot changes while it gathers affects them: any set
of wallets may be candidates, in any order, and either the ranks decide or the scorer. Which of the two
is not free in the program: no trade that `BitqueryClient` builds has a resolution
(`bitquery_client.py:405`), so `score_wallet` refuses every wallet and the ranks
stand in for the scores (`FetchedUnlisted`, 4). The run takes its scores from such a history; the proofs hold
for any scores. `wallet_scores` only limits who is a candidate and is left out.

The stream's loop is *connecting, subscribing, open, waiting*, with the exceptions it catches, the ones it
does ones it
does not (`malformed`), the wait that a signal cuts short, and cancellation. `stream_market_trades` has
the same loop. `_shutdown` takes steps: `Shutdown` sets the event and waits for the dashboard's task, and until
`Cancel` the stream's task goes on by itself; `Exit` ends the process. A process that a signal cuts short, and cancellation. `stream_market_trades` has
the same loop. A process may end in any phase: map, tasks and pipelines are gone, the
sorted set and the open positions stay.

### 2.6 WhaleScore

`score_wallet` over the sums it computes from a history (volume, median, resolved and won trades,
cost, payout, decayed profit, counts per category), in whole points rounded down, and the P90 as the whitelist
caches it and the scorer reads it. `MCWatch` computes its scores with it.

### 2.7 BotBooks

One database and one Redis serve every life of the bot, simulated or live, and the reset script.
Composes `initialize_bankroll`, `RiskGate.initialize`, the paper positions, the bankroll sync, the reset, and
the readers.

| Variable | In the program |
|---|---|
| `row[p]` | the paper position and what it paid |
| `work[w]` | a task or job: its step, its position, what it pays or takes, the balance it has read |
| `simBank`, `liveBank`, `livePeak`, `breaker` | `sim:bankroll`, `bot:bankroll`, `bot:peak_bankroll`, `bot:circuit_breaker_active` (`Unset`: no such key) |
| `mode`, `boot` | `SIMULATION_MODE` of this life; off, a step of the start, or up |
| `sync` | the step of the sync job and the value it computed |
| `script` | the next key the reset script deletes |
| `report` | a reader and what it has read: `compute_metrics` and `get_portfolio_value`, or `/api/status` |
| `behind`, `best`, `hazard` | history: a writer ended before the peak; highest live bankroll since its key was last deleted; what went wrong |

The cash updates are those of PaperTrading (2.1): a worker commits a row, reads the balance, and writes it in a later step
(`GetCash`, `SetCash`), so that an update may be lost; it may close by id what another one has closed or the script
has wiped, and pay it out again. Either read of a report may fail, and counts as no rows or as the starting
balance; the report does not say so. The daily P&L job is left out: it shows only the rows closed on
its day (`position_tracker.py:159-168`), to which no balance corresponds. A start initialises the keys one by one, each only
if it is missing. The job calls `sync_bankroll` and then `update_bankroll` with its result, so bankroll and peak
are written twice; the sum takes in every CLOSED row, simulated ones included (`position_tracker.py:117`).
The script wipes the tables in one transaction and then the keys; it leaves `bot:peak_bankroll` alone, and one
DELETE that fails rolls the whole wipe back while the keys go. A process may end anywhere.

### 2.8 HistoryScan

`_fetch_candidate_wallets` and the loop of `refresh_whitelist` over `get_wallet_trade_history`, page by page and
attempt by attempt. The chain is a sequence of blocks and may grow between two pages. The query orders by block
time only, so each answer lists the transfers of a block in an order of its own (`Orders`, `Shuffles`, `Listings`), and a page is a slice
of one such listing at the offset of what has been fetched. `TradesOf` is `_build_historical_trades`: one
trade for each transaction, by its last transfer that is not a mint or a burn, none if that one is dust; the
scorer that judges the wallet is `WhaleScore`. `got` holds where a transfer stands in the chain instead of
the transfer, so that a property can say which are missing.

### 2.9 TrackRecord

Two jobs close paper positions, each from its snapshot, by id and whatever the status. A job that marks commits the price
(`Mark`) and decides later whether to close (`Keep`, `Decide`). `closed_at` is taken before the transaction, so a
commit may be overtaken (`Decide`, `Commit`). Time is an idealised `datetime.now()`: no two closes fall into one microsecond,
and the clock is not set back. The report is a set of operators over the rows: totals, winners
and losers, `MaxDrawdown` as a walk over the rows sorted by time (`Series`, `Advance`), the breakdowns by tier, wallet and
category, and the wallets at the top. Percentages are pairs of numerator and denominator, compared by
cross-multiplication.

### 2.10 History variables

`hazard`, `tainted`, `leaked`, `crowd`, `stopped`, `book`, `blind`, `exposed`, `owner`, `stale`, `behind`, `best`,
`failed`, `cut` and the field `torn` of a report record what has
happened and never enable or block a step. They let a property say exactly *when* the code keeps its promise:
"the balance is right **unless** one of these things happened" is stronger
than any property of the runs without faults, since each of the other
faults and interleavings is shown to do no harm.

## 3. The runs

| Run | Question | Instance |
|---|---|---|
| `paper_positions` | Slots, refinement and progress, with crashes and failing calls | 2 trades, 3 slots, fast-exit job, every fault, 1 crash |
| `paper_account` | Balance and peak against the positions | 2 trades whose 100 + 100 exceed the bank of 150, 2 markets, jobs that mark and resolve, every fault, 1 crash |
| `paper_copy_alone` | violated: a COPY position opens beside another strategy | 2 trades in one market, no faults |
| `order_records` | Rows against the exchange, refinement, progress | 1 order, 2 requests, 2 polling rounds, every fault, 1 failed transaction, 1 crash |
| `ledger_truth` | When an update is atomic; expiry; no double count | 3 trades over 2 keys, sizes 1..2, any Redis call failing, 1 restart |
| `ledger_flip` | violated: a reversal leaves no position | the same, no restart |
| `signal_gates` | Exposure of a market, breaker, related markets, sizes | 3 pipelines, 2 related markets, both modes, balances 1000 and 3000, failing reads |
| `live_watch` | Protection, Redis against memory, the stream's loop, shutdown | 2 wallets, 2 places on the list, both modes, 2 refreshes, failing table and Redis, malformed messages, crashes, restarts |
| `bot_books` | The live bankroll and its peak, the paper balance across lives, reports | 1 position, 2 workers, 2 stops, 1 reset, 1 fault anywhere, either mode at each start |
| `breaker_idle` | violated: a drawdown past the limit halts nothing | the same, no faults, 1 stop |
| `history_scan` | What a history may miss, what is scored, whether a refresh ends | 2 wallets, pages of 2, up to 3 blocks, 4 attempts, every failure |
| `track_record` | Drawdown against its definition, parts against totals | 3 positions, 2 jobs, 3 closes |

### 3.1 What the passing runs show

- **Slots.** `SlotInv`: of two open positions of one market and strategy, one was inserted on a duplicate lookup that
  failed (the code then goes on as if it had found nothing); two tasks whose lookups answered never both insert, whatever
  crashes or else fails.
- **Account.** `AccountExact`: `sim:bankroll` is the starting money minus what was
  opened plus what was paid, whenever no update is under way, unless two updates
  overlapped, a position was closed twice, the balance was clamped at zero, Redis
  failed, or the process died between a commit and its update.
  `ClampOnlyForgives`: the clamp errs in one direction only. `PeakCovers` and
  `PeakNeverFalls`: the peak is the highest balance a close produced, under like
  conditions.
- **Progress.** `TradeAnswered`: a task that waits for a lock gets it, so no path out
  of `execute` keeps it. `JobRunEnds`, `TaskEnds`: job runs and monitor tasks
  end. `PendingEnds`: no order stays PENDING, even if its monitor task died or a job
  run ended at the order before it.
- **Orders.** `RowsAgree`, `WrittenOffIsDead`, `EveryOrderFollowed` (all in
  `OrderInv`): FILLED is written for matched orders only; a position is written off only
  when the exchange has no such order, unless a cancel was lost or late; an order on
  the exchange is in the table unless an answer was lost, a transaction failed or the
  process died between the two.
- **Ledger.** `LedgerExact`: two reads and a write make one atomic update as long as no
  two updates of a key overlap and none is under way at a switch of stores, and trouble in
  one key never reaches another. `EntriesExpire`: an entry without a TTL needs a lost call.
  `CountedOnce`: a trade may be lost but is never counted twice.
- **Gates.** `LiveExposure`: POSITION_CAP compares what is open and leaves out the signal's
  own size and the pipelines behind it, so a live market exceeds "Max capital in any single
  market" (`README.md:212`), by less than one position of 3 % of the bankroll for each pipeline that
  was past the gate at once, and never by more, however many trades follow. `PaperExposure`:
  in simulation the slots bound a market, although supplemental signals skip the gate and the gate's read may fail: one position
  per strategy, and one more for each opened on a failed lookup. `SizesSound`: whatever a size was computed from, its own caps hold.
  `HaltStopsCopies`: a trade that arrives while the breaker is on and stays on is not copied
  unless Redis failed; one that was past the gate is. `NotStacked`: no COPY positions of related
  markets, in simulation, unless two pipelines passed together or the read failed. The gate
  has no effect in live mode, where it finds no simulated rows (`signal_engine.py:597`).
- **List.** `PositionsProtect`: a listed wallet with an open position stays, whatever two overlapping refreshes
  decide. "Unless" covers what the code cannot see: a position opened after the refresh read
  them, and every position of an earlier process, since the map is empty after a restart, although
  the docstring keeps such a wallet "regardless of new score" (`whitelist_manager.py:62`).
  `RedisMirrors`, `WriterOwns`: between refreshes Redis holds the map, unless a call failed, two
  refreshes wrote at once or the process ended. `ListedAboveFloor`: neither rank nor retention lists a
  wallet below the floor; ranks above 60 ("just above floor", line 364) are below the default one.
  `EvictedNotCopied`: the lookup that falls back to Redis lets an evicted wallet pass only while a refresh writes
  or Redis is out of step.
- **Stream.** `StreamKept`: refused, cut off or silent, the stream comes back, unless a message of an unexpected
  type ended its task or Gamma failed at start-up, which nothing repairs. `ShutdownEnds`:
  a signal in any phase, the first refresh included, leads to the end of the process.
- **Books.** `PeakCoversLive`: whatever start, failure, reset and change of mode came before, the live peak is
  no lower than the bankroll, except between two writes or after a writer that ended there. `PeakEarned`: it is a
  balance the bot has had since the last reset, except after a first start that lost its second write, or a
  reset beside a running bot: the sync then writes `bot:bankroll` before any start can, and the peak of
  before the reset stays. `LiveRepaired`: a bot that stays live ends up with the bankroll of its rows. `PaperBalance`:
  the paper balance is the one the rows account for across restarts, resets and lives in the other mode, unless
  a cash update was cut short, failed, clamped or overlapped by another, a closed position was closed again, or the reset was half done
  or run beside the bot, which then pays out what was wiped.
  `ReportTies`: a report adds up unless something moved between its two reads, one of them failed, or the balance was off already.
- **Histories.** `HistoryWhole`: although the chain grows and its order is loose, every block that was there at its
  last answer is complete, unless an answer without data ended the scan, which looks like the last page
  (`bitquery_client.py:267`), or a page ended within the block: then a transfer may be listed twice and another never.
  The first exception is the code's: nothing catches it. `RaisedNotScored`: a wallet whose scan raised is not judged by the pages
  it got, and costs the others nothing; one whose scan ended at an answer without data is judged by them.
  `ScanEnds`: every refresh that asks gets its scores.
- **Record.** `DrawdownIsWorst`: the one-pass drawdown is the deepest fall of the balance over time, and that deep it
  fell, in whatever order rows commit. `DrawdownNeverShrinks`: a later report shows no smaller one unless a
  close of an earlier time is committed behind a later one or a row is closed again. `BreakdownsAgree`: tiers,
  wallets and categories add up to the totals in spite of marks that arrive on closed rows.
- **Refinement.** `ImplementsBook`, `LiveImplementsBook`: seen through their rows, both
  halves behave as `PositionBook`.

### 3.2 What the violated runs show

Each checks one sentence of the repository; no counterexample needs a fault.

1. *COPY is not alone* (`paper_trader.py:434` against `:131`): COPY looks at every strategy
   of its market but locks COPY only.
2. *FLIP is never answered* (`tests/test_position_ledger.py:168` against
   `position_ledger.py:180`): a larger trade of the other side deletes the entry; the
   copy-exit branch of `main.py:241` is therefore unreachable.
3. *The breaker never trips* (`risk_gate.py:8`, `README.md:190`, against `risk_gate.py:64`): only `check` compares
   the drawdown with its limit, and no path of the program calls it. A live bot stays below the limit for ever.

Four more disagreements show as exceptions of properties that hold:

- *Lost deduction* (`paper_trader.py:17` against `:422`): the balance is read, an await passes, and the difference is
  written; the lock is per market and strategy. It is `lostUpdate` in `AccountExact`.
- *Closed rows are closed and paid again* (`market_monitor.py:59` against `:88`): `doubleClose` in `AccountExact`, and
  the exception of `DrawdownNeverShrinks`.
- *FILLED becomes EXPIRED* (`order_executor.py:4` against `:371`): the writers never look at the present status;
  `RowsAgree` therefore speaks of what FILLED says about the exchange, not of its staying.
- *EXPIRED but live* (`order_executor.py:351` against `:352`): the answer of the cancel request is ignored; the
  exception of `WrittenOffIsDead`.

### 3.3 Bounds and why they are enough

- *Two trades, one order.* Each interference found is between two actors (two tasks, a
  task and a job, two jobs). `paper_account` has four actors: two tasks and two jobs.
  A third order or trade adds a further actor of a kind already present; the proofs (4)
  cover any number.
- *Prices 30, 50, 90 of 100.* With an entry at 50, they hit stop-loss, neither, and
  take-profit; 99 is a fill the price check refuses.
- *Bank of 150.* Two positions of 100 pass the cash check together and the second one
  clamps; `paper_copy_alone` uses 300, so that money is not the reason.
- *`Untainted`* (`paper_account`): a state constraint that follows a behaviour up to the
  first hazard other than a shortfall. `AccountExact` and `ClampOnlyForgives` say nothing beyond it. `PeakCovers` and `PeakNeverFalls`
  do: the former holds after a second close, the latter also after a failing Redis call or a crash. There the run is silent, and the
  theorems `PeakAlwaysCovers` and `PeakOnlyRises` (4) speak for them.
- *Two requests, two rounds.* One retry shows the duplicate order, one further round shows the
  decision made between two polls.
- *One failed transaction, one crash.* Each strikes at every point; the run after it shows
  what was left behind.
- *Three trades, two keys, sizes 1 and 2.* Two trades share a key and overlap, or build and
  reverse a position, and the third shows that a key is not disturbed by the other; 2 against 1 is
  the reversal.
- *Three pipelines, two markets* (`signal_gates`): two may be past a gate together while the
  third has an open position. Depths 5, 40 and 2000 and balances 1000 and 3000 are on
  either side of what a MICRO and a COPY need; the four trades are a copy, a converted sale, a
  flip and one too small.
- *Two wallets* (`live_watch`): one is retained or evicted while the other takes the first rank. The ranks give 85
  and 58, on either side of the floor of 65, and the scorer 13 or 32. `MaxBackoff` 2 is one doubling and the bound.
- *One position* (`bot_books`): the questions are about starts, writers and the reset; the costs of 2 and payouts of 0
  and 3 take a live bankroll of 4 below its limit and above its start. With two positions the run no longer ends
  in minutes; a *shortfall*, which needs two, is covered by the proof for any number. Two workers
  are enough for a lost update (one pays in while the other takes out) and for a second close. Two stops are a life in each mode
  and a third start.
- *Pages of two, three blocks* (`history_scan`): a block may straddle a page, a full page may be the last, and a block may
  come while the pages are fetched. Three retries are the code's four attempts. Two wallets: one fails while the other
  is scored.
- *Three positions, two jobs, three closes* (`track_record`): one of the jobs marks; commits may overtake each
  other, and a position may be closed twice. A loss of 4 is a deeper fall from 6 than from 9.
- *Symmetry* of trades is used only in `paper_account` and `signal_gates`, where no liveness property is checked.
- *Deadlock* is checked wherever the system never ends; it is off where it may be done
  (`paper_copy_alone`, the ledger runs, a refresh in `history_scan`, the last close of `track_record`).

### 3.4 Fairness

Weak fairness of each pipeline task, each job's start and steps, and the passing of an order's
time-out (`Age`). It is what the program rests on: asyncio runs every ready task, every request
has a client time-out so that its await returns (with an error if need be), APScheduler fires an
interval job again, and clocks advance. No fairness is assumed of faults, crashes, the exchange
or arriving trades. Weak fairness is enough: the lock of a slot has at most the other tasks
of a finite set before it, and a step that is enabled stays enabled until it is taken.

In `live_watch` the steps of `run()` (`Wire` or `Fatal`, `Stop`, `Cancel`, `Exit`) and of a refresh are fair, for the
same reason (the waits of `_shutdown` end after 3 and 5 seconds); signals, crashes, jobs and the stream are not. That the process ends
needs nothing of the stream: `_shutdown` cancels its task, in whatever wait it is.

In `bot_books` and `breaker_idle` the steps of the sync job are fair, since the scheduler starts it every 60 seconds; starts, stops,
positions, faults and the script are not. In `history_scan` the steps of the client are fair, since every
request has its time-out and a bounded number of attempts; the chain need not grow, nor stop growing.

## 4. The proofs

| Theorem | For every value of the constants |
|---|---|
| `TypeCorrect`, `SlotInvariant` | types of the paper half; of two open positions of a slot one was opened on a failed lookup |
| `PaperImplementsBook` | PaperTrading refines PositionBook, whatever fails |
| `OrderTypeCorrect`, `OrderInvariant`, with corollaries for its three parts | types of the live half; rows and exchange |
| `LiveBook` | OrderLifecycle refines PositionBook |
| `AccountInvariant`, `AccountIsExact`, `ClampsForgive`, `PeakAlwaysCovers`, `PeakOnlyRises` | the paper balance against any number of positions; its clamp; its peak |
| `LedgerTypeCorrect`, `LedgerInvariant`, corollary `LedgerAlwaysExact` | types of the ledger; atomicity, expiry |
| `NoneCountedTwice` | an entry never exceeds the volume of its wallet's trades |
| `CopySizeBounds`, `MicroIsTen`, corollary `SmallBankCopiesNothing` | what sizes are, for every input and setting |
| `SignalTypeCorrect`, `ExposureBounded`, `GatesHold` | types of the gates; exposure; related markets and breaker |
| `WatchTypeCorrect`, `ListHolds`, `StreamHolds`, `EvictedRejected` | types and back-off; protection, Redis, floor; the stream's loop; the score gate |
| `ScoreBounded`, `LosersUnlisted`, `FetchedUnlisted`, `VolumesDwarfTrades`, `CachedIsVolume` | what scores can be, for every history and setting |
| `BookTypeCorrect`, `PeakAlwaysCovers`, `PeakAlwaysEarned` | types of the books; the live bankroll and its peak |
| `BalanceOfRows`, `ReportsTie` | the paper balance across lives and resets; reports that add up |
| `ScanTyped`, `ScanWhole`, `TurnsKept` | types of a scan; what a history may miss; whom a failure costs his score |
| `RecordTyped`, `DrawdownTrue`, `DrawdownGrows`, `ReportAgrees` | types and times of the rows; what the drawdown means, and that it never shrinks; parts and totals |

The lemmas of `DollarSums` (`SumAdd`, `SumDrop`, `SumSame`, `SumPart`, `SumCapped`, `SumUnion`; `NetAdd`, `NetUnion`, `NetGroups`,
`NetCounts`) say how sums of naturals, and of gains and losses, change with their set and their amounts; they hold of any program and are not
listed as results.

Assumptions are the named ASSUMEs of the modules: identifiers of different kinds differ, bounds are
natural numbers, prices and money are as the settings give them.

**Slots.** That one open position of two was opened blind (`OneOpenPerStrategy`, a conjunct of `SlotInv`) is not inductive: at the insert of a
task whose lookup answered one must know that the slot is still empty. `SlotInv` adds who holds the lock (`LockHeld`: a task inside the critical section is the one its
key's lock names), what its lookup is worth (`SlotFree`: between a lookup that answered and the insert, the slot is empty),
that rows belong to tasks past their insert (`RowPlaced`), and that jobs know only rows that exist
(`JobRows`). `LockHeld` makes two tasks of one slot exclusive, so `SlotFree` survives another task's
insert; jobs only ever close. The proof has a frame lemma for job steps and one for the pipeline steps
that touch no row. The refinement then maps an insert to `Open`, or to `OpenBlind` behind a failed lookup, a close of an open row to
`Close`, and everything else, a second close included, to a stutter.

**Account.** The balance is compared with sums over sets of trades of any size, and no fold can be reasoned about
without induction. `Dollars` therefore defines a sum as the number of its dollars: the cardinality of the set of pairs of an
element and a number below its amount. Adding an element adds a disjoint set of pairs, so the lemmas of `DollarSums` follow from
the library's facts about cardinalities. `AccountExact` is not inductive: between a commit and its update the balance is
not the one of the rows. `AccountInv` compares it with what has been *taken* and *returned* instead, that is without what
tasks and jobs on their way still owe, and `WindowInv` adds that what an actor has read is still the balance, unless two
updates overlapped. At `Settled` nobody owes anything and the two sums coincide. `PeakInv` does the same for the peak: one job at a time
is at it, and holds no less than the balance. `PeakNeverFalls` needs `RaiseInv`: a job about to write the peak has read the one
that is stored and brings a higher one, unless two of them compared at once.

**Orders.** An actor reads the exchange, decides, and writes later. `VerdictTrue` states that what is
about to be written is already true of the exchange *and remains so*, which holds because a matched, cancelled or
expired order never changes again; a pending EXPIRED write needs the cancel to have succeeded.
`IdIsSent` bounds attempts by requests and makes each recorded id one that was sent, and `Recorded`
says that whatever an actor works on or a snapshot holds is in the table. Steps that change
neither exchange nor rows (`Move`) are treated once, in `InvMove`; sending, recording, cancelling,
writing and the exchange's own steps have a lemma each.

**Ledger.** `LedgerExact` says of each untainted key that the stored entry is `book[k]` and that an update
under way has the class and entry of `book[k]`. It is inductive with `OneAtATime` (an untainted
key has one update at a time, hence nobody else changes what it read) and `NoneCarried` (an
update that began to save before a switch taints its key). `WritesApply` connects the two case
distinctions, the code's and the reference's: what the branch writes is `Apply` of what it read. `CountedOnce` rests on
`OnlySaved`: what a store holds, and what a task in hand may still write, is bounded by the volume of the trades
whose write has taken place; a trade enters that set once, and the sum then grows by its size.

**Gates.** Sizes first: a tier is at most 2 % and the confidence multiplier at most 1.5, so a COPY is at
most 3 % of the balance it was computed from, and the 5 % cap inside the size computation never matters; with
the default live bankroll of 1000 no size reaches MIN_COPY_SIZE, and nothing is copied. The exposure of a
live market is not inductive: at `Open` one must know that the size was accounted for at the gate.
`LiveReserve` adds 3 % for every pipeline past the gate; `CapPasses` reserves it, `Open` spends it, `Decline`
returns it. In simulation, `SlotKnown` says that of two open positions of a slot one was opened blind, which
rests on `SlotRecorded` and the guard of `PositionBook!Open`; so a slot holds one position and the blind ones, each within its cap, and `SumCapped` bounds
their sum (`PaperExposure`). `NotStacked` needs `Apart` (nobody at the
executor is related to an open position or to another at the executor), `HaltStopsCopies` needs
`StillHalted`. Steps of a task through the gates are treated once (`GateAdvance`, `CapsQuiet`), and the four
ways out of the screening as one (`Leaves`).

**List and stream.** `RedisMirrors` is not inductive: the refresh that writes last must have written
the map in memory. `WriterOwns` says so of every writer, and it survives the other refresh's swap because
`Swap` marks Redis stale when the other one is writing. A mirror that completes clears the mark only for the
owner of the map (`OwnerHolds`: the map of the owner, while it writes, is the one in memory). `PositionsProtect` rests on the two
halves of `exposed`: `NewMap` keeps what was listed and shielded, and what was not
shielded is exposed. The invariant is preserved by each of `Swap`, `Mirror`, placing, closing and losing the process in a lemma of its own;
everything else leaves the list alone. `EvictedRejected` follows from the invariant in one step: without trouble, Redis
holds the map, so a wallet that is not in it has no score.

**Scores.** Each component is bounded by a lemma from two facts about integer division (`DivBounds`, `Percent`), and the
score by its weights. The best category is a CHOOSE over a set of any size; `LeastOf` shows with the library's
well-foundedness of `<` that it exists. Consequences: a loser is below the floor (at most 55); a fetched history cannot be scored, or
scores at most 32 where `MIN_RESOLVED_MARKETS` is 0; against a cached P90, which is somebody's whole volume, a
wallet of no larger volume gets at most 10 of 100 for size.

**Books.** `PeakCoversLive` needs what a writer at the peak has written before (`PeakInv`), `PeakEarned` that the key exists
whenever the bot is up and that a pending comparison is with a balance already counted (`EarnedInv`), which a reset
beside the bot destroys. `BalanceInv` is the account again, with what is owed on either side (`Credit`, `Debit`), and knows that while the script has wiped the
rows and not the balance no row is left. `WorkInv` says that without a lost update and a second close one worker at a time is between its read and
its write of the balance (`Updating`), that what it has read is still the balance, and that it closes what is open. `ReadInv` says that what a reader
holds is still true as long as nothing has torn it. The frame lemmas treat together the many actions that touch neither rows nor balance.

**Histories.** `HistoryWhole` says of a finished scan what `PagesInv` says of every moment of one: each place in `got` is
in the block whose offsets hold it, and a block that no page end cuts is listed, as far as the pages have come, either not at all or
whole and in one order. An answer lays the blocks end to end: its list is `FlattenSeq` of an order per block, so
block *i* begins at `Before(i)`, the sum of the lengths before it (`FlattenLays`, `ListingLays`). A page that follows then
either ends before a block, holds all of it or straddles it (`PageLays`), and `Grow` only adds behind. A block
whose places are all there gives the trades of one of its orders, since `TradesOf` looks at one transaction at a time and
transactions do not span blocks (`SameTrades`, `ListedIsWhole`). `TurnInv` says whose turn it is, and gives `RaisedNotScored`.

**Record.** `RecordInv` adds to the types that a decided close has a time that no row and no other job has; so the closed rows are
in one order of time however they commit. `SortExists` shows that a finite set can be sorted, `WalkExists` that
the walk of `MaxDrawdown` is a function; both are inductions, done as below. `Sound` is the invariant of the walk: what it holds after *n* closes
is the balance, the highest balance and the deepest fall of the first *n*. Its third part needs that falls, compared by their products, are
ordered (`DeeperTransitive`). `WalkInTime` takes steps to times: at each time the closes made are the first *n* of the
series for some *n*, and each *n* is reached at some time. `DrawdownTrue` follows. For `DrawdownGrows`, a step either leaves the closed rows as they are, but for
marks, or closes one row behind all others (`StepInOrder`); the falls of the past remain falls (`FallsStay`), and the deepest
of more falls is no less deep. `ReportAgrees` is `NetGroups` for each breakdown: rows grouped by whatever tells them apart add up
to what they add up to together.

**Induction.** The library's induction theorems take an operator and cannot be used. `LeastOf`, from the well-foundedness of `<`,
takes a *set* of naturals, so where an induction is needed the counterexamples form the set: the sizes of the subsets that
cannot be sorted, the lengths that have no walk, the steps at which an invariant of the walk fails. Its least element has a predecessor
that is no counterexample.

**Checked by TLC only.** The liveness properties (`TradeAnswered`, `JobRunEnds`, `PendingEnds`, `TaskEnds`, `ShutdownEnds`,
`ScanEnds` and `LiveRepaired`), since nothing installed proves what follows from fairness; and `CopyOpensAlone`, `FlipReverses` and
`BreakerTrips`, which are false. Every invariant and every action property of the passing runs is proved.

## 5. What is left out

- Numbers: slippage and book walk, average prices, partial fills, P&L rounding, timestamps, `exit_reason`.
- Whitelist: the P90 key as state (planned), the copy of the scores in `wallet_scores`, component scores and categories' names.
- Stream: parsing and the size filter of a trade; `stream_market_trades` only as the same loop.
- Reports: the daily P&L job, the Sharpe ratio, hold times, the signal funnel, the upsert of `sim_daily_snapshots` and all wording.
- Text: alerts, logs, HTTP and message parsing. A failing alert is swallowed by every caller.
- Code that nothing calls: `RiskGate.check`, `_trigger_circuit_breaker`, `reset_circuit_breaker`, `get_current_drawdown`,
  `PositionTracker.close_position`, `classify_trade_with_size`, and `_try_copy_exit`, whose only trigger
  is FLIP.
- The rows of signal events and whale trades that the pipeline writes (planned), `seed_whales.py`, `analyze_results.py`, and the
  routes of the HTTP monitor that read one thing.

Seen while reading, with no state worth a model:

- `SimMetrics` has neither `total_unrealized_pnl_usdc` nor `total_realized_pnl_usdc`, which two jobs read (`jobs.py:376`,
  `:408`): the mark job sends no update, and the report job sends its report and then an error alert.
- `_compute_sharpe` "requires at least 5 days of data" and counts positions (`performance_tracker.py:364`).
- The cached P90 is a percentile of volumes and is read as a trade size (`whitelist_manager.py:411`; what that does to scores
  is `VolumesDwarfTrades`, 4).

## 6. Plan

In this order; each becomes a module, its properties and one run.

1. **SignalEvents**: the rows the pipeline writes about each signal, and what a failed transaction there does to the
   execution that follows.
2. **Re-scoring across refreshes**: the P90 key with its expiry of 24 h, which ends in the middle of the nightly
   refresh, so that wallets of one refresh are measured by two sizes.
3. Proofs: the refinement of an abstract account by PaperAccount and BotBooks, so that the cash updates of both
   (2.1, 2.7) rest on one statement, as the executors do on PositionBook.
