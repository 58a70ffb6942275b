------------------------------ MODULE BotBooks ------------------------------
(***************************************************************************)
(* The books of the bot across its lives.  One database and one Redis are  *)
(* shared by simulated and live runs, by scripts/reset_sim.py and by those *)
(* who only read them: the performance tracker, PaperTrader and the HTTP   *)
(* dashboard.  The paper positions are those of PaperTrading, opened and   *)
(* closed by workers, its tasks and jobs; what this module adds is what    *)
(* happens around them: initialisation at start, the mode of the next      *)
(* start, the sync of the live bankroll and its peak, the reset, and       *)
(* reports that read the rows and the balance at different times.          *)
(***************************************************************************)
EXTENDS Integers, Dollars

CONSTANTS
    Positions,   \* paper positions that may be opened
    Workers,     \* what opens and closes them: pipeline tasks and jobs
    Size,        \* what each of them costs
    Payouts,     \* what a close may pay
    SimStart,    \* settings.SIM_BANKROLL_USDC
    LiveStart,   \* settings.BANKROLL_USDC
    Unset,       \* a Redis key that does not exist, or no position
    MaxFaults, MaxStops, MaxResets   \* bounds on what goes wrong

ASSUME PositionsAssumption == IsFiniteSet(Positions) /\ Size \in [Positions -> Nat \ {0}]
ASSUME WorkersAssumption   == IsFiniteSet(Workers)
ASSUME PayoutsAssumption   == Payouts \subseteq Nat
ASSUME StartAssumption     == SimStart \in Nat /\ LiveStart \in Nat
ASSUME UnsetAssumption     == Unset \notin Int \cup Positions
ASSUME BoundsAssumption    == MaxFaults \in Nat /\ MaxStops \in Nat /\ MaxResets \in Nat

VARIABLES
    row,       \* bot_positions: status of each paper position and what it paid
    work,      \* the step a worker is at, its position, what it pays or takes
               \* and the balance it has read
    simBank,   \* sim:bankroll
    liveBank,  \* bot:bankroll
    livePeak,  \* bot:peak_bankroll
    breaker,   \* bot:circuit_breaker_active
    mode,      \* settings.SIMULATION_MODE of the present or last process
    boot,      \* where the process is: off, a step of its start, or up
    sync,      \* the bankroll sync job: its step and the value it computed
    script,    \* the next key the reset script deletes
    report,    \* a reader and what it has read so far
    faults, stops, resets,
    hazard,    \* history: what went wrong so far
    behind,    \* history: a writer ended between bankroll and peak
    best       \* history: highest bot:bankroll since the key was last deleted

bookVars == <<row, work, simBank>>
liveVars == <<liveBank, livePeak, behind, best>>
procVars == <<mode, boot>>
histVars == <<faults, stops, resets, hazard>>
vars == <<bookVars, liveVars, procVars, histVars, breaker, sync, script,
          report>>

BootSteps   == {"simGet", "simBank", "liveGet", "liveBank", "livePeak"}
WorkSteps   == {"idle", "close", "deductGet", "deductSet", "restoreGet", "restoreSet"}
SyncSteps   == {"idle", "bank1", "peak1", "bank2", "peak2"}
ScriptSteps == {"idle", "simBank", "breaker", "liveBank"}
Kinds       == {"metrics", "status"}
HazardKinds == {"cashCut", "cashFailed", "shortfall", "lostUpdate", "doubleClose",
                "initCut", "resetUnderBot", "halfReset"}

Idle     == [step |-> "idle", pos |-> Unset, amount |-> 0, got |-> 0]
NoSync   == [pc |-> "idle", value |-> 0]
NoReport == [pc |-> "idle", kind |-> "metrics", bank |-> 0, held |-> 0,
             realised |-> 0, torn |-> FALSE]

-----------------------------------------------------------------------------
(* What the rows account for.                                              *)

Having(status) == {p \in Positions : row[p].status = status}
Held     == SumOf(Size, Having("open"))
Paid     == [p \in Positions |-> row[p].paid]
Realised == SumOf(Paid, Having("closed")) - SumOf(Size, Having("closed"))

Cash == IF simBank = Unset THEN SimStart ELSE simBank
Peak == IF livePeak = Unset THEN 0 ELSE livePeak
Higher(a, b) == IF a > b THEN a ELSE b

Up(m) == boot = "up" /\ mode = m
Fault == faults < MaxFaults /\ faults' = faults + 1
Flag(kind, cond) == IF cond THEN {kind} ELSE {}

\* workers that have committed a row and not yet updated the balance
Deducting == {w \in Workers : work[w].step \in {"deductGet", "deductSet"}}
Restoring == {w \in Workers : work[w].step \in {"restoreGet", "restoreSet"}}
Updating  == {w \in Workers : work[w].step \in {"deductSet", "restoreSet"}}
InCash    == Deducting \cup Restoring # {}

\* a report that has read one of its two sources does not see what changes now;
\* one that has been given out is forgotten
Disturb == report' = IF report.pc = "second" THEN [report EXCEPT !.torn = TRUE]
                                             ELSE NoReport

-----------------------------------------------------------------------------
(* The process: it starts in either mode, and stops or dies at any time.   *)

Init ==
    /\ row  = [p \in Positions |-> [status |-> "none", paid |-> 0]]
    /\ work = [w \in Workers |-> Idle]
    /\ simBank = Unset /\ liveBank = Unset /\ livePeak = Unset
    /\ breaker = FALSE
    /\ mode = "sim" /\ boot = "off"
    /\ sync = NoSync /\ script = "idle" /\ report = NoReport
    /\ faults = 0 /\ stops = 0 /\ resets = 0 /\ hazard = {}
    /\ behind = FALSE /\ best = 0

Start(m) ==
    /\ boot = "off"
    /\ mode' = m
    /\ boot' = IF m = "sim" THEN "simGet" ELSE "liveGet"
    /\ hazard' = hazard \cup Flag("resetUnderBot", script # "idle")
    /\ UNCHANGED <<bookVars, liveVars, breaker, sync, script, report, faults,
                   stops, resets>>

\* PaperTrader.initialize_bankroll, in simulation only
InitSim ==
    /\ \/ /\ boot = "simGet"
          /\ boot' = IF simBank = Unset THEN "simBank" ELSE "liveGet"
          /\ UNCHANGED simBank
       \/ /\ boot = "simBank"
          /\ simBank' = SimStart
          /\ boot' = "liveGet"
    /\ UNCHANGED <<row, work, liveVars, mode, histVars, breaker, sync, script,
                   report>>

\* Mutant: the peak of before a reset is kept
KeptPeak == Higher(Peak, LiveStart)

FirstPeak == LiveStart

\* RiskGate.initialize, in both modes: bankroll and peak are two writes
InitLive ==
    /\ \/ /\ boot = "liveGet"
          /\ boot' = IF liveBank = Unset THEN "liveBank" ELSE "up"
          /\ UNCHANGED liveVars
       \/ /\ boot = "liveBank"
          /\ liveBank' = LiveStart
          /\ best' = Higher(best, LiveStart)
          /\ boot' = "livePeak"
          /\ UNCHANGED <<livePeak, behind>>
       \/ /\ boot = "livePeak"
          /\ livePeak' = FirstPeak
          /\ behind' = FALSE
          /\ boot' = "up"
          /\ UNCHANGED <<liveBank, best>>
    /\ UNCHANGED <<bookVars, mode, histVars, breaker, sync, script, report>>

\* both initialisations swallow a Redis error, and the start goes on
InitFails ==
    /\ boot \in BootSteps
    /\ Fault
    /\ boot' = IF boot \in {"simGet", "simBank"} THEN "liveGet" ELSE "up"
    /\ hazard' = hazard \cup Flag("initCut", boot' = "up")
    /\ behind' = (behind \/ boot = "livePeak")
    /\ UNCHANGED <<bookVars, liveBank, livePeak, best, mode, breaker, sync,
                   script, report, stops, resets>>

\* A shutdown or a crash ends every task where it is.  The dashboard may run as
\* a process of its own, so its requests survive.
Stop ==
    /\ boot # "off" /\ stops < MaxStops
    /\ stops' = stops + 1
    /\ boot' = "off"
    /\ work' = [w \in Workers |-> Idle]
    /\ sync' = NoSync
    /\ report' = IF report.kind = "status" /\ report.pc = "second"
                 THEN report ELSE NoReport
    /\ hazard' = hazard \cup Flag("cashCut", InCash)
                        \cup Flag("initCut", boot = "livePeak")
    /\ behind' = (behind \/ boot = "livePeak" \/ sync.pc \in {"peak1", "peak2"})
    /\ UNCHANGED <<row, simBank, liveBank, livePeak, best, breaker, mode,
                   script, faults, resets>>

-----------------------------------------------------------------------------
(* The paper positions, as PaperTrading has them.                          *)

At(w, step) == work[w].step = step
Put(w, x)   == work' = [work EXCEPT ![w] = x]

\* get_available_cash lets it through; a failed read answers the start
Affordable(p) == \/ Cash >= Size[p] /\ UNCHANGED faults
                 \/ SimStart >= Size[p] /\ Fault

Open(w, p) ==
    /\ Up("sim") /\ At(w, "idle")
    /\ row[p].status = "none" /\ Affordable(p)
    /\ row'  = [row  EXCEPT ![p].status = "open"]
    /\ Put(w, [Idle EXCEPT !.step = "deductGet", !.pos = p, !.amount = Size[p]])
    /\ Disturb
    /\ UNCHANGED <<simBank, liveVars, procVars, stops, resets, hazard, breaker,
                   sync, script>>

\* a job has the position in its snapshot and awaits a price
Visit(w, p) ==
    /\ Up("sim") /\ At(w, "idle")
    /\ row[p].status = "open"
    /\ Put(w, [Idle EXCEPT !.step = "close", !.pos = p])
    /\ UNCHANGED <<row, simBank, liveVars, procVars, histVars, breaker, sync,
                   script, report>>

\* the update is by id, whatever the status, and its row count unused: what has
\* been closed or wiped since is paid out again
Close(w, q) ==
    /\ At(w, "close")
    /\ row' = [row EXCEPT ![work[w].pos] =
                  IF @.status = "gone" THEN @ ELSE [status |-> "closed", paid |-> q]]
    /\ Put(w, [work[w] EXCEPT !.step = "restoreGet", !.amount = q])
    /\ hazard' = hazard \cup Flag("doubleClose", row[work[w].pos].status = "closed")
    /\ Disturb
    /\ UNCHANGED <<simBank, liveVars, procVars, faults, stops, resets, breaker,
                   sync, script>>

KeepOpen(w) ==
    /\ At(w, "close")
    /\ Put(w, Idle)
    /\ UNCHANGED <<row, simBank, liveVars, procVars, histVars, breaker, sync,
                   script, report>>

HasRead(w, balance) ==
    [work[w] EXCEPT !.step = IF w \in Deducting THEN "deductSet" ELSE "restoreSet",
                    !.got  = balance]

\* _deduct_from_bankroll and restore_bankroll: a read, an await, a write
GetCash(w) ==
    /\ w \in Deducting \cup Restoring
    /\ w \notin Updating
    /\ Put(w, HasRead(w, Cash))
    /\ hazard' = hazard \cup Flag("lostUpdate", Updating # {})
    /\ UNCHANGED <<row, simBank, liveVars, procVars, faults, stops, resets,
                   breaker, sync, script, report>>

\* Mutant: a close returns the profit without the stake
PaysProfit(w) == IF w \in Deducting THEN Higher(0, work[w].got - work[w].amount)
                 ELSE Higher(0, work[w].got + work[w].amount - Size[work[w].pos])

NewBalance(w) == IF w \in Deducting THEN Higher(0, work[w].got - work[w].amount)
                 ELSE work[w].got + work[w].amount

SetCash(w) ==
    /\ w \in Updating
    /\ simBank' = NewBalance(w)
    /\ Put(w, Idle)
    /\ hazard' = hazard \cup Flag("shortfall", w \in Deducting
                                                 /\ work[w].got < work[w].amount)
    /\ Disturb
    /\ UNCHANGED <<row, liveVars, procVars, faults, stops, resets, breaker, sync,
                   script>>

\* the balance cannot be read and counts as the start, or cannot be written
CashFails(w) ==
    /\ w \in Deducting \cup Restoring
    /\ Fault
    /\ Put(w, IF w \in Updating THEN Idle ELSE HasRead(w, SimStart))
    /\ hazard' = hazard \cup {"cashFailed"}
    /\ UNCHANGED <<row, simBank, liveVars, procVars, stops, resets, breaker, sync,
                   script, report>>

-----------------------------------------------------------------------------
(* The bankroll sync job: sync_bankroll, then update_bankroll with what it *)
(* returned.  Each writes the bankroll and then raises the peak.  Nobody   *)
(* else writes the peak meanwhile, so reading it and writing it is a step. *)

\* Mutant: the stakes are not taken off
GrossValue == LiveStart + SumOf(Paid, Having("closed"))

\* the sum takes in every CLOSED row, simulated ones included
SyncValue == LiveStart + Realised

\* Mutant: the job runs in both modes
SyncsAlways ==
    /\ boot = "up" /\ sync.pc = "idle"
    /\ sync' = [pc |-> "bank1", value |-> SyncValue]
    /\ UNCHANGED <<bookVars, liveVars, procVars, histVars, breaker, script,
                   report>>

SyncBegin ==
    /\ Up("live") /\ sync.pc = "idle"
    /\ sync' = [pc |-> "bank1", value |-> SyncValue]
    /\ UNCHANGED <<bookVars, liveVars, procVars, histVars, breaker, script,
                   report>>

SyncBank ==
    /\ sync.pc \in {"bank1", "bank2"}
    /\ liveBank' = sync.value
    /\ best' = Higher(best, sync.value)
    /\ sync' = [sync EXCEPT !.pc = IF @ = "bank1" THEN "peak1" ELSE "peak2"]
    /\ UNCHANGED <<bookVars, livePeak, behind, procVars, histVars, breaker,
                   script, report>>

\* Mutant: the comparison the wrong way round
Lowered == IF sync.value < Peak THEN sync.value ELSE livePeak

Raised == IF sync.value > Peak THEN sync.value ELSE livePeak

SyncPeak ==
    /\ sync.pc \in {"peak1", "peak2"}
    /\ livePeak' = Raised
    /\ behind' = FALSE
    /\ sync' = IF sync.pc = "peak1" THEN [sync EXCEPT !.pc = "bank2"] ELSE NoSync
    /\ UNCHANGED <<bookVars, liveBank, best, procVars, histVars, breaker, script,
                   report>>

\* either half swallows a Redis error; the second half runs all the same
SyncFails ==
    /\ sync.pc # "idle"
    /\ Fault
    /\ behind' = (behind \/ sync.pc \in {"peak1", "peak2"})
    /\ sync' = IF sync.pc \in {"bank1", "peak1"}
               THEN [sync EXCEPT !.pc = "bank2"] ELSE NoSync
    /\ UNCHANGED <<bookVars, liveBank, livePeak, best, procVars, stops, resets,
                   hazard, breaker, script, report>>

SyncStep == SyncBegin \/ SyncBank \/ SyncPeak

-----------------------------------------------------------------------------
(* scripts/reset_sim.py: one transaction for the tables, then key by key.  *)
(* It deletes bot:bankroll but not bot:peak_bankroll.                      *)

ResetRows ==
    /\ script = "idle" /\ resets < MaxResets
    /\ resets' = resets + 1
    /\ script' = "simBank"
    /\ row' = [p \in Positions |-> IF row[p].status = "none" THEN row[p]
                                   ELSE [status |-> "gone", paid |-> 0]]
    /\ hazard' = hazard \cup Flag("resetUnderBot", boot # "off")
    /\ Disturb
    /\ UNCHANGED <<work, simBank, liveVars, procVars, faults, stops, breaker, sync>>

\* a DELETE that fails is caught in the loop, but it aborts the transaction:
\* no row is deleted, and the keys go all the same
ResetRollsBack ==
    /\ script = "idle" /\ resets < MaxResets
    /\ Fault
    /\ resets' = resets + 1
    /\ script' = "simBank"
    /\ hazard' = hazard \cup {"halfReset"} \cup Flag("resetUnderBot", boot # "off")
    /\ UNCHANGED <<bookVars, liveVars, procVars, stops, breaker, sync, report>>

DeleteKey ==
    /\ \/ /\ script = "simBank"
          /\ simBank' = Unset
          /\ script' = "breaker"
          /\ UNCHANGED <<liveBank, best, breaker>>
       \/ /\ script = "breaker"
          /\ breaker' = FALSE
          /\ script' = "liveBank"
          /\ UNCHANGED <<simBank, liveBank, best>>
       \/ /\ script = "liveBank"
          /\ liveBank' = Unset
          /\ best' = 0
          /\ script' = "idle"
          /\ UNCHANGED <<simBank, breaker>>
    /\ Disturb
    /\ UNCHANGED <<row, work, livePeak, behind, procVars, histVars, sync>>

\* a Redis error is "non-fatal": the script prints it and is done
ScriptFails ==
    /\ script # "idle"
    /\ Fault
    /\ script' = "idle"
    /\ hazard' = hazard \cup {"halfReset"}
    /\ UNCHANGED <<bookVars, liveVars, procVars, stops, resets, breaker, sync,
                   report>>

-----------------------------------------------------------------------------
(* The readers.  compute_metrics and get_portfolio_value read the rows and *)
(* then the balance, /api/status the other way round.  They do not see     *)
(* each other: one at a time is enough.                                    *)

Reads(kind) == kind = "status" \/ Up("sim")

\* Mutant: closed positions still count as deployed
ReadAllRows(r) == [r EXCEPT !.held = SumOf(Size, Having("open") \cup Having("closed")),
                            !.realised = Realised]

\* the report shows the realised P&L, or is held against it
ReadRows(r)    == [r EXCEPT !.held = Held, !.realised = Realised]
ReadBalance(r) == [r EXCEPT !.bank = Cash]
First(r)  == IF r.kind = "status" THEN ReadBalance(r) ELSE ReadRows(r)
Second(r) == IF r.kind = "status" THEN ReadRows(r) ELSE ReadBalance(r)

\* a report begins; what is on its way already tears it
Fresh(kind) == [NoReport EXCEPT !.pc = "second", !.kind = kind,
                                !.torn = InCash \/ script # "idle"]

ReportBegin(kind) ==
    /\ Reads(kind) /\ report.pc # "second"
    /\ report' = First(Fresh(kind))
    /\ UNCHANGED <<bookVars, liveVars, procVars, histVars, breaker, sync, script>>

ReportEnd ==
    /\ report.pc = "second"
    /\ report' = Second([report EXCEPT !.pc = "done"])
    /\ UNCHANGED <<bookVars, liveVars, procVars, histVars, breaker, sync, script>>

\* either read may fail: rows that cannot be read count as none, a balance that
\* cannot be read as the starting one, and the report does not say so
NoRows(r)    == [r EXCEPT !.held = 0, !.realised = 0, !.torn = TRUE]
NoBalance(r) == [r EXCEPT !.bank = SimStart, !.torn = TRUE]

ReportFails ==
    /\ Fault
    /\ \/ /\ report.pc = "second"
          /\ LET r == [report EXCEPT !.pc = "done"]
             IN  report' = IF r.kind = "status" THEN NoRows(r) ELSE NoBalance(r)
       \/ /\ report.pc # "second"
          /\ \E kind \in Kinds :
                /\ Reads(kind)
                /\ report' = IF kind = "status" THEN NoBalance(Fresh(kind))
                                                ELSE NoRows(Fresh(kind))
    /\ UNCHANGED <<bookVars, liveVars, procVars, stops, resets, hazard, breaker,
                   sync, script>>

-----------------------------------------------------------------------------
Next ==
    \/ \E m \in {"sim", "live"} : Start(m)
    \/ InitSim \/ InitLive \/ InitFails \/ Stop
    \/ \E w \in Workers : \/ \E p \in Positions : Open(w, p) \/ Visit(w, p)
                          \/ \E q \in Payouts : Close(w, q)
                          \/ KeepOpen(w) \/ GetCash(w) \/ SetCash(w) \/ CashFails(w)
    \/ SyncStep \/ SyncFails
    \/ ResetRows \/ ResetRollsBack \/ DeleteKey \/ ScriptFails
    \/ (\E k \in Kinds : ReportBegin(k)) \/ ReportEnd \/ ReportFails

\* the scheduler runs the sync every 60 seconds while the live bot is up
Spec == Init /\ [][Next]_vars /\ WF_vars(SyncStep)
=============================================================================
