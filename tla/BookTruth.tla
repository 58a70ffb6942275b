----------------------------- MODULE BookTruth -----------------------------
(***************************************************************************)
(* What the books of BotBooks are good for: a bankroll that follows the    *)
(* rows, a peak that was reached, and reports that add up.                 *)
(***************************************************************************)
EXTENDS BotBooks

CONSTANT DrawdownPct   \* settings.MAX_DRAWDOWN_PCT, in percent

ASSUME DrawdownAssumption == DrawdownPct \in 0 .. 100

-----------------------------------------------------------------------------
\* Types, and what a step of the start or of a job takes for granted: the
\* paper bot is at work in simulation only, the sync in live mode only.
RowsTyped ==
    /\ row  \in [Positions -> [status : {"none", "open", "closed", "gone"},
                               paid : Nat]]
    /\ work \in [Workers -> [step : WorkSteps, pos : Positions \cup {Unset},
                             amount : Nat, got : Nat]]
    /\ simBank \in Nat \cup {Unset}
LiveTyped ==
    /\ liveBank \in Int \cup {Unset}
    /\ livePeak \in Nat \cup {Unset}
    /\ best \in Nat /\ behind \in BOOLEAN
    /\ sync \in [pc : SyncSteps, value : Int]
ReportTyped ==
    report \in [pc : {"idle", "second", "done"}, kind : Kinds, bank : Nat,
                held : Nat, realised : Int, torn : BOOLEAN]
ControlTyped ==
    /\ mode \in {"sim", "live"} /\ boot \in {"off", "up"} \cup BootSteps
    /\ script \in ScriptSteps /\ breaker \in BOOLEAN
    /\ faults \in 0 .. MaxFaults /\ stops \in 0 .. MaxStops /\ resets \in 0 .. MaxResets
    /\ hazard \subseteq HazardKinds
AtWork ==
    /\ \A w \in Workers : ~At(w, "idle") => Up("sim") /\ work[w].pos # Unset
    /\ sync.pc # "idle" => Up("live")
BookTypeOK == RowsTyped /\ LiveTyped /\ ReportTyped /\ ControlTyped /\ AtWork

-----------------------------------------------------------------------------
\* The live bankroll and its peak

\* a writer is between the bankroll and the peak that belongs to it
AtPeak == boot = "livePeak" \/ sync.pc \in {"peak1", "peak2"}

\* Both the sync and update_bankroll write the bankroll first and the peak
\* after.  Unless a writer is in between, or one was ended there and none has
\* come through since, bot:peak_bankroll is no lower than bot:bankroll,
\* whatever start, reset, failure and switch of mode came before.
PeakCoversLive == liveBank # Unset /\ ~AtPeak /\ ~behind => Peak >= liveBank

\* The peak is a balance the bot has had since the last reset.  It is not if
\* the first start after a reset lost its second write, or the bot was up
\* during the reset, whose script leaves bot:peak_bankroll alone: the sync
\* then writes bot:bankroll before any start can, and the old peak stays.
PeakEarned ==
    liveBank # Unset /\ ~AtPeak /\ hazard \cap {"initCut", "resetUnderBot"} = {}
        => Peak <= best

\* Whatever reset, crash, failed write or time in simulation came before, a
\* bot that stays live ends up with the bankroll the rows account for and a
\* peak not below it: "every 60s - bankroll sync from realized P&L".
LiveRepaired ==
    <>[]Up("live") =>
        <>[](liveBank = LiveStart + Realised /\ Peak >= liveBank)

\* "The circuit breaker trips when: current_bankroll < initial_bankroll *
\* (1 - MAX_DRAWDOWN_PCT)": a live bot that stays below is halted.
Below == liveBank # Unset /\ 100 * liveBank < LiveStart * (100 - DrawdownPct)
BreakerTrips == Up("live") /\ Below ~> breaker \/ ~Up("live") \/ ~Below

-----------------------------------------------------------------------------
\* The paper balance and the reports

PaperHazards == {"cashCut", "cashFailed", "shortfall", "lostUpdate", "doubleClose",
                 "resetUnderBot", "halfReset"}

\* The paper balance is the one the rows account for, across restarts, resets
\* and runs in live mode, unless a cash update was cut short, failed, clamped
\* or overlapped by another, a closed position was closed again, or a reset
\* was half done or done under a running bot, which then pays out what was wiped.
PaperBalance ==
    ~InCash /\ script = "idle" /\ hazard \cap PaperHazards = {}
        => Cash + Held = SimStart + Realised

\* A report reads rows and balance at different times.  Cash and deployed
\* capital in it are the starting bankroll and the realised P&L, unless one of
\* its reads failed, something moved between them, or the balance was off.
ReportTies ==
    report.pc = "done" /\ ~report.torn /\ hazard \cap PaperHazards = {} =>
        report.bank + report.held = SimStart + report.realised

-----------------------------------------------------------------------------
\* The strengthening of the four

\* A script that runs beside the bot is known; a writer at the peak has
\* written the bankroll, unless the script has deleted it.
ScriptAlone == script # "idle" /\ boot # "off" => "resetUnderBot" \in hazard
PeakInv ==
    /\ sync.pc \in {"peak1", "peak2"} => liveBank \in {Unset, sync.value}
    /\ boot = "livePeak" => liveBank \in {Unset, LiveStart}
    /\ PeakCoversLive

\* Without the two hazards the key exists whenever the bot is up, and neither
\* bankroll, nor peak, nor what a sync is about to compare exceeds the best.
EarnedInv ==
    hazard \cap {"initCut", "resetUnderBot"} = {} =>
        /\ boot \in {"livePeak", "up"} => liveBank # Unset
        /\ boot = "livePeak" => LiveStart <= best
        /\ liveBank # Unset /\ boot # "livePeak" => Peak <= best
        /\ sync.pc \in {"peak1", "peak2"} => sync.value <= best

\* Between the commit and the cash update of a position the balance lacks what
\* a worker still owes it.  While the script has wiped the rows and not the
\* balance there is nothing to say, but then every row is gone.
Amount == [w \in Workers |-> work[w].amount]
Credit == Cash + SumOf(Size, Having("open")) + SumOf(Amount, Restoring)
               + SumOf(Size, Having("closed"))
Debit  == SimStart + SumOf(Paid, Having("closed")) + SumOf(Amount, Deducting)

\* a worker closes what was open once, and nobody else is between the read and
\* the write of the balance, so that what a worker has read is the balance
WorkInv ==
    /\ \A w \in Workers :
          /\ At(w, "close") => row[work[w].pos].status \in {"open", "closed"}
          /\ w \in Updating => work[w].got = Cash
    /\ \A v, w \in Updating : v = w
BalanceInv ==
    /\ boot = "simBank" => simBank = Unset
    /\ hazard \cap PaperHazards = {} =>
        /\ WorkInv
        /\ script = "simBank" => Having("open") = {} /\ Having("closed") = {}
        /\ script # "simBank" => Credit = Debit

\* What a report has read is still true while nothing has torn it.
ReadInv ==
    report.pc = "second" /\ ~report.torn /\ hazard \cap PaperHazards = {} =>
        /\ ~InCash /\ script = "idle"
        /\ report.kind = "metrics" => report.held = Held /\ report.realised = Realised
        /\ report.kind = "status"  => report.bank = Cash
=============================================================================
