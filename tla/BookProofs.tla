----------------------------- MODULE BookProofs -----------------------------
(***************************************************************************)
(* Proofs about BotBooks, for any positions, workers, sizes, payouts,      *)
(* starting bankrolls and bounds on faults, stops and resets.                       *)
(***************************************************************************)
EXTENDS BookTruth, DollarSums

-----------------------------------------------------------------------------
\* What the sums and the balances are

LEMMA HavingFinite ==
  ASSUME NEW status
  PROVE  IsFiniteSet(Having(status)) /\ Having(status) \subseteq Positions
<1>1. Having(status) \in SUBSET Positions
  BY DEF Having
<1> QED BY <1>1, PositionsAssumption, FS_Subset

\* The money tied up, and what was made of it, are numbers.
LEMMA RowSums ==
  ASSUME BookTypeOK
  PROVE  /\ Held \in Nat /\ Realised \in Int
         /\ SumOf(Size, Having("open")) \in Nat
         /\ SumOf(Size, Having("closed")) \in Nat
         /\ SumOf(Paid, Having("closed")) \in Nat
<1>1. SumOf(Size, Having("open")) \in Nat /\ SumOf(Size, Having("closed")) \in Nat
  BY HavingFinite, PositionsAssumption, SumType
<1>2. \A p \in Having("closed") : Paid[p] \in Nat
  BY HavingFinite DEF Paid, BookTypeOK, RowsTyped
<1>3. SumOf(Paid, Having("closed")) \in Nat
  BY <1>2, HavingFinite, SumType
<1> QED BY <1>1, <1>3 DEF Held, Realised

LEMMA Balances ==
  ASSUME BookTypeOK
  PROVE  Cash \in Nat /\ Peak \in Nat
  BY StartAssumption DEF BookTypeOK, RowsTyped, LiveTyped, Cash, Peak

\* A balance after a cash update is still a natural.
LEMMA NewBalanceNat ==
  ASSUME BookTypeOK, NEW w \in Workers
  PROVE  NewBalance(w) \in Nat
<1>1. work[w].got \in Nat /\ work[w].amount \in Nat
  BY DEF BookTypeOK, RowsTyped
<1> QED BY <1>1 DEF NewBalance, Higher

WorkRecord == [step : WorkSteps, pos : Positions \cup {Unset}, amount : Nat, got : Nat]

LEMMA IdleRecord == Idle \in WorkRecord
  BY DEF Idle, WorkRecord, WorkSteps

-----------------------------------------------------------------------------
\* Type correctness

LEMMA BookTypeInit == Init => BookTypeOK
<1> SUFFICES ASSUME Init PROVE BookTypeOK
  OBVIOUS
<1>1. RowsTyped
  BY IdleRecord DEF Init, RowsTyped, WorkRecord
<1>2. LiveTyped
  <2>1. behind \in BOOLEAN
    BY DEF Init
  <2>2. sync \in [pc : SyncSteps, value : Int]
    BY DEF Init, NoSync, SyncSteps
  <2>3. liveBank \in Int \cup {Unset} /\ livePeak \in Nat \cup {Unset} /\ best \in Nat
    BY DEF Init
  <2> QED BY <2>1, <2>2, <2>3 DEF LiveTyped
<1>3. ReportTyped
  BY DEF Init, ReportTyped, NoReport, Kinds
<1>4. ControlTyped
  <2>1. breaker \in BOOLEAN
    BY DEF Init
  <2>2. faults \in 0 .. MaxFaults /\ stops \in 0 .. MaxStops /\ resets \in 0 .. MaxResets
    BY BoundsAssumption DEF Init
  <2>3. mode \in {"sim", "live"} /\ boot \in {"off", "up"} \cup BootSteps
        /\ script \in ScriptSteps /\ hazard \subseteq HazardKinds
    BY DEF Init, ScriptSteps
  <2> QED BY <2>1, <2>2, <2>3 DEF ControlTyped
<1>5. AtWork
  BY DEF Init, AtWork, NoSync, At, Idle
<1> QED BY <1>1, <1>2, <1>3, <1>4, <1>5 DEF BookTypeOK

\* A start, and the steps of the two initialisations: nothing is at work yet.
LEMMA BookTypeStart ==
  ASSUME BookTypeOK, (\E m \in {"sim", "live"} : Start(m)) \/ InitSim \/ InitLive
                      \/ InitFails
  PROVE  BookTypeOK'
<1>1. boot # "up" /\ UNCHANGED <<row, work, sync, report, script, breaker, stops, resets>>
  BY DEF Start, InitSim, InitLive, InitFails, BootSteps, bookVars, liveVars, procVars,
         histVars
<1>2. AtWork'
  BY <1>1 DEF BookTypeOK, AtWork, At, Up
<1>3. ReportTyped'
  BY <1>1 DEF BookTypeOK, ReportTyped
<1>4. RowsTyped'
  BY <1>1, StartAssumption DEF BookTypeOK, RowsTyped, Start, InitSim, InitLive,
         InitFails, bookVars
<1>5. LiveTyped'
  <2>1. CASE UNCHANGED liveVars
    BY <1>1, <2>1 DEF BookTypeOK, LiveTyped, liveVars
  <2>2. CASE InitLive
    <3>1. liveBank' \in Int \cup {Unset} /\ livePeak' \in Nat \cup {Unset} /\ best' \in Nat
      BY <2>2, StartAssumption DEF FirstPeak, BookTypeOK, LiveTyped, InitLive, liveVars, Higher
    <3>2. behind' \in BOOLEAN
      BY <2>2 DEF BookTypeOK, LiveTyped, InitLive, liveVars
    <3> QED BY <1>1, <3>1, <3>2 DEF BookTypeOK, LiveTyped
  <2>3. CASE InitFails
    <3>1. behind' \in BOOLEAN /\ UNCHANGED <<liveBank, livePeak, best>>
      BY <2>3 DEF InitFails
    <3> QED BY <1>1, <3>1 DEF BookTypeOK, LiveTyped
  <2> QED BY <2>1, <2>2, <2>3 DEF Start, InitSim
<1>6. boot' \in {"off", "up"} \cup BootSteps /\ mode' \in {"sim", "live"}
  BY DEF BookTypeOK, ControlTyped, Start, InitSim, InitLive, InitFails, BootSteps
<1>7. hazard' \subseteq HazardKinds
  BY DEF BookTypeOK, ControlTyped, Start, InitSim, InitLive, InitFails, histVars,
         HazardKinds, Flag
<1>8. faults' \in 0 .. MaxFaults
  BY BoundsAssumption DEF BookTypeOK, ControlTyped, Start, InitSim, InitLive,
         InitFails, histVars, Fault
<1> QED BY <1>1, <1>2, <1>3, <1>4, <1>5, <1>6, <1>7, <1>8 DEF BookTypeOK, ControlTyped

LEMMA BookTypeStop ==
  ASSUME BookTypeOK, Stop
  PROVE  BookTypeOK'
<1>1. RowsTyped' /\ AtWork'
  BY IdleRecord DEF BookTypeOK, RowsTyped, WorkRecord, AtWork, At, Stop, Idle, NoSync
<1>2. LiveTyped'
  <2>1. behind' \in BOOLEAN
    BY DEF Stop
  <2>2. sync' \in [pc : SyncSteps, value : Int]
    BY DEF Stop, NoSync, SyncSteps
  <2> QED BY <2>1, <2>2 DEF BookTypeOK, LiveTyped, Stop
<1>3. ReportTyped'
  BY DEF BookTypeOK, ReportTyped, Stop, NoReport, Kinds
<1>4. ControlTyped'
  BY BoundsAssumption DEF BookTypeOK, ControlTyped, Stop, HazardKinds, Flag
<1> QED BY <1>1, <1>2, <1>3, <1>4 DEF BookTypeOK

\* Every action of the paper bot.
PaperStep(w) == \/ \E p \in Positions : Open(w, p) \/ Visit(w, p)
                \/ \E q \in Payouts : Close(w, q)
                \/ KeepOpen(w) \/ GetCash(w) \/ SetCash(w) \/ CashFails(w)

\* Who is at work is up in simulation, and the sync is not.
LEMMA PaperAtWork ==
  ASSUME BookTypeOK, NEW w \in Workers, PaperStep(w)
  PROVE  Up("sim") /\ boot = "up" /\ sync.pc = "idle"
         /\ (work[w].step # "idle" => work[w].pos \in Positions)
<1>1. Up("sim")
  BY DEF BookTypeOK, AtWork, At, PaperStep, Open, Visit, KeepOpen, GetCash, SetCash,
         CashFails, Close, Deducting, Restoring, Updating
<1> QED BY <1>1 DEF BookTypeOK, AtWork, At, Up, RowsTyped

\* What a worker's entry becomes, whichever step it takes.
LEMMA PaperPuts ==
  ASSUME BookTypeOK, NEW w \in Workers, PaperStep(w)
  PROVE  \E x \in WorkRecord : Put(w, x) /\ (x.step # "idle" => x.pos # Unset)
<1>1. work[w] \in WorkRecord
  BY DEF BookTypeOK, RowsTyped, WorkRecord
<1>2. \A p \in Positions : p # Unset /\ Size[p] \in Nat
        => /\ [Idle EXCEPT !.step = "deductGet", !.pos = p, !.amount = Size[p]] \in WorkRecord
           /\ [Idle EXCEPT !.step = "close", !.pos = p] \in WorkRecord
  BY DEF Idle, WorkRecord, WorkSteps
<1>3. CASE \E p \in Positions : Open(w, p)
  <2> PICK p \in Positions : Open(w, p)
    BY <1>3
  <2> DEFINE x == [Idle EXCEPT !.step = "deductGet", !.pos = p, !.amount = Size[p]]
  <2>1. Put(w, x) /\ x.pos = p
    BY DEF Open, Idle
  <2>2. x \in WorkRecord
    BY PositionsAssumption DEF Idle, WorkRecord, WorkSteps
  <2>3. p # Unset
    BY UnsetAssumption
  <2> QED BY <2>1, <2>2, <2>3
<1>4. CASE \E p \in Positions : Visit(w, p)
  <2> PICK p \in Positions : Visit(w, p)
    BY <1>4
  <2> DEFINE x == [Idle EXCEPT !.step = "close", !.pos = p]
  <2>1. Put(w, x) /\ x.pos = p
    BY DEF Visit, Idle
  <2>2. x \in WorkRecord
    BY DEF Idle, WorkRecord, WorkSteps
  <2> QED BY <2>1, <2>2, UnsetAssumption
<1>5. CASE \E q \in Payouts : Close(w, q)
  <2> PICK q \in Payouts : Close(w, q)
    BY <1>5
  <2> DEFINE x == [work[w] EXCEPT !.step = "restoreGet", !.amount = q]
  <2>1. Put(w, x) /\ x.pos = work[w].pos /\ work[w].step = "close"
    BY <1>1 DEF Close, At, WorkRecord
  <2>2. x \in WorkRecord
    BY <1>1, PayoutsAssumption DEF WorkRecord, WorkSteps
  <2>3. work[w].pos # Unset
    BY <2>1 DEF BookTypeOK, AtWork, At
  <2> QED BY <2>1, <2>2, <2>3
<1>6. CASE KeepOpen(w) \/ SetCash(w) \/ (CashFails(w) /\ w \in Updating)
  BY <1>6, IdleRecord DEF KeepOpen, SetCash, CashFails, Idle
<1>7. CASE GetCash(w) \/ (CashFails(w) /\ w \notin Updating)
  <2>1. PICK b \in Nat : Put(w, HasRead(w, b))
    BY <1>7, Balances, StartAssumption DEF GetCash, CashFails
  <2>2. HasRead(w, b) \in WorkRecord /\ HasRead(w, b).pos = work[w].pos
    BY <1>1 DEF HasRead, WorkRecord, WorkSteps
  <2>3. work[w].pos # Unset
    BY <1>7 DEF BookTypeOK, AtWork, At, GetCash, CashFails, Deducting, Restoring
  <2> QED BY <2>1, <2>2, <2>3
<1> QED BY <1>3, <1>4, <1>5, <1>6, <1>7 DEF PaperStep

LEMMA BookTypePaper ==
  ASSUME BookTypeOK, NEW w \in Workers, PaperStep(w)
  PROVE  BookTypeOK'
<1>1. Up("sim") /\ sync.pc = "idle"
  BY PaperAtWork
<1>2. UNCHANGED <<liveVars, procVars, sync, script, breaker, stops, resets>>
  BY DEF PaperStep, Open, Visit, KeepOpen, GetCash, SetCash, CashFails, Close, histVars
<1>3. PICK x \in WorkRecord : Put(w, x) /\ (x.step # "idle" => x.pos # Unset)
  BY PaperPuts
<1>4. /\ work' \in [Workers -> WorkRecord]
      /\ \A v \in Workers : work'[v] = IF v = w THEN x ELSE work[v]
  BY <1>3 DEF Put, BookTypeOK, RowsTyped, WorkRecord
<1>5. LiveTyped'
  BY <1>2 DEF BookTypeOK, LiveTyped, liveVars
<1>6. AtWork'
  BY <1>1, <1>2, <1>3, <1>4 DEF BookTypeOK, AtWork, At, procVars, Up
<1>7. ReportTyped'
  <2>1. NoReport \in [pc : {"idle", "second", "done"}, kind : Kinds, bank : Nat,
                      held : Nat, realised : Int, torn : BOOLEAN]
    BY DEF NoReport, Kinds
  <2>2. UNCHANGED report \/ Disturb
    BY DEF PaperStep, Open, Visit, KeepOpen, GetCash, SetCash, CashFails, Close
  <2> QED BY <2>1, <2>2 DEF BookTypeOK, ReportTyped, Disturb
<1>8. hazard' \subseteq HazardKinds /\ faults' \in 0 .. MaxFaults
  <2>1. UNCHANGED faults \/ Fault
    BY DEF PaperStep, Open, Visit, KeepOpen, GetCash, SetCash, CashFails, Close, histVars,
           Affordable
  <2>2. hazard' \subseteq hazard \cup {"lostUpdate", "doubleClose", "shortfall", "cashFailed"}
    BY DEF PaperStep, Open, Visit, KeepOpen, GetCash, SetCash, CashFails, Close, histVars,
           Flag
  <2>3. faults' \in 0 .. MaxFaults
    BY <2>1, BoundsAssumption DEF BookTypeOK, ControlTyped, Fault
  <2>4. hazard \subseteq HazardKinds
    BY DEF BookTypeOK, ControlTyped
  <2> QED BY <2>2, <2>3, <2>4 DEF HazardKinds
<1>9. ControlTyped'
  BY <1>2, <1>8 DEF BookTypeOK, ControlTyped, procVars
<1>10. row' \in [Positions -> [status : {"none", "open", "closed", "gone"}, paid : Nat]]
  <2> DEFINE Rows == [status : {"none", "open", "closed", "gone"}, paid : Nat]
  <2>1. CASE \E q \in Payouts : Close(w, q)
    <3> PICK q \in Payouts : Close(w, q)
      BY <2>1
    <3> DEFINE p == work[w].pos
    <3>1. p \in Positions
      BY PaperAtWork DEF Close, At
    <3>2. row[p] \in Rows /\ [status |-> "closed", paid |-> q] \in Rows
      BY <3>1, PayoutsAssumption DEF BookTypeOK, RowsTyped
    <3>3. PICK y \in Rows : row' = [row EXCEPT ![p] = y]
      BY <3>2 DEF Close
    <3> QED BY <3>1, <3>3 DEF BookTypeOK, RowsTyped
  <2>2. CASE \E p \in Positions : Open(w, p)
    BY <2>2 DEF BookTypeOK, RowsTyped, Open
  <2>3. CASE UNCHANGED row
    BY <2>3 DEF BookTypeOK, RowsTyped
  <2> QED BY <2>1, <2>2, <2>3 DEF PaperStep, Visit, KeepOpen, GetCash, SetCash, CashFails
<1>11. simBank' \in Nat \cup {Unset}
  BY NewBalanceNat DEF BookTypeOK, RowsTyped, PaperStep, Open, Visit, KeepOpen, GetCash,
         SetCash, CashFails, Close
<1> QED BY <1>4, <1>5, <1>6, <1>7, <1>9, <1>10, <1>11
        DEF BookTypeOK, RowsTyped, WorkRecord

\* Every action of the sync job.
LEMMA BookTypeSync ==
  ASSUME BookTypeOK, SyncStep \/ SyncFails
  PROVE  BookTypeOK'
<1>1. Up("live")
  BY DEF BookTypeOK, AtWork, SyncStep, SyncFails, SyncBegin, SyncBank, SyncPeak
<1>2. UNCHANGED <<bookVars, procVars, script, breaker, report, stops, resets, hazard>>
  BY DEF SyncStep, SyncFails, SyncBegin, SyncBank, SyncPeak, histVars
<1>3. faults' \in 0 .. MaxFaults
  BY BoundsAssumption DEF BookTypeOK, ControlTyped, SyncStep, SyncFails, SyncBegin,
         SyncBank, SyncPeak, histVars, Fault
<1>4. RowsTyped' /\ ReportTyped' /\ ControlTyped' /\ AtWork'
  BY <1>1, <1>2, <1>3 DEF BookTypeOK, RowsTyped, ReportTyped, ControlTyped, AtWork, At,
         bookVars, procVars, Up
<1>5. sync' \in [pc : SyncSteps, value : Int]
  <2>1. CASE SyncBegin
    <3>1. LiveStart + Realised \in Int
      BY RowSums, StartAssumption
    <3> QED BY <2>1, <3>1 DEF SyncValue, SyncBegin, SyncSteps
  <2>2. CASE ~SyncBegin
    <3>1. NoSync \in [pc : SyncSteps, value : Int]
      BY DEF NoSync, SyncSteps
    <3>2. \A s \in SyncSteps :
            [sync EXCEPT !.pc = s] \in [pc : SyncSteps, value : Int]
      BY DEF BookTypeOK, LiveTyped
    <3>3. sync' = NoSync \/ \E s \in SyncSteps : sync' = [sync EXCEPT !.pc = s]
      BY <2>2 DEF SyncStep, SyncFails, SyncBank, SyncPeak, SyncSteps
    <3> QED BY <3>1, <3>2, <3>3
  <2> QED BY <2>1, <2>2
<1>6. liveBank' \in Int \cup {Unset} /\ livePeak' \in Nat \cup {Unset} /\ best' \in Nat
  BY Balances
  DEF SyncValue, Raised, BookTypeOK, LiveTyped, SyncStep, SyncFails, SyncBegin, SyncBank,
         SyncPeak, liveVars, Higher
<1>7. behind' \in BOOLEAN
  BY DEF BookTypeOK, LiveTyped, SyncStep, SyncFails, SyncBegin, SyncBank, SyncPeak,
         liveVars
<1> QED BY <1>4, <1>5, <1>6, <1>7 DEF BookTypeOK, LiveTyped

\* Every action of the reset script.
ScriptStep == ResetRows \/ ResetRollsBack \/ DeleteKey \/ ScriptFails

LEMMA BookTypeScript ==
  ASSUME BookTypeOK, ScriptStep
  PROVE  BookTypeOK'
<1>1. UNCHANGED <<work, livePeak, procVars, behind, stops, sync>>
  BY DEF ScriptStep, ResetRows, ResetRollsBack, DeleteKey, ScriptFails, bookVars,
         liveVars, histVars
<1>2. AtWork'
  BY <1>1 DEF BookTypeOK, AtWork, At, procVars, Up
<1>3. RowsTyped'
  BY <1>1 DEF BookTypeOK, RowsTyped, ScriptStep, ResetRows, ResetRollsBack, DeleteKey,
         ScriptFails, bookVars
<1>4. LiveTyped'
  <2>1. liveBank' \in Int \cup {Unset} /\ best' \in Nat
    BY DEF BookTypeOK, LiveTyped, ScriptStep, ResetRows, ResetRollsBack, DeleteKey,
           ScriptFails, liveVars
  <2> QED BY <1>1, <2>1 DEF BookTypeOK, LiveTyped
<1>5. ReportTyped'
  <2>1. NoReport \in [pc : {"idle", "second", "done"}, kind : Kinds, bank : Nat,
                      held : Nat, realised : Int, torn : BOOLEAN]
    BY DEF NoReport, Kinds
  <2>2. UNCHANGED report \/ Disturb
    BY DEF ScriptStep, ResetRows, ResetRollsBack, DeleteKey, ScriptFails
  <2> QED BY <2>1, <2>2 DEF BookTypeOK, ReportTyped, Disturb
<1>6. ControlTyped'
  <2>1. script' \in ScriptSteps /\ breaker' \in BOOLEAN
    BY DEF BookTypeOK, ControlTyped, ScriptStep, ResetRows, ResetRollsBack, DeleteKey,
           ScriptFails, ScriptSteps
  <2>2. hazard' \subseteq HazardKinds
    BY DEF BookTypeOK, ControlTyped, ScriptStep, ResetRows, ResetRollsBack, DeleteKey,
           ScriptFails, histVars, HazardKinds, Flag
  <2>3. faults' \in 0 .. MaxFaults /\ resets' \in 0 .. MaxResets
    BY BoundsAssumption DEF BookTypeOK, ControlTyped, ScriptStep, ResetRows,
           ResetRollsBack, DeleteKey, ScriptFails, histVars, Fault
  <2> QED BY <1>1, <2>1, <2>2, <2>3 DEF BookTypeOK, ControlTyped, procVars
<1> QED BY <1>2, <1>3, <1>4, <1>5, <1>6 DEF BookTypeOK

\* Every action of a reader.
ReadStep == (\E k \in Kinds : ReportBegin(k)) \/ ReportEnd \/ ReportFails

Reports == [pc : {"idle", "second", "done"}, kind : Kinds, bank : Nat, held : Nat,
            realised : Int, torn : BOOLEAN]

\* Whatever is read, or cannot be, goes into a report.
LEMMA ReadsTyped ==
  ASSUME BookTypeOK, ReadStep
  PROVE  ReportTyped'
<1>1. Held \in Nat /\ Realised \in Int /\ Cash \in Nat /\ SimStart \in Nat
  BY RowSums, Balances, StartAssumption
<1>2. ASSUME NEW r \in Reports
      PROVE  /\ ReadRows(r) \in Reports /\ ReadBalance(r) \in Reports
             /\ NoRows(r) \in Reports /\ NoBalance(r) \in Reports
  <2>1. ReadRows(r) \in Reports
    BY <1>1 DEF ReadRows, Reports
  <2>2. ReadBalance(r) \in Reports
    BY <1>1 DEF ReadBalance, Reports
  <2>3. NoRows(r) \in Reports
    <3>1. 0 \in Nat /\ 0 \in Int /\ TRUE \in BOOLEAN
      OBVIOUS
    <3> QED BY <3>1 DEF NoRows, Reports
  <2>4. NoBalance(r) \in Reports
    BY <1>1 DEF NoBalance, Reports
  <2> QED BY <2>1, <2>2, <2>3, <2>4
<1>3. ASSUME NEW k \in Kinds PROVE Fresh(k) \in Reports
  <2>1. (InCash \/ script # "idle") \in BOOLEAN
    BY DEF InCash
  <2>2. NoReport \in Reports
    BY DEF NoReport, Kinds, Reports
  <2> QED BY <2>1, <2>2 DEF Fresh, Reports
<1>4. [report EXCEPT !.pc = "done"] \in Reports
  BY DEF BookTypeOK, ReportTyped, Reports
<1>5. report' \in Reports
  <2>1. ASSUME NEW k \in Kinds, ReportBegin(k) PROVE report' \in Reports
    BY <1>2, <1>3, <2>1 DEF ReportBegin, First
  <2>2. CASE ReportEnd
    BY <1>2, <1>4, <2>2 DEF ReportEnd, Second
  <2>3. CASE ReportFails
    BY <1>2, <1>3, <1>4, <2>3 DEF ReportFails
  <2> QED BY <2>1, <2>2, <2>3 DEF ReadStep
<1> QED BY <1>5 DEF ReportTyped, Reports

LEMMA BookTypeRead ==
  ASSUME BookTypeOK, ReadStep
  PROVE  BookTypeOK'
<1>1. UNCHANGED <<bookVars, liveVars, procVars, sync, script, breaker, stops,
                  resets, hazard>>
  BY DEF ReadStep, ReportBegin, ReportEnd, ReportFails, histVars
<1>2. faults' \in 0 .. MaxFaults
  <2>1. UNCHANGED faults \/ Fault
    BY DEF ReadStep, ReportBegin, ReportEnd, ReportFails, histVars
  <2> QED BY <2>1, BoundsAssumption DEF BookTypeOK, ControlTyped, Fault
<1>3. RowsTyped' /\ LiveTyped' /\ ControlTyped' /\ AtWork'
  BY <1>1, <1>2 DEF BookTypeOK, RowsTyped, LiveTyped, ControlTyped, AtWork, At, bookVars,
         liveVars, procVars, Up
<1> QED BY <1>3, ReadsTyped DEF BookTypeOK

LEMMA BookTypeStep ==
  ASSUME BookTypeOK, [Next]_vars
  PROVE  BookTypeOK'
<1>1. CASE UNCHANGED vars
  BY <1>1 DEF BookTypeOK, RowsTyped, LiveTyped, ReportTyped, ControlTyped, AtWork, At, Up,
         vars, bookVars, liveVars, procVars, histVars
<1>2. CASE Next
  BY <1>2, BookTypeStart, BookTypeStop, BookTypePaper, BookTypeSync, BookTypeScript,
     BookTypeRead DEF Next, PaperStep, ScriptStep, ReadStep
<1> QED BY <1>1, <1>2

\* The types hold in every reachable state.
THEOREM BookTypeCorrect == Spec => []BookTypeOK
  BY BookTypeInit, BookTypeStep, PTL DEF Spec

-----------------------------------------------------------------------------
\* Steps, by what they leave alone

LEMMA StepKinds ==
  ASSUME Next
  PROVE  \/ (\E m \in {"sim", "live"} : Start(m)) \/ InitSim \/ InitLive \/ InitFails
         \/ Stop \/ SyncStep \/ SyncFails \/ ScriptStep \/ ReadStep
         \/ \E w \in Workers : PaperStep(w)
  BY DEF Next, PaperStep, ScriptStep, ReadStep

LEMMA HazardsStay ==
  ASSUME [Next]_vars
  PROVE  hazard \subseteq hazard'
<1>1. CASE UNCHANGED vars
  BY <1>1 DEF vars, histVars
<1>2. CASE Next
  BY <1>2, StepKinds DEF Start, InitSim, InitLive, InitFails, Stop, SyncStep, SyncBegin,
         SyncBank, SyncPeak, SyncFails, ScriptStep, ResetRows, ResetRollsBack, DeleteKey,
         ScriptFails, ReadStep, ReportBegin, ReportEnd, ReportFails, PaperStep, Open,
         Visit, KeepOpen, GetCash, SetCash, CashFails, Close, histVars
<1> QED BY <1>1, <1>2

LEMMA PaperFrame ==
  ASSUME NEW w \in Workers, PaperStep(w)
  PROVE  UNCHANGED <<liveVars, procVars, breaker, sync, script, stops, resets>>
  BY DEF PaperStep, Open, Visit, KeepOpen, GetCash, SetCash, CashFails, Close, histVars

LEMMA ReadFrame ==
  ASSUME ReadStep
  PROVE  UNCHANGED <<bookVars, liveVars, procVars, hazard, breaker, sync, script>>
  BY DEF ReadStep, ReportBegin, ReportEnd, ReportFails, histVars

LEMMA ScriptStepAlone ==
  ASSUME ScriptAlone, [Next]_vars
  PROVE  ScriptAlone'
<1>1. CASE UNCHANGED <<script, boot>>
  BY <1>1, HazardsStay DEF ScriptAlone
<1>2. CASE Next
  <2>1. CASE \E m \in {"sim", "live"} : Start(m)
    BY <2>1 DEF Start, ScriptAlone, Flag
  <2>2. CASE InitSim \/ InitLive \/ InitFails \/ Stop
    <3>1. boot # "off" /\ UNCHANGED script
      BY <2>2 DEF InitSim, InitLive, InitFails, Stop, BootSteps
    <3> QED BY <3>1, HazardsStay DEF ScriptAlone
  <2>3. CASE ScriptStep
    <3>1. CASE ResetRows \/ ResetRollsBack
      BY <3>1 DEF ResetRows, ResetRollsBack, ScriptAlone, Flag, procVars
    <3>2. CASE DeleteKey \/ ScriptFails
      <4>1. script # "idle" /\ UNCHANGED boot
        BY <3>2 DEF DeleteKey, ScriptFails, procVars
      <4> QED BY <4>1, HazardsStay DEF ScriptAlone
    <3> QED BY <2>3, <3>1, <3>2 DEF ScriptStep
  <2>4. CASE SyncStep \/ SyncFails
    BY <2>4, <1>1 DEF SyncStep, SyncBegin, SyncBank, SyncPeak, SyncFails, procVars
  <2>5. CASE ReadStep
    BY <2>5, <1>1, ReadFrame DEF procVars
  <2>6. ASSUME NEW w \in Workers, PaperStep(w) PROVE ScriptAlone'
    BY <2>6, <1>1, PaperFrame DEF procVars
  <2> QED BY <1>2, <2>1, <2>2, <2>3, <2>4, <2>5, <2>6, StepKinds
<1> QED BY <1>1, <1>2 DEF vars, procVars

-----------------------------------------------------------------------------
\* The live bankroll and its peak

LEMMA PeakFrame ==
  ASSUME PeakInv, UNCHANGED liveVars, boot' # "livePeak",
         boot # "livePeak",
         sync'.pc \in {"peak1", "peak2"} <=> sync.pc \in {"peak1", "peak2"},
         sync'.value = sync.value \/ sync'.pc \notin {"peak1", "peak2"}
  PROVE  PeakInv'
  BY DEF PeakInv, PeakCoversLive, AtPeak, Peak, liveVars

\* The cases where a writer is in the middle, or has been ended there.
LEMMA PeakQuiet ==
  ASSUME PeakInv, UNCHANGED <<liveBank, livePeak>>, boot' # "livePeak",
         sync'.pc \notin {"peak1", "peak2"}, behind'
  PROVE  PeakInv'
  BY DEF PeakInv, PeakCoversLive

LEMMA PeakInit == Init => PeakInv
  BY DEF Init, PeakInv, PeakCoversLive, NoSync

LEMMA PeakStart ==
  ASSUME BookTypeOK, PeakInv,
         (\E m \in {"sim", "live"} : Start(m)) \/ InitSim \/ InitLive \/ InitFails
  PROVE  PeakInv'
<1>1. UNCHANGED sync /\ sync.pc = "idle"
  BY DEF Start, InitSim, InitLive, InitFails, BookTypeOK, AtWork, Up, BootSteps
<1>2. CASE (\E m \in {"sim", "live"} : Start(m)) \/ InitSim
  BY <1>1, <1>2, PeakFrame DEF Start, InitSim
<1>3. CASE InitLive
  <2>1. CASE boot = "liveGet"
    BY <1>1, <1>3, <2>1, PeakFrame DEF InitLive
  <2>2. CASE boot = "liveBank"
    BY <1>1, <1>3, <2>2 DEF InitLive, PeakInv, PeakCoversLive, AtPeak
  <2>3. CASE boot = "livePeak"
    <3>1. liveBank' \in {Unset, LiveStart} /\ livePeak' = LiveStart /\ boot' = "up"
      BY <1>3, <2>3 DEF FirstPeak, InitLive, PeakInv
    <3>2. LiveStart # Unset
      BY UnsetAssumption, StartAssumption
    <3>3. Peak' = LiveStart
      BY <3>1, <3>2 DEF Peak
    <3> QED BY <1>1, <3>1, <3>3, StartAssumption DEF PeakInv, PeakCoversLive
  <2> QED BY <1>3, <2>1, <2>2, <2>3 DEF InitLive
<1>4. CASE InitFails
  <2>1. CASE boot = "livePeak"
    BY <1>1, <1>4, <2>1, PeakQuiet DEF InitFails
  <2>2. CASE boot # "livePeak"
    <3>1. UNCHANGED liveVars
      BY <1>4, <2>2 DEF InitFails, liveVars, BookTypeOK, LiveTyped
    <3> QED BY <1>1, <1>4, <2>2, <3>1, PeakFrame DEF InitFails
  <2> QED BY <2>1, <2>2
<1> QED BY <1>2, <1>3, <1>4

LEMMA PeakSync ==
  ASSUME BookTypeOK, PeakInv, SyncStep \/ SyncFails
  PROVE  PeakInv'
<1>1. Up("live") /\ UNCHANGED procVars
  BY DEF BookTypeOK, AtWork, SyncStep, SyncFails, SyncBegin, SyncBank, SyncPeak
<1>2. boot # "livePeak" /\ boot' # "livePeak"
  BY <1>1 DEF Up, procVars
<1>3. CASE SyncBegin
  BY <1>2, <1>3, PeakFrame DEF SyncBegin
<1>4. CASE SyncBank
  <2>1. sync'.pc \in {"peak1", "peak2"} /\ sync'.value = sync.value
    BY <1>4 DEF SyncBank, BookTypeOK, LiveTyped
  <2> QED BY <1>2, <1>4, <2>1 DEF SyncBank, PeakInv, PeakCoversLive, AtPeak
<1>5. CASE SyncPeak
  <2>1. sync'.pc \notin {"peak1", "peak2"}
    BY <1>5 DEF SyncPeak, BookTypeOK, LiveTyped, NoSync
  <2>2. liveBank' \in {Unset, sync.value} /\ sync.value \in Int /\ livePeak \in Nat \cup {Unset}
    BY <1>5 DEF SyncPeak, PeakInv, BookTypeOK, LiveTyped
  <2>3. Peak' >= sync.value
    BY <1>5, <2>2, UnsetAssumption DEF Raised, SyncPeak, Peak
  <2> QED BY <1>2, <2>1, <2>2, <2>3 DEF PeakInv, PeakCoversLive
<1>6. CASE SyncFails
  <2>1. sync'.pc \notin {"peak1", "peak2"}
    BY <1>6 DEF SyncFails, BookTypeOK, LiveTyped, NoSync
  <2>2. CASE sync.pc \in {"peak1", "peak2"}
    BY <1>2, <1>6, <2>1, <2>2, PeakQuiet DEF SyncFails
  <2>3. CASE sync.pc \notin {"peak1", "peak2"}
    <3>1. UNCHANGED liveVars
      BY <1>6, <2>3 DEF SyncFails, liveVars, BookTypeOK, LiveTyped
    <3> QED BY <1>2, <2>1, <2>3, <3>1, PeakFrame
  <2> QED BY <2>2, <2>3
<1> QED BY <1>3, <1>4, <1>5, <1>6 DEF SyncStep

LEMMA PeakStep ==
  ASSUME BookTypeOK, PeakInv, [Next]_vars
  PROVE  PeakInv'
<1>1. CASE UNCHANGED <<liveVars, boot, sync>>
  BY <1>1 DEF PeakInv, PeakCoversLive, AtPeak, Peak, liveVars
<1>2. CASE Stop
  <2>1. sync'.pc = "idle" /\ boot' = "off" /\ UNCHANGED <<liveBank, livePeak, best>>
    BY <1>2 DEF Stop, NoSync
  <2>2. CASE AtPeak
    BY <1>2, <2>1, <2>2, PeakQuiet DEF Stop, AtPeak
  <2>3. CASE ~AtPeak
    <3>1. behind' = behind
      BY <1>2, <2>3 DEF Stop, AtPeak, BookTypeOK, LiveTyped
    <3> QED BY <2>1, <2>3, <3>1 DEF PeakInv, PeakCoversLive, AtPeak, Peak
  <2> QED BY <2>2, <2>3
<1>3. CASE ScriptStep
  <2>1. sync'.pc = sync.pc /\ sync'.value = sync.value /\ UNCHANGED <<livePeak, behind, boot>>
    BY <1>3 DEF ScriptStep, ResetRows, ResetRollsBack, DeleteKey, ScriptFails, liveVars,
           procVars, BookTypeOK, LiveTyped
  <2>2. liveBank' \in {liveBank, Unset}
    BY <1>3 DEF ScriptStep, ResetRows, ResetRollsBack, DeleteKey, ScriptFails, liveVars
  <2> QED BY <2>1, <2>2 DEF PeakInv, PeakCoversLive, AtPeak, Peak
<1>4. ASSUME NEW w \in Workers, PaperStep(w) PROVE PeakInv'
  BY <1>4, <1>1, PaperFrame DEF procVars
<1>5. CASE ReadStep
  BY <1>5, <1>1, ReadFrame DEF procVars
<1>6. CASE UNCHANGED vars
  BY <1>6, <1>1 DEF vars, procVars
<1> QED BY <1>2, <1>3, <1>4, <1>5, <1>6, PeakStart, PeakSync, StepKinds

\* At rest the peak is no lower than the live bankroll.
THEOREM PeakAlwaysCovers == Spec => []PeakCoversLive
<1>1. Init => BookTypeOK /\ PeakInv
  BY BookTypeInit, PeakInit
<1>2. BookTypeOK /\ PeakInv /\ [Next]_vars => (BookTypeOK /\ PeakInv)'
  BY BookTypeStep, PeakStep
<1>3. PeakInv => PeakCoversLive
  BY DEF PeakInv
<1> QED BY <1>1, <1>2, <1>3, PTL DEF Spec

-----------------------------------------------------------------------------
\* The peak is a balance the bot has had

EarnedBody ==
    /\ boot \in {"livePeak", "up"} => liveBank # Unset
    /\ boot = "livePeak" => LiveStart <= best
    /\ liveBank # Unset /\ boot # "livePeak" => Peak <= best
    /\ sync.pc \in {"peak1", "peak2"} => sync.value <= best

LEMMA EarnedSplit ==
  EarnedInv <=> (hazard \cap {"initCut", "resetUnderBot"} = {} => EarnedBody)
  BY DEF EarnedInv, EarnedBody

LEMMA EarnedInit == Init => EarnedInv
  BY DEF Init, EarnedInv, NoSync

LEMMA EarnedStart ==
  ASSUME BookTypeOK, EarnedBody, "initCut" \notin hazard',
         (\E m \in {"sim", "live"} : Start(m)) \/ InitSim \/ InitLive \/ InitFails
  PROVE  EarnedBody'
<1>1. UNCHANGED sync /\ sync.pc = "idle"
  BY DEF Start, InitSim, InitLive, InitFails, BookTypeOK, AtWork, Up, BootSteps
<1>2. CASE (\E m \in {"sim", "live"} : Start(m)) \/ InitSim
  <2>1. boot \in {"off", "simGet", "simBank"} /\ boot' \in BootSteps /\ boot' # "livePeak"
    BY <1>2 DEF Start, InitSim, BootSteps
  <2>2. UNCHANGED <<liveBank, livePeak, best>>
    BY <1>2 DEF Start, InitSim, liveVars
  <2> QED BY <1>1, <2>1, <2>2 DEF EarnedBody, Peak, BootSteps
<1>3. CASE InitLive
  <2>1. CASE boot = "liveGet"
    BY <1>1, <1>3, <2>1 DEF InitLive, EarnedBody, Peak, liveVars
  <2>2. CASE boot = "liveBank"
    <3>1. boot' = "livePeak" /\ liveBank' = LiveStart /\ best' = Higher(best, LiveStart)
      BY <1>3, <2>2 DEF InitLive
    <3>2. LiveStart <= best' /\ LiveStart # Unset
      BY <3>1, StartAssumption, UnsetAssumption DEF Higher, BookTypeOK, LiveTyped
    <3> QED BY <1>1, <3>1, <3>2 DEF EarnedBody
  <2>3. CASE boot = "livePeak"
    <3>1. boot' = "up" /\ livePeak' = LiveStart /\ UNCHANGED <<liveBank, best>>
      BY <1>3, <2>3 DEF FirstPeak, InitLive
    <3>2. Peak' = LiveStart
      BY <3>1, StartAssumption, UnsetAssumption DEF Peak
    <3> QED BY <1>1, <2>3, <3>1, <3>2 DEF EarnedBody
  <2> QED BY <1>3, <2>1, <2>2, <2>3 DEF InitLive
<1>4. CASE InitFails
  <2>1. boot' = "liveGet" /\ boot \in {"simGet", "simBank"}
    BY <1>4 DEF InitFails, Flag
  <2>2. UNCHANGED <<liveBank, livePeak, best>>
    BY <1>4 DEF InitFails
  <2> QED BY <1>1, <2>1, <2>2 DEF EarnedBody, Peak
<1> QED BY <1>2, <1>3, <1>4

LEMMA EarnedSync ==
  ASSUME BookTypeOK, EarnedBody, SyncStep \/ SyncFails
  PROVE  EarnedBody'
<1>1. boot = "up" /\ boot' = "up"
  BY DEF BookTypeOK, AtWork, SyncStep, SyncFails, SyncBegin, SyncBank, SyncPeak, Up,
         procVars
<1>2. CASE SyncBegin
  BY <1>1, <1>2 DEF SyncBegin, EarnedBody, Peak, liveVars
<1>3. CASE SyncBank
  <2>1. sync'.value = sync.value /\ sync.value \in Int /\ best \in Nat
    BY <1>3 DEF SyncBank, BookTypeOK, LiveTyped
  <2>2. liveBank' = sync.value /\ best' = Higher(best, sync.value) /\ UNCHANGED livePeak
    BY <1>3 DEF SyncBank
  <2>3. best <= best' /\ sync.value <= best' /\ liveBank' # Unset
    BY <2>1, <2>2, UnsetAssumption DEF Higher
  <2>4. Peak' = Peak /\ Peak <= best /\ Peak \in Nat /\ best' \in Int
    BY <1>1, <2>1, <2>2, Balances DEF Peak, EarnedBody, Higher
  <2> QED BY <1>1, <2>1, <2>3, <2>4 DEF EarnedBody
<1>4. CASE SyncPeak
  <2>1. sync'.pc \notin {"peak1", "peak2"}
    BY <1>4 DEF SyncPeak, BookTypeOK, LiveTyped, NoSync
  <2>2. UNCHANGED <<liveBank, best>> /\ livePeak' \in {livePeak, sync.value}
        /\ sync.value <= best
    BY <1>4 DEF Raised, SyncPeak, EarnedBody
  <2>3. Peak' <= best
    <3>1. sync.value # Unset
      BY UnsetAssumption DEF BookTypeOK, LiveTyped
    <3> QED BY <1>1, <2>2, <3>1 DEF Peak, EarnedBody
  <2> QED BY <1>1, <2>1, <2>2, <2>3 DEF EarnedBody
<1>5. CASE SyncFails
  <2>1. sync'.pc \notin {"peak1", "peak2"}
    BY <1>5 DEF SyncFails, BookTypeOK, LiveTyped, NoSync
  <2> QED BY <1>1, <1>5, <2>1 DEF SyncFails, EarnedBody, Peak
<1> QED BY <1>2, <1>3, <1>4, <1>5 DEF SyncStep

LEMMA EarnedScript ==
  ASSUME BookTypeOK, EarnedBody, ScriptStep, script # "idle" => boot = "off"
  PROVE  EarnedBody'
<1>1. sync'.pc = sync.pc /\ sync'.value = sync.value /\ UNCHANGED <<livePeak, boot>>
  BY DEF ScriptStep, ResetRows, ResetRollsBack, DeleteKey, ScriptFails, liveVars,
         procVars, BookTypeOK, LiveTyped
<1>2. CASE UNCHANGED <<liveBank, best>>
  BY <1>1, <1>2 DEF EarnedBody, Peak
<1>3. CASE liveBank' = Unset /\ boot = "off"
  BY <1>1, <1>3 DEF EarnedBody, BookTypeOK, AtWork, Up
<1> QED BY <1>2, <1>3 DEF ScriptStep, ResetRows, ResetRollsBack, DeleteKey, ScriptFails,
                          liveVars

LEMMA EarnedStep ==
  ASSUME BookTypeOK, ScriptAlone, EarnedInv, [Next]_vars
  PROVE  EarnedInv'
<1> SUFFICES ASSUME (hazard \cap {"initCut", "resetUnderBot"} = {})'
             PROVE  EarnedBody'
  BY DEF EarnedInv, EarnedBody
<1>1. "initCut" \notin hazard' /\ "resetUnderBot" \notin hazard /\ EarnedBody
  BY HazardsStay, EarnedSplit
<1>2. CASE UNCHANGED <<liveVars, boot, sync>>
  BY <1>1, <1>2 DEF EarnedBody, Peak, liveVars
<1>3. CASE Stop
  <2>1. boot' = "off" /\ sync'.pc = "idle" /\ UNCHANGED <<liveBank, livePeak, best>>
    BY <1>3 DEF Stop, NoSync
  <2>2. boot # "livePeak"
    BY <1>1, <1>3 DEF Stop, Flag
  <2> QED BY <1>1, <2>1, <2>2 DEF EarnedBody, Peak
<1>4. CASE ScriptStep
  BY <1>1, <1>4, EarnedScript DEF ScriptAlone
<1>5. ASSUME NEW w \in Workers, PaperStep(w) PROVE EarnedBody'
  BY <1>2, <1>5, PaperFrame DEF procVars
<1>6. CASE ReadStep
  BY <1>2, <1>6, ReadFrame DEF procVars
<1>7. CASE UNCHANGED vars
  BY <1>2, <1>7 DEF vars, procVars
<1> QED BY <1>1, <1>3, <1>4, <1>5, <1>6, <1>7, EarnedStart, EarnedSync, StepKinds

\* The peak is a balance the bot has had since the last reset.
THEOREM PeakAlwaysEarned == Spec => []PeakEarned
<1>1. Init => BookTypeOK /\ ScriptAlone /\ EarnedInv
  BY BookTypeInit, EarnedInit DEF Init, ScriptAlone
<1>2. BookTypeOK /\ ScriptAlone /\ EarnedInv /\ [Next]_vars
        => (BookTypeOK /\ ScriptAlone /\ EarnedInv)'
  BY BookTypeStep, ScriptStepAlone, EarnedStep
<1>3. EarnedInv => PeakEarned
  BY DEF EarnedInv, PeakEarned, AtPeak
<1> QED BY <1>1, <1>2, <1>3, PTL DEF Spec

-----------------------------------------------------------------------------
\* What the rows account for

\* The money is the rows': what leaves them alone leaves it alone.
LEMMA RowsFrame ==
  ASSUME UNCHANGED row
  PROVE  UNCHANGED <<Held, Realised>> /\ \A s : Having(s)' = Having(s) /\ Paid' = Paid
<1>1. Paid' = Paid /\ \A s : Having(s)' = Having(s)
  BY DEF Paid, Having
<1>2. SumOf(Paid, Having("closed"))' = SumOf(Paid, Having("closed"))
  BY <1>1 DEF SumOf, Having, Paid
<1>3. SumOf(Size, Having("closed"))' = SumOf(Size, Having("closed"))
      /\ SumOf(Size, Having("open"))' = SumOf(Size, Having("open"))
  BY <1>1 DEF SumOf, Having
<1> QED BY <1>1, <1>2, <1>3 DEF Held, Realised

-----------------------------------------------------------------------------
\* The paper balance

\* Adding one member to a set, or taking it away, in terms of sums.
LEMMA SumWith ==
  ASSUME NEW S, IsFiniteSet(S), NEW f, NEW g, NEW y, y \notin S,
         \A x \in S \cup {y} : g[x] \in Nat, \A x \in S : f[x] = g[x]
  PROVE  SumOf(g, S \cup {y}) = SumOf(f, S) + g[y]
<1>1. SumOf(g, S \cup {y}) = SumOf(g, S) + g[y]
  BY SumAdd
<1>2. SumOf(f, S) = SumOf(g, S)
  BY SumSame
<1> QED BY <1>1, <1>2

LEMMA SumWithout ==
  ASSUME NEW S, IsFiniteSet(S), NEW f, NEW g, NEW y \in S,
         \A x \in S : f[x] \in Nat, \A x \in S \ {y} : f[x] = g[x]
  PROVE  SumOf(f, S) = SumOf(g, S \ {y}) + f[y]
<1>1. SumOf(f, S) = SumOf(f, S \ {y}) + f[y]
  BY SumDrop
<1>2. SumOf(f, S \ {y}) = SumOf(g, S \ {y})
  BY SumSame
<1> QED BY <1>1, <1>2

\* What the rows hold and what the workers owe are sums over finite sets.
LEMMA WorkSums ==
  ASSUME BookTypeOK
  PROVE  /\ Deducting \subseteq Workers /\ Restoring \subseteq Workers
         /\ IsFiniteSet(Deducting) /\ IsFiniteSet(Restoring)
         /\ Deducting \cap Restoring = {} /\ Updating \subseteq Deducting \cup Restoring
         /\ SumOf(Amount, Deducting) \in Nat /\ SumOf(Amount, Restoring) \in Nat
         /\ \A w \in Workers : Amount[w] = work[w].amount /\ Amount[w] \in Nat
         /\ \A x \in Positions : Size[x] \in Nat /\ Paid[x] \in Nat
<1>1. Deducting \subseteq Workers /\ Restoring \subseteq Workers
      /\ Deducting \cap Restoring = {} /\ Updating \subseteq Deducting \cup Restoring
  BY DEF Deducting, Restoring, Updating
<1>2. IsFiniteSet(Deducting) /\ IsFiniteSet(Restoring)
  BY <1>1, WorkersAssumption, FS_Subset
<1>3. \A w \in Workers : Amount[w] = work[w].amount /\ Amount[w] \in Nat
  BY DEF Amount, BookTypeOK, RowsTyped
<1>4. \A x \in Positions : Size[x] \in Nat /\ Paid[x] \in Nat
  BY PositionsAssumption DEF Paid, BookTypeOK, RowsTyped
<1>5. SumOf(Amount, Deducting) \in Nat /\ SumOf(Amount, Restoring) \in Nat
  BY <1>1, <1>2, <1>3, SumType
<1> QED BY <1>1, <1>2, <1>3, <1>4, <1>5

\* Who owes what, after the entry of one worker is replaced.
LEMMA WorkChange ==
  ASSUME BookTypeOK, NEW w \in Workers, NEW x, Put(w, x)
  PROVE  /\ Deducting' = IF x.step \in {"deductGet", "deductSet"} THEN Deducting \cup {w}
                                                                ELSE Deducting \ {w}
         /\ Restoring' = IF x.step \in {"restoreGet", "restoreSet"} THEN Restoring \cup {w}
                                                                  ELSE Restoring \ {w}
         /\ Updating'  = IF x.step \in {"deductSet", "restoreSet"} THEN Updating \cup {w}
                                                                 ELSE Updating \ {w}
         /\ \A v \in Workers \ {w} : work'[v] = work[v] /\ Amount'[v] = Amount[v]
         /\ work'[w] = x /\ Amount'[w] = x.amount
<1>1. \A v \in Workers : work'[v] = IF v = w THEN x ELSE work[v]
  BY DEF Put, BookTypeOK, RowsTyped
<1>2. \A v \in Workers : Amount'[v] = work'[v].amount /\ Amount[v] = work[v].amount
  BY DEF Amount
<1> QED BY <1>1, <1>2 DEF Deducting, Restoring, Updating

LEMMA PrimedSums ==
  ASSUME BookTypeOK
  PROVE  /\ Credit' = Cash' + SumOf(Size, Having("open")') + SumOf(Amount', Restoring')
                       + SumOf(Size, Having("closed")')
         /\ Debit' = SimStart + SumOf(Paid', Having("closed")') + SumOf(Amount', Deducting')
  BY DEF Credit, Debit, SumOf

Balanced == Credit = Debit

\* Only the sets, the amounts and the balance matter.
LEMMA BalancedFrame ==
  ASSUME BookTypeOK, Balanced, UNCHANGED row, Cash' = Cash,
         Deducting' = Deducting, Restoring' = Restoring,
         \A w \in Deducting \cup Restoring : Amount'[w] = Amount[w]
  PROVE  Balanced'
<1>1. SumOf(Amount', Restoring') = SumOf(Amount, Restoring)
  BY SumSame
<1>2. SumOf(Amount', Deducting') = SumOf(Amount, Deducting)
  BY SumSame
<1>3. Having("open")' = Having("open") /\ Having("closed")' = Having("closed") /\ Paid' = Paid
  BY RowsFrame
<1> QED BY <1>1, <1>2, <1>3, PrimedSums DEF Balanced, Credit, Debit

\* The worker-by-worker part survives where rows and balance stay and nobody
\* begins to close or to update.
LEMMA WorkFrame ==
  ASSUME BookTypeOK, WorkInv, UNCHANGED row, Cash' = Cash, NEW w \in Workers, NEW x,
         Put(w, x), x.step \notin {"deductSet", "restoreSet"},
         x.step = "close" => row[x.pos].status \in {"open", "closed"}
  PROVE  WorkInv'
<1>1. Updating' = Updating \ {w} /\ work'[w] = x
      /\ \A v \in Workers \ {w} : work'[v] = work[v]
  BY WorkChange
<1> QED BY <1>1 DEF WorkInv, At

LEMMA BalancedOpen ==
  ASSUME BookTypeOK, WorkInv, Balanced, NEW w \in Workers, NEW p \in Positions, Open(w, p)
  PROVE  Balanced' /\ WorkInv'
<1> DEFINE x == [Idle EXCEPT !.step = "deductGet", !.pos = p, !.amount = Size[p]]
<1>1. row' = [row EXCEPT ![p].status = "open"] /\ row[p].status = "none"
      /\ work[w].step = "idle" /\ Put(w, x) /\ UNCHANGED simBank
  BY DEF Open, At
<1>2. x.step = "deductGet" /\ x.amount = Size[p]
  BY DEF Idle
<1> HIDE DEF x
<1>3. \A y \in Positions : row'[y] = IF y = p THEN [row[p] EXCEPT !.status = "open"] ELSE row[y]
  BY <1>1 DEF BookTypeOK, RowsTyped
<1>4. Having("open")' = Having("open") \cup {p} /\ p \notin Having("open")
  BY <1>1, <1>3 DEF Having, BookTypeOK, RowsTyped
<1>5. Having("closed")' = Having("closed")
  BY <1>1, <1>3 DEF Having, BookTypeOK, RowsTyped
<1>6. \A y \in Having("closed") : Paid'[y] = Paid[y]
  BY <1>1, <1>3 DEF Having, Paid, BookTypeOK, RowsTyped
<1>7. w \notin Deducting /\ w \notin Restoring /\ w \notin Updating
  BY <1>1 DEF Deducting, Restoring, Updating
<1>8. Deducting' = Deducting \cup {w} /\ Restoring' = Restoring /\ Updating' = Updating
      /\ Amount'[w] = Size[p] /\ work'[w] = x
      /\ \A v \in Workers \ {w} : work'[v] = work[v] /\ Amount'[v] = Amount[v]
  <2>1. Deducting' = Deducting \cup {w} /\ Restoring' = Restoring \ {w}
        /\ Updating' = Updating \ {w}
    BY <1>1, <1>2, WorkChange
  <2>2. work'[w] = x /\ Amount'[w] = x.amount
        /\ \A v \in Workers \ {w} : work'[v] = work[v] /\ Amount'[v] = Amount[v]
    BY <1>1, WorkChange
  <2> QED BY <1>2, <1>7, <2>1, <2>2
<1>9. SumOf(Size, Having("open")') = SumOf(Size, Having("open")) + Size[p]
  <2>1. IsFiniteSet(Having("open")) /\ \A y \in Having("open") \cup {p} : Size[y] \in Nat
    BY HavingFinite, PositionsAssumption
  <2>2. SumOf(Size, Having("open") \cup {p}) = SumOf(Size, Having("open")) + Size[p]
    BY <1>4, <2>1, SumAdd
  <2> QED BY <1>4, <2>2
<1>10. SumOf(Amount', Deducting') = SumOf(Amount, Deducting) + Size[p]
  <2>1. \A v \in Deducting : Amount[v] = Amount'[v]
    BY <1>7, <1>8, WorkSums
  <2>2. \A v \in Deducting \cup {w} : Amount'[v] \in Nat
    BY <1>7, <1>8, WorkSums, PositionsAssumption
  <2>3. SumOf(Amount', Deducting \cup {w}) = SumOf(Amount, Deducting) + Amount'[w]
    <3>1. IsFiniteSet(Deducting)
      BY WorkSums
    <3> QED BY ONLY <1>7, <2>1, <2>2, <3>1, SumWith
  <2> QED BY <1>8, <2>3
<1>11. SumOf(Paid', Having("closed")') = SumOf(Paid, Having("closed"))
  BY <1>5, <1>6, SumSame
<1>12. SumOf(Amount', Restoring') = SumOf(Amount, Restoring)
  <2>1. \A v \in Restoring : Amount[v] = Amount'[v]
    BY <1>7, <1>8, WorkSums
  <2> QED BY <1>8, <2>1, SumSame
<1>13. Cash' = Cash
  BY <1>1 DEF Cash
<1>14. Balanced'
  BY <1>5, <1>9, <1>10, <1>11, <1>12, <1>13, PrimedSums, WorkSums, RowSums, Balances,
     StartAssumption DEF Balanced, Credit, Debit
<1>15. WorkInv'
  <2>1. \A v \in Workers : At(v, "close")' => row'[work'[v].pos].status \in {"open", "closed"}
    <3> SUFFICES ASSUME NEW v \in Workers, work'[v].step = "close"
                 PROVE  row'[work'[v].pos].status \in {"open", "closed"}
      BY DEF At
    <3>1. v # w /\ work'[v] = work[v]
      BY <1>2, <1>8
    <3>2. row[work[v].pos].status \in {"open", "closed"} /\ work[v].pos \in Positions
      BY <3>1 DEF WorkInv, At, BookTypeOK, AtWork, RowsTyped
    <3> QED BY <1>1, <1>3, <3>1, <3>2
  <2>2. \A v \in Updating' : work'[v].got = Cash'
    BY <1>7, <1>8, <1>13, WorkSums DEF WorkInv
  <2> QED BY <1>8, <2>1, <2>2 DEF WorkInv
<1> QED BY <1>14, <1>15

LEMMA BalancedClose ==
  ASSUME BookTypeOK, WorkInv, Balanced, NEW w \in Workers, NEW q \in Payouts, Close(w, q),
         "doubleClose" \notin hazard'
  PROVE  Balanced' /\ WorkInv'
<1> DEFINE p == work[w].pos
           x == [work[w] EXCEPT !.step = "restoreGet", !.amount = q]
<1>1. work[w].step = "close" /\ p \in Positions /\ Put(w, x) /\ UNCHANGED simBank
  BY DEF Close, At, BookTypeOK, AtWork, RowsTyped
<1>2. row[p].status = "open"
  BY <1>1 DEF Close, WorkInv, At, Flag
<1>3. x.step = "restoreGet" /\ x.amount = q
  BY DEF BookTypeOK, RowsTyped
<1>4. row' = [row EXCEPT ![p] = [status |-> "closed", paid |-> q]]
  BY <1>2 DEF Close, BookTypeOK, RowsTyped
<1> HIDE DEF x, p
<1>5. \A y \in Positions : row'[y] = IF y = p THEN [status |-> "closed", paid |-> q] ELSE row[y]
  BY <1>1, <1>4 DEF BookTypeOK, RowsTyped
<1>6. Having("open")' = Having("open") \ {p} /\ p \in Having("open")
  BY <1>1, <1>2, <1>5 DEF Having, BookTypeOK, RowsTyped
<1>7. Having("closed")' = Having("closed") \cup {p} /\ p \notin Having("closed")
  BY <1>1, <1>2, <1>5 DEF Having, BookTypeOK, RowsTyped
<1>8. Paid'[p] = q /\ \A y \in Positions \ {p} : Paid'[y] = Paid[y]
  BY <1>1, <1>5 DEF Paid, BookTypeOK, RowsTyped
<1>9. w \notin Deducting /\ w \notin Restoring /\ w \notin Updating
  BY <1>1 DEF Deducting, Restoring, Updating
<1>10. Deducting' = Deducting /\ Restoring' = Restoring \cup {w} /\ Updating' = Updating
       /\ Amount'[w] = q /\ work'[w] = x
       /\ \A v \in Workers \ {w} : work'[v] = work[v] /\ Amount'[v] = Amount[v]
  BY <1>1, <1>3, <1>9, WorkChange
<1>11. q \in Nat
  BY PayoutsAssumption
<1>12. SumOf(Size, Having("open")) = SumOf(Size, Having("open")') + Size[p]
  <2>1. IsFiniteSet(Having("open")) /\ \A y \in Having("open") : Size[y] \in Nat
    BY HavingFinite, PositionsAssumption
  <2>2. SumOf(Size, Having("open")) = SumOf(Size, Having("open") \ {p}) + Size[p]
    BY <1>6, <2>1, SumDrop
  <2> QED BY <1>6, <2>2
<1>13. SumOf(Size, Having("closed")') = SumOf(Size, Having("closed")) + Size[p]
  <2>1. IsFiniteSet(Having("closed")) /\ \A y \in Having("closed") \cup {p} : Size[y] \in Nat
    BY <1>1, HavingFinite, PositionsAssumption
  <2>2. SumOf(Size, Having("closed") \cup {p}) = SumOf(Size, Having("closed")) + Size[p]
    BY <1>7, <2>1, SumAdd
  <2> QED BY <1>7, <2>2
<1>14. SumOf(Paid', Having("closed")') = SumOf(Paid, Having("closed")) + q
  <2>1. \A y \in Having("closed") : Paid[y] = Paid'[y]
    BY <1>7, <1>8, HavingFinite
  <2>2. \A y \in Having("closed") \cup {p} : Paid'[y] \in Nat
    BY <1>8, <1>11, <2>1, HavingFinite, WorkSums
  <2>3. SumOf(Paid', Having("closed") \cup {p}) = SumOf(Paid, Having("closed")) + Paid'[p]
    <3>1. IsFiniteSet(Having("closed"))
      BY HavingFinite
    <3> QED BY ONLY <1>7, <2>1, <2>2, <3>1, SumWith
  <2> QED BY <1>7, <1>8, <2>3
<1>15. SumOf(Amount', Restoring') = SumOf(Amount, Restoring) + q
  <2>1. \A v \in Restoring : Amount[v] = Amount'[v]
    BY <1>9, <1>10, WorkSums
  <2>2. \A v \in Restoring \cup {w} : Amount'[v] \in Nat
    BY <1>9, <1>10, <1>11, WorkSums
  <2>3. SumOf(Amount', Restoring \cup {w}) = SumOf(Amount, Restoring) + Amount'[w]
    <3>1. IsFiniteSet(Restoring)
      BY WorkSums
    <3> QED BY ONLY <1>9, <2>1, <2>2, <3>1, SumWith
  <2> QED BY <1>10, <2>3
<1>16. SumOf(Amount', Deducting') = SumOf(Amount, Deducting)
  <2>1. \A v \in Deducting : Amount[v] = Amount'[v]
    BY <1>9, <1>10, WorkSums
  <2> QED BY <1>10, <2>1, SumSame
<1>17. Cash' = Cash
  BY <1>1 DEF Cash
<1>18. SumOf(Size, Having("open")') \in Nat /\ Size[p] \in Nat
  BY <1>1, <1>6, HavingFinite, WorkSums, SumType, FS_Subset
<1>19. Balanced'
  BY <1>11, <1>12, <1>13, <1>14, <1>15, <1>16, <1>17, <1>18, PrimedSums, WorkSums, RowSums,
     Balances, StartAssumption DEF Balanced, Credit, Debit
<1>20. WorkInv'
  <2>1. \A v \in Workers : At(v, "close")' => row'[work'[v].pos].status \in {"open", "closed"}
    <3> SUFFICES ASSUME NEW v \in Workers, work'[v].step = "close"
                 PROVE  row'[work'[v].pos].status \in {"open", "closed"}
      BY DEF At
    <3>1. v # w /\ work'[v] = work[v]
      BY <1>3, <1>10
    <3>2. row[work[v].pos].status \in {"open", "closed"} /\ work[v].pos \in Positions
      BY <3>1 DEF WorkInv, At, BookTypeOK, AtWork, RowsTyped
    <3> QED BY <1>5, <3>1, <3>2
  <2>2. \A v \in Updating' : work'[v].got = Cash'
    BY <1>9, <1>10, <1>17, WorkSums DEF WorkInv
  <2> QED BY <1>10, <2>1, <2>2 DEF WorkInv
<1> QED BY <1>19, <1>20

\* Reading the balance to update it: nobody else may have done so already.
LEMMA BalancedGet ==
  ASSUME BookTypeOK, WorkInv, Balanced, NEW w \in Workers, GetCash(w),
         "lostUpdate" \notin hazard'
  PROVE  Balanced' /\ WorkInv'
<1> DEFINE x == HasRead(w, Cash)
<1>1. Put(w, x) /\ UNCHANGED <<row, simBank>> /\ w \in Deducting \cup Restoring
      /\ w \notin Updating /\ Updating = {}
  BY DEF GetCash, Flag
<1>2. x.amount = work[w].amount /\ x.got = Cash
      /\ x.step = IF w \in Deducting THEN "deductSet" ELSE "restoreSet"
  BY DEF HasRead, BookTypeOK, RowsTyped
<1> HIDE DEF x
<1>3. Cash' = Cash
  BY <1>1 DEF Cash
<1>4. /\ Deducting' = Deducting /\ Restoring' = Restoring /\ Updating' = {w}
      /\ work'[w] = x
      /\ \A v \in Workers \ {w} : work'[v] = work[v]
      /\ \A v \in Workers : Amount'[v] = Amount[v]
  <2>1. Deducting \cap Restoring = {} /\ Amount[w] = work[w].amount
    BY WorkSums
  <2>2. Updating' = Updating \cup {w} /\ work'[w] = x /\ Amount'[w] = x.amount
        /\ \A v \in Workers \ {w} : work'[v] = work[v] /\ Amount'[v] = Amount[v]
    BY <1>1, <1>2, WorkChange
  <2>3. Deducting' = Deducting /\ Restoring' = Restoring
    <3>1. /\ Deducting' = IF x.step \in {"deductGet", "deductSet"}
                          THEN Deducting \cup {w} ELSE Deducting \ {w}
          /\ Restoring' = IF x.step \in {"restoreGet", "restoreSet"}
                          THEN Restoring \cup {w} ELSE Restoring \ {w}
      BY <1>1, WorkChange
    <3>2. CASE w \in Deducting
      BY <1>2, <2>1, <3>1, <3>2
    <3>3. CASE w \in Restoring
      BY <1>2, <2>1, <3>1, <3>3
    <3> QED BY <1>1, <3>2, <3>3
  <2> QED BY <1>1, <1>2, <2>1, <2>2, <2>3
<1>5. Balanced'
  BY <1>1, <1>3, <1>4, BalancedFrame, WorkSums
<1>6. WorkInv'
  <2>1. x.step # "close"
    BY <1>2
  <2> QED BY <1>1, <1>2, <1>3, <1>4, <2>1 DEF WorkInv, At
<1> QED BY <1>5, <1>6

LEMMA BalancedCash ==
  ASSUME BookTypeOK, WorkInv, Balanced, NEW w \in Workers, SetCash(w),
         "shortfall" \notin hazard'
  PROVE  Balanced' /\ WorkInv'
<1>1. Put(w, Idle) /\ UNCHANGED row /\ simBank' = NewBalance(w) /\ w \in Updating
      /\ work[w].got = Cash
  BY DEF SetCash, WorkInv
<1>2. Having("open")' = Having("open") /\ Having("closed")' = Having("closed") /\ Paid' = Paid
  BY <1>1, RowsFrame
<1>3. Deducting' = Deducting \ {w} /\ Restoring' = Restoring \ {w} /\ Updating' = Updating \ {w}
      /\ work'[w] = Idle
      /\ \A v \in Workers \ {w} : work'[v] = work[v] /\ Amount'[v] = Amount[v]
  BY <1>1, WorkChange DEF Idle
<1>4. NewBalance(w) \in Nat
  BY NewBalanceNat
<1>5. Cash' = NewBalance(w)
  BY <1>1, <1>4, UnsetAssumption DEF Cash
<1>6. Amount[w] = work[w].amount /\ Amount[w] \in Nat /\ Cash \in Nat
  BY WorkSums, Balances
<1>7. ASSUME NEW S, IsFiniteSet(S), S \subseteq Workers, w \in S
      PROVE  SumOf(Amount, S) = SumOf(Amount', S \ {w}) + Amount[w]
             /\ SumOf(Amount', S \ {w}) \in Nat
  <2>1. \A v \in S : Amount[v] \in Nat
    BY <1>7, WorkSums
  <2>2. \A v \in S \ {w} : Amount[v] = Amount'[v]
    BY <1>3, <1>7
  <2>3. SumOf(Amount, S) = SumOf(Amount', S \ {w}) + Amount[w]
    BY <1>7, <2>1, <2>2, SumWithout
  <2>4. IsFiniteSet(S \ {w}) /\ \A v \in S \ {w} : Amount'[v] \in Nat
    BY <1>7, <2>1, <2>2, FS_Subset
  <2> QED BY <2>3, <2>4, SumType
<1>8. ASSUME NEW S, S \subseteq Workers, w \notin S
      PROVE  S \ {w} = S /\ SumOf(Amount', S) = SumOf(Amount, S)
  <2>1. S \ {w} = S
    BY <1>8
  <2>2. \A v \in S : Amount[v] = Amount'[v]
    BY <1>3, <1>8
  <2> QED BY <2>1, <2>2, SumSame
<1>9. ASSUME w \in Deducting PROVE Balanced'
  <2>1. w \notin Restoring
    BY <1>9, WorkSums
  <2>2. Cash' = Cash - Amount[w]
    BY <1>1, <1>5, <1>6, <1>9 DEF SetCash, Flag, NewBalance, Higher
  <2>3. SumOf(Amount, Deducting) = SumOf(Amount', Deducting') + Amount[w]
        /\ SumOf(Amount', Deducting') \in Nat
    BY <1>3, <1>7, <1>9, WorkSums
  <2>4. SumOf(Amount', Restoring') = SumOf(Amount, Restoring)
    BY <1>3, <1>8, <2>1, WorkSums
  <2> QED BY <1>2, <1>6, <2>2, <2>3, <2>4, PrimedSums, WorkSums, RowSums, StartAssumption
          DEF Balanced, Credit, Debit
<1>10. ASSUME w \in Restoring PROVE Balanced'
  <2>1. w \notin Deducting
    BY <1>10, WorkSums
  <2>2. Cash' = Cash + Amount[w]
    BY <1>1, <1>5, <1>6, <2>1 DEF NewBalance
  <2>3. SumOf(Amount, Restoring) = SumOf(Amount', Restoring') + Amount[w]
        /\ SumOf(Amount', Restoring') \in Nat
    BY <1>3, <1>7, <1>10, WorkSums
  <2>4. SumOf(Amount', Deducting') = SumOf(Amount, Deducting)
    BY <1>3, <1>8, <2>1, WorkSums
  <2> QED BY <1>2, <1>6, <2>2, <2>3, <2>4, PrimedSums, WorkSums, RowSums, StartAssumption
          DEF Balanced, Credit, Debit
<1>11. Balanced'
  BY <1>1, <1>9, <1>10, WorkSums
<1>12. WorkInv'
  <2>1. Updating' = {}
    BY <1>1, <1>3 DEF WorkInv
  <2> QED BY <1>1, <1>3, <2>1 DEF WorkInv, At, Idle
<1> QED BY <1>11, <1>12

\* With nobody at work there is nothing owed, and the balance is that of the rows.
LEMMA NobodyAtWork ==
  ASSUME BookTypeOK, ~Up("sim")
  PROVE  Deducting = {} /\ Restoring = {} /\ Updating = {} /\ ~InCash
         /\ \A w \in Workers : work[w].step = "idle"
  BY DEF BookTypeOK, AtWork, At, Deducting, Restoring, Updating, InCash

\* Workers that are all idle keep the worker-by-worker part.
LEMMA IdleWork ==
  ASSUME \A w \in Workers : work[w].step = "idle"
  PROVE  WorkInv
  BY DEF WorkInv, At, Updating

\* What the invariant says where no hazard has occurred.
BalanceBody == /\ WorkInv
               /\ script = "simBank" => Having("open") = {} /\ Having("closed") = {}
               /\ script # "simBank" => Balanced

LEMMA BalanceInit == Init => BalanceInv
<1> SUFFICES ASSUME Init PROVE BalanceInv
  OBVIOUS
<1>1. Having("open") = {} /\ Having("closed") = {} /\ Deducting = {} /\ Restoring = {}
  BY DEF Init, Having, Deducting, Restoring, Idle
<1>2. SumOf(Size, {}) = 0 /\ SumOf(Paid, {}) = 0 /\ SumOf(Amount, {}) = 0
  BY SumEmpty
<1>3. Cash = SimStart
  BY DEF Init, Cash
<1>4. Credit = Debit
  BY <1>1, <1>2, <1>3, StartAssumption DEF Credit, Debit
<1>5. WorkInv /\ script # "simBank" /\ boot # "simBank"
  BY IdleWork DEF Init, Idle
<1> QED BY <1>4, <1>5 DEF BalanceInv

\* Before the balance is first written, it is not there.
LEMMA BalanceUnset ==
  ASSUME BookTypeOK, BalanceInv, [Next]_vars
  PROVE  (boot = "simBank" => simBank = Unset)'
<1>1. CASE UNCHANGED <<simBank, boot>>
  BY <1>1 DEF BalanceInv
<1>2. CASE boot' # "simBank" \/ simBank' = Unset
  BY <1>2
<1>3. CASE (\E m \in {"sim", "live"} : Start(m)) \/ InitSim \/ InitLive \/ InitFails \/ Stop
  BY <1>2, <1>3 DEF Start, InitSim, InitLive, InitFails, Stop
<1>4. ASSUME NEW w \in Workers, PaperStep(w) PROVE boot' = "up"
  BY <1>4, PaperAtWork, PaperFrame DEF procVars
<1>5. CASE ScriptStep
  BY <1>1, <1>2, <1>5 DEF ScriptStep, ResetRows, ResetRollsBack, DeleteKey, ScriptFails,
         bookVars, procVars
<1>6. CASE SyncStep \/ SyncFails
  BY <1>1, <1>6 DEF SyncStep, SyncFails, SyncBegin, SyncBank, SyncPeak, bookVars, procVars
<1>7. CASE ReadStep
  BY <1>1, <1>7, ReadFrame DEF bookVars, procVars
<1>8. CASE UNCHANGED vars
  BY <1>1, <1>8 DEF vars, bookVars, procVars
<1> QED BY <1>2, <1>3, <1>4, <1>5, <1>6, <1>7, <1>8, StepKinds

\* Starts, stops and the sync: rows and balance stay, and so does what is owed,
\* unless it is lost, which is a hazard.
LEMMA BalanceProcess ==
  ASSUME BookTypeOK, BalanceInv, BalanceBody, "cashCut" \notin hazard',
         \/ \E m \in {"sim", "live"} : Start(m)
         \/ InitSim \/ InitLive \/ InitFails \/ Stop \/ SyncStep \/ SyncFails \/ ReadStep
         \/ UNCHANGED vars
  PROVE  BalanceBody'
<1>1. UNCHANGED <<row, script>>
  BY ReadFrame DEF Start, InitSim, InitLive, InitFails, Stop, SyncStep, SyncFails,
     SyncBegin, SyncBank, SyncPeak, bookVars, vars
<1>2. Cash' = Cash
  <2>1. CASE UNCHANGED simBank
    BY <2>1 DEF Cash
  <2>2. CASE simBank = Unset /\ simBank' = SimStart
    BY <2>2, StartAssumption, UnsetAssumption DEF Cash
  <2> QED BY <2>1, <2>2, ReadFrame DEF BalanceInv, Start, InitSim, InitLive, InitFails,
          Stop, SyncStep, SyncFails, SyncBegin, SyncBank, SyncPeak, bookVars, vars
<1>3. Deducting' = Deducting /\ Restoring' = Restoring /\ WorkInv'
      /\ \A w \in Deducting \cup Restoring : Amount'[w] = Amount[w]
  <2>1. CASE UNCHANGED work
    <3>1. Deducting' = Deducting /\ Restoring' = Restoring /\ Updating' = Updating
          /\ Amount' = Amount
      BY <2>1 DEF Deducting, Restoring, Updating, Amount
    <3> QED BY <1>1, <1>2, <2>1, <3>1 DEF WorkInv, At, BalanceBody
  <2>2. CASE Stop
    <3>1. ~InCash /\ work' = [w \in Workers |-> Idle]
      BY <2>2 DEF Stop, Flag
    <3>2. Deducting = {} /\ Restoring = {} /\ Deducting' = {} /\ Restoring' = {}
          /\ Updating' = {}
      BY <3>1 DEF InCash, Deducting, Restoring, Updating, Idle
    <3> QED BY <3>1, <3>2 DEF WorkInv, At, Idle
  <2> QED BY <2>1, <2>2, ReadFrame DEF Start, InitSim, InitLive, InitFails, SyncStep,
          SyncFails, SyncBegin, SyncBank, SyncPeak, bookVars, vars
<1>4. CASE script = "simBank"
  BY <1>1, <1>3, <1>4, RowsFrame DEF BalanceBody
<1>5. CASE script # "simBank"
  BY <1>1, <1>2, <1>3, <1>5, BalancedFrame DEF BalanceBody
<1> QED BY <1>4, <1>5

LEMMA BalancePaper ==
  ASSUME BookTypeOK, BalanceBody, NEW w \in Workers, PaperStep(w), script # "simBank",
         hazard' \cap PaperHazards = {}
  PROVE  BalanceBody'
<1>1. UNCHANGED script /\ Balanced /\ WorkInv
  BY PaperFrame DEF BalanceBody
<1> SUFFICES Balanced' /\ WorkInv'
  BY <1>1 DEF BalanceBody
<1>2. ~CashFails(w)
  BY DEF CashFails, PaperHazards
<1>3. "shortfall" \notin hazard' /\ "lostUpdate" \notin hazard' /\ "doubleClose" \notin hazard'
  BY DEF PaperHazards
<1>4. ASSUME NEW x, x.step \in {"idle", "close"}, Put(w, x), UNCHANGED <<row, simBank>>,
             work[w].step \in {"idle", "close"},
             x.step = "close" => row[x.pos].status = "open"
      PROVE  Balanced' /\ WorkInv'
  <2>1. Cash' = Cash
    BY <1>4 DEF Cash
  <2>2. w \notin Deducting /\ w \notin Restoring
    BY <1>4 DEF Deducting, Restoring
  <2>3. Deducting' = Deducting /\ Restoring' = Restoring
        /\ \A v \in Workers \ {w} : Amount'[v] = Amount[v]
    BY <1>4, <2>2, WorkChange
  <2>4. \A v \in Deducting \cup Restoring : Amount'[v] = Amount[v]
    BY <2>2, <2>3, WorkSums
  <2> QED BY <1>1, <1>4, <2>1, <2>3, <2>4, BalancedFrame, WorkFrame
<1>5. ASSUME NEW p \in Positions, Visit(w, p) PROVE Balanced' /\ WorkInv'
  <2> DEFINE x == [Idle EXCEPT !.step = "close", !.pos = p]
  <2>1. Put(w, x) /\ UNCHANGED <<row, simBank>> /\ row[p].status = "open"
        /\ work[w].step = "idle"
    BY <1>5 DEF Visit, At
  <2>2. x.step = "close" /\ x.pos = p
    BY DEF Idle
  <2> HIDE DEF x
  <2> QED BY <1>4, <2>1, <2>2
<1>6. CASE KeepOpen(w)
  <2>1. Put(w, Idle) /\ UNCHANGED <<row, simBank>> /\ work[w].step = "close"
    BY <1>6 DEF KeepOpen, At
  <2> QED BY <1>4, <2>1 DEF Idle
<1> QED BY <1>1, <1>2, <1>3, <1>5, <1>6, BalancedOpen, BalancedClose, BalancedGet,
        BalancedCash DEF PaperStep

LEMMA BalanceScript ==
  ASSUME BookTypeOK, BalanceBody, ScriptStep, boot = "off", "halfReset" \notin hazard'
  PROVE  BalanceBody'
<1>1. UNCHANGED <<work, boot, mode>> /\ ~Up("sim")
  BY DEF ScriptStep, ResetRows, ResetRollsBack, DeleteKey, ScriptFails, bookVars,
         procVars, Up
<1>2. Deducting = {} /\ Restoring = {} /\ Deducting' = {} /\ Restoring' = {}
      /\ \A w \in Workers : work'[w].step = "idle"
  BY <1>1, NobodyAtWork DEF Deducting, Restoring
<1>3. WorkInv'
  BY <1>2 DEF WorkInv, At, Updating
<1>4. CASE ResetRows
  <2>1. Having("open")' = {} /\ Having("closed")' = {} /\ script' = "simBank"
    BY <1>4 DEF ResetRows, Having
  <2> QED BY <1>3, <2>1 DEF BalanceBody
<1>5. CASE DeleteKey /\ script = "simBank"
  <2>1. simBank' = Unset /\ UNCHANGED row /\ script' = "breaker"
    BY <1>5 DEF DeleteKey
  <2>2. Having("open")' = {} /\ Having("closed")' = {}
    BY <1>5, <2>1, RowsFrame DEF BalanceBody
  <2>3. Cash' = SimStart
    BY <2>1 DEF Cash
  <2>4. SumOf(Size, {}) = 0 /\ SumOf(Paid', {}) = 0 /\ SumOf(Amount', {}) = 0
    BY SumEmpty
  <2>5. Balanced'
    BY <1>2, <2>2, <2>3, <2>4, PrimedSums, StartAssumption DEF Balanced
  <2> QED BY <1>3, <2>1, <2>5 DEF BalanceBody
<1>6. CASE DeleteKey /\ script # "simBank"
  <2>1. UNCHANGED <<row, simBank>> /\ script' # "simBank"
    BY <1>6 DEF DeleteKey
  <2>2. Cash' = Cash
    BY <2>1 DEF Cash
  <2>3. \A w \in Deducting \cup Restoring : Amount'[w] = Amount[w]
    BY <1>2
  <2> QED BY <1>2, <1>3, <1>6, <2>1, <2>2, <2>3, BalancedFrame DEF BalanceBody
<1> QED BY <1>4, <1>5, <1>6 DEF ScriptStep, ResetRollsBack, ScriptFails

LEMMA BalanceStep ==
  ASSUME BookTypeOK, ScriptAlone, BalanceInv, [Next]_vars
  PROVE  BalanceInv'
<1> SUFFICES ASSUME (hazard \cap PaperHazards = {})'
             PROVE  BalanceBody'
  BY BalanceUnset DEF BalanceInv, BalanceBody, Balanced
<1>1. hazard' \cap PaperHazards = {} /\ hazard \cap PaperHazards = {}
  BY HazardsStay DEF PaperHazards
<1>2. BalanceBody
  BY <1>1 DEF BalanceInv, BalanceBody, Balanced
<1>3. script # "idle" => boot = "off"
  BY <1>1 DEF ScriptAlone, PaperHazards
<1>4. "cashCut" \notin hazard' /\ "halfReset" \notin hazard' /\ "resetUnderBot" \notin hazard'
  BY <1>1 DEF PaperHazards
<1>5. ASSUME NEW w \in Workers, PaperStep(w) PROVE BalanceBody'
  <2>1. boot = "up"
    BY <1>5, PaperAtWork
  <2> QED BY <1>1, <1>2, <1>3, <1>5, <2>1, BalancePaper
<1>6. CASE ScriptStep
  <2>1. boot = "off"
    BY <1>3, <1>4, <1>6 DEF ScriptStep, ResetRows, ResetRollsBack, DeleteKey, ScriptFails,
           Flag
  <2> QED BY <1>2, <1>4, <1>6, <2>1, BalanceScript
<1> QED BY <1>2, <1>4, <1>5, <1>6, BalanceProcess, StepKinds

LEMMA BalanceAtRest ==
  ASSUME BookTypeOK, BalanceInv
  PROVE  PaperBalance
<1> SUFFICES ASSUME ~InCash, script = "idle", hazard \cap PaperHazards = {}
             PROVE  Cash + Held = SimStart + Realised
  BY DEF PaperBalance
<1>1. Credit = Debit /\ Deducting = {} /\ Restoring = {}
  BY DEF BalanceInv, InCash
<1>2. SumOf(Amount, {}) = 0
  BY SumEmpty
<1> QED BY <1>1, <1>2, RowSums, Balances, StartAssumption DEF Credit, Debit, Held, Realised

\* The paper balance is the one the rows account for, for any number of
\* positions and workers, unless one of the hazards it names has occurred.
THEOREM BalanceOfRows == Spec => []PaperBalance
<1>1. Init => BookTypeOK /\ ScriptAlone /\ BalanceInv
  BY BookTypeInit, BalanceInit DEF Init, ScriptAlone
<1>2. BookTypeOK /\ ScriptAlone /\ BalanceInv /\ [Next]_vars
        => (BookTypeOK /\ ScriptAlone /\ BalanceInv)'
  BY BookTypeStep, ScriptStepAlone, BalanceStep
<1> QED BY <1>1, <1>2, BalanceAtRest, PTL DEF Spec

-----------------------------------------------------------------------------
\* Reports

ReadBody == /\ ~InCash /\ script = "idle"
            /\ report.kind = "metrics" => report.held = Held /\ report.realised = Realised
            /\ report.kind = "status"  => report.bank = Cash
Halfway == report.pc = "second" /\ ~report.torn /\ hazard \cap PaperHazards = {}

LEMMA ReadSplit == ReadInv <=> (Halfway => ReadBody)
  BY DEF ReadInv, Halfway, ReadBody

\* A reader halfway that nothing has torn has not been touched by the step.
LEMMA NotDisturbed ==
  ASSUME BookTypeOK, Disturb, Halfway'
  PROVE  FALSE
  BY DEF Disturb, Halfway, BookTypeOK, ReportTyped, NoReport

LEMMA WasHalfway ==
  ASSUME [Next]_vars, UNCHANGED report, Halfway'
  PROVE  Halfway
  BY HazardsStay DEF Halfway

\* The rows, the balance and the workers a reader goes by stay as they are.
LEMMA ReadKept ==
  ASSUME ReadBody, UNCHANGED <<row, script>>, Cash' = Cash, ~InCash', UNCHANGED report
  PROVE  ReadBody'
<1>1. Held' = Held /\ Realised' = Realised
  BY RowsFrame
<1> QED BY <1>1 DEF ReadBody

LEMMA ReadBegins ==
  ASSUME BookTypeOK, NEW k \in Kinds, ReportBegin(k), Halfway'
  PROVE  ReadBody'
<1>1. UNCHANGED <<row, work, simBank, script>>
  BY DEF ReportBegin, bookVars
<1>2. Held' = Held /\ Realised' = Realised
  BY <1>1, RowsFrame
<1>3. Cash' = Cash /\ InCash' = InCash
  BY <1>1 DEF Cash, InCash, Deducting, Restoring
<1>4. Fresh(k).kind = k /\ Fresh(k).torn = (InCash \/ script # "idle")
  BY DEF Fresh, NoReport
<1>5. report' = IF k = "status" THEN [Fresh(k) EXCEPT !.bank = Cash]
                ELSE [Fresh(k) EXCEPT !.held = Held, !.realised = Realised]
  BY <1>4 DEF ReportBegin, First, ReadRows, ReadBalance
<1>6. report'.kind = k /\ report'.torn = (InCash \/ script # "idle")
      /\ (k = "status" => report'.bank = Cash)
      /\ (k # "status" => report'.held = Held /\ report'.realised = Realised)
  BY <1>4, <1>5 DEF Fresh, NoReport
<1>7. ~InCash /\ script = "idle"
  BY <1>6 DEF Halfway
<1> QED BY <1>1, <1>2, <1>3, <1>6, <1>7 DEF ReadBody

\* Starts and stops, and the sync job.
LEMMA ReadProcess ==
  ASSUME BookTypeOK, BalanceInv, Halfway => ReadBody, Halfway', [Next]_vars,
         \/ \E m \in {"sim", "live"} : Start(m)
         \/ InitSim \/ InitLive \/ InitFails \/ Stop \/ SyncStep \/ SyncFails
  PROVE  ReadBody'
<1>1. UNCHANGED <<row, script>>
  BY DEF Start, InitSim, InitLive, InitFails, Stop, SyncStep, SyncFails, SyncBegin,
         SyncBank, SyncPeak, bookVars
<1>2. Cash' = Cash
  <2>1. CASE UNCHANGED simBank
    BY <2>1 DEF Cash
  <2>2. CASE simBank = Unset /\ simBank' = SimStart
    BY <2>2, StartAssumption, UnsetAssumption DEF Cash
  <2> QED BY <2>1, <2>2 DEF BalanceInv, Start, InitSim, InitLive, InitFails, Stop, SyncStep,
          SyncFails, SyncBegin, SyncBank, SyncPeak, bookVars
<1>3. UNCHANGED report
  BY DEF Start, InitSim, InitLive, InitFails, Stop, SyncStep, SyncFails, SyncBegin,
         SyncBank, SyncPeak, Halfway, NoReport
<1>4. ReadBody
  BY <1>3, WasHalfway
<1>5. ~InCash'
  <2>1. CASE Stop
    BY <2>1 DEF Stop, InCash, Deducting, Restoring, Idle
  <2>2. CASE ~Stop
    <3>1. UNCHANGED work
      BY <2>2 DEF Start, InitSim, InitLive, InitFails, SyncStep, SyncFails, SyncBegin,
             SyncBank, SyncPeak, bookVars
    <3> QED BY <1>4, <3>1 DEF ReadBody, InCash, Deducting, Restoring
  <2> QED BY <2>1, <2>2
<1> QED BY <1>1, <1>2, <1>3, <1>4, <1>5, ReadKept

LEMMA ReadPaper ==
  ASSUME BookTypeOK, Halfway => ReadBody, Halfway', [Next]_vars, NEW w \in Workers,
         PaperStep(w)
  PROVE  ReadBody'
<1>1. (\E p \in Positions : Visit(w, p)) \/ KeepOpen(w) \/ GetCash(w) \/ CashFails(w)
  BY NotDisturbed DEF PaperStep, Open, SetCash, Close
<1>2. UNCHANGED <<row, simBank, report, script>>
  BY <1>1 DEF Visit, KeepOpen, GetCash, CashFails
<1>3. ReadBody
  BY <1>2, WasHalfway
<1>4. w \notin Deducting \cup Restoring
  BY <1>3 DEF ReadBody, InCash
<1>5. ~InCash'
  <2>1. PICK x : Put(w, x) /\ x.step \in {"idle", "close"}
    <3>1. ~GetCash(w) /\ ~CashFails(w)
      BY <1>4 DEF GetCash, CashFails
    <3>2. ASSUME NEW p \in Positions, Visit(w, p)
          PROVE  \E x : Put(w, x) /\ x.step \in {"idle", "close"}
      <4>1. [Idle EXCEPT !.step = "close", !.pos = p].step = "close"
        BY DEF Idle
      <4> QED BY <3>2, <4>1 DEF Visit
    <3>3. Idle.step = "idle"
      BY DEF Idle
    <3> QED BY <1>1, <3>1, <3>2, <3>3 DEF KeepOpen
  <2>2. Deducting' = Deducting \ {w} /\ Restoring' = Restoring \ {w}
    BY <2>1, WorkChange
  <2> QED BY <1>3, <2>2 DEF ReadBody, InCash
<1>6. Cash' = Cash
  BY <1>2 DEF Cash
<1> QED BY <1>2, <1>3, <1>5, <1>6, ReadKept

LEMMA ReadScript ==
  ASSUME BookTypeOK, Halfway', ScriptStep
  PROVE  FALSE
<1>1. ResetRollsBack \/ ScriptFails
  BY NotDisturbed DEF ScriptStep, ResetRows, DeleteKey
<1>2. "halfReset" \in hazard'
  BY <1>1 DEF ResetRollsBack, ScriptFails
<1> QED BY <1>2 DEF Halfway, PaperHazards

LEMMA ReadStepInv ==
  ASSUME BookTypeOK, BalanceInv, ReadInv, [Next]_vars
  PROVE  ReadInv'
<1> SUFFICES ASSUME Halfway' PROVE ReadBody'
  BY DEF ReadInv, Halfway, ReadBody
<1>1. Halfway => ReadBody
  BY ReadSplit
<1>2. ~ReportFails
  BY DEF ReportFails, NoRows, NoBalance, Fresh, NoReport, Halfway, BookTypeOK, ReportTyped
<1>3. ~ReportEnd
  BY DEF ReportEnd, Second, ReadRows, ReadBalance, Halfway, BookTypeOK, ReportTyped
<1>4. CASE UNCHANGED vars
  <2>1. UNCHANGED <<row, work, simBank, report, script>>
    BY <1>4 DEF vars, bookVars
  <2>2. ReadBody
    BY <1>1, <2>1, WasHalfway
  <2>3. Cash' = Cash /\ ~InCash'
    BY <2>1, <2>2 DEF Cash, InCash, Deducting, Restoring, ReadBody
  <2> QED BY <2>1, <2>2, <2>3, ReadKept
<1>5. CASE \E w \in Workers : PaperStep(w)
  BY <1>1, <1>5, ReadPaper
<1>6. CASE ReadStep
  BY <1>2, <1>3, <1>6, ReadBegins DEF ReadStep
<1> QED BY <1>1, <1>4, <1>5, <1>6, ReadProcess, ReadScript, StepKinds

\* What the second read adds is what the first one goes with.
LEMMA ReportEnds ==
  ASSUME BookTypeOK, BalanceInv, ReadInv, ReportEnd, ~report'.torn,
         hazard \cap PaperHazards = {}
  PROVE  report'.bank + report'.held = SimStart + report'.realised
<1> DEFINE r0 == [report EXCEPT !.pc = "done"]
<1>1. report' = Second(r0) /\ r0.kind = report.kind /\ r0.torn = report.torn
      /\ r0.held = report.held /\ r0.realised = report.realised /\ r0.bank = report.bank
  BY DEF ReportEnd, BookTypeOK, ReportTyped
<1>2. report'.torn = report.torn
  BY <1>1 DEF Second, ReadRows, ReadBalance, BookTypeOK, ReportTyped
<1>3. ReadBody
  BY <1>2, ReadSplit DEF ReportEnd, Halfway
<1>4. Cash + Held = SimStart + Realised
  BY <1>3, BalanceAtRest DEF ReadBody, PaperBalance
<1>5. report'.bank = Cash /\ report'.held = Held /\ report'.realised = Realised
  <2>1. CASE report.kind = "status"
    <3>1. report' = [r0 EXCEPT !.held = Held, !.realised = Realised]
      BY <1>1, <2>1 DEF Second, ReadRows
    <3> QED BY <1>3, <2>1, <3>1 DEF ReadBody, BookTypeOK, ReportTyped
  <2>2. CASE report.kind = "metrics"
    <3>1. report' = [r0 EXCEPT !.bank = Cash]
      BY <1>1, <2>2 DEF Second, ReadBalance
    <3> QED BY <1>3, <2>2, <3>1 DEF ReadBody, BookTypeOK, ReportTyped
  <2> QED BY <2>1, <2>2 DEF BookTypeOK, ReportTyped, Kinds
<1> QED BY <1>4, <1>5

LEMMA TiesStep ==
  ASSUME BookTypeOK, BalanceInv, ReadInv, ReportTies, [Next]_vars
  PROVE  ReportTies'
<1>1. CASE UNCHANGED report
  BY <1>1, HazardsStay DEF ReportTies
<1>2. CASE report'.pc # "done" \/ report'.torn
  BY <1>2 DEF ReportTies
<1>3. CASE Disturb
  BY <1>2, <1>3 DEF Disturb, BookTypeOK, ReportTyped, NoReport
<1>4. CASE (\E m \in {"sim", "live"} : Start(m)) \/ InitSim \/ InitLive \/ InitFails \/ Stop
            \/ SyncStep \/ SyncFails
  BY <1>1, <1>2, <1>4 DEF Start, InitSim, InitLive, InitFails, Stop, SyncStep, SyncFails,
     SyncBegin, SyncBank, SyncPeak, NoReport
<1>5. CASE ScriptStep
  BY <1>1, <1>3, <1>5 DEF ScriptStep, ResetRows, ResetRollsBack, DeleteKey, ScriptFails
<1>6. ASSUME NEW w \in Workers, PaperStep(w) PROVE ReportTies'
  BY <1>1, <1>3, <1>6 DEF PaperStep, Open, Visit, KeepOpen, GetCash, SetCash, CashFails,
     Close
<1>7. ASSUME NEW k \in Kinds, ReportBegin(k) PROVE ReportTies'
  <2>1. report'.pc = "second"
    BY <1>7 DEF ReportBegin, First, ReadRows, ReadBalance, Fresh, NoReport
  <2> QED BY <1>2, <2>1
<1>8. CASE ReportEnd
  <2>1. hazard' = hazard
    BY <1>8 DEF ReportEnd, histVars
  <2> QED BY <1>8, <2>1, ReportEnds DEF ReportTies
<1>9. CASE ReportFails
  BY <1>2, <1>9 DEF ReportFails, NoRows, NoBalance, Fresh, NoReport, BookTypeOK, ReportTyped
<1>10. CASE UNCHANGED vars
  BY <1>1, <1>10 DEF vars
<1> QED BY <1>4, <1>5, <1>6, <1>7, <1>8, <1>9, <1>10, StepKinds DEF ReadStep

\* What a report shows adds up unless one of its reads failed, something moved
\* between them, or the balance was already off.
THEOREM ReportsTie == Spec => []ReportTies
<1> DEFINE IInv == BookTypeOK /\ ScriptAlone /\ BalanceInv /\ ReadInv /\ ReportTies
<1>1. Init => IInv
  <2>1. Init => ScriptAlone /\ ReadInv /\ ReportTies
    BY DEF Init, ScriptAlone, ReadInv, ReportTies, NoReport
  <2> QED BY <2>1, BookTypeInit, BalanceInit
<1>2. IInv /\ [Next]_vars => IInv'
  BY BookTypeStep, ScriptStepAlone, BalanceStep, ReadStepInv, TiesStep
<1>3. IInv => ReportTies
  OBVIOUS
<1> QED BY <1>1, <1>2, <1>3, PTL DEF Spec
=============================================================================
