------------------------- MODULE PaperTradingProofs -------------------------
(***************************************************************************)
(* Proofs about PaperTrading, for any trades, jobs, markets, signals,      *)
(* prices, settings, faults and number of crashes.                         *)
(***************************************************************************)
EXTENDS PaperAccount, DollarSums

-----------------------------------------------------------------------------
\* Arithmetic and the operators of the model

\* A product of naturals is a natural: the only nonlinear fact used.
LEMMA ProductNat == \A a, b \in Nat : a * b \in Nat
  OBVIOUS

\* The fallback fill price of an orderbook that could not be read is positive.
LEMMA FallbackPositive == FallbackFill \in Nat \ {0}
  BY PricesAssumption DEF FallbackFill

\* Every signal of the model, the placeholder included, has a positive size.
LEMMA SizePositive ==
  ASSUME NEW s \in Signals \cup {NoSignal}
  PROVE  s.size \in Nat \ {0}
  BY SignalsAssumption DEF Signal, NoSignal

\* The shares a position holds, and what a close returns, are naturals.
LEMMA ProceedsNat ==
  ASSUME TypeOK, NEW t \in Trades, NEW q \in Nat
  PROVE  Shares(t) \in Nat /\ Proceeds(t, q) \in Nat /\ Pnl(t, q) \in Int
<1>1. sig[t].size \in Nat /\ fill[t] \in Nat \ {0}
  BY SizePositive DEF TypeOK
<1>2. Shares(t) \in Nat
  BY <1>1 DEF Shares
<1>3. Proceeds(t, q) \in Nat
  BY <1>2, ProductNat DEF Proceeds
<1>4. Pnl(t, q) \in Int
  BY <1>1, <1>2 DEF Pnl
<1> QED BY <1>2, <1>3, <1>4
-----------------------------------------------------------------------------
\* Type correctness

LEMMA TypeInit == Init => TypeOK
  BY FallbackPositive, MoneyAssumption, FaultsAssumption
  DEF Init, TypeOK, JobBound, SigBound, PcValues, JpcValues, RowType, NoRow,
      Actors

\* Reading the balance keeps the types of what it writes, whoever reads.
LEMMA TypeReadBalance ==
  ASSUME TypeOK, NEW a \in Actors, NEW more \in SUBSET HazardKinds,
         ReadBalance(a, more)
  PROVE  got' \in [Actors -> Nat] /\ hazard' \subseteq HazardKinds
<1>1. Overlap(a) \subseteq HazardKinds
  BY DEF Overlap, HazardKinds
<1>2. got' \in [Actors -> Nat]
  BY MoneyAssumption DEF ReadBalance, TypeOK
<1>3. hazard' \subseteq HazardKinds
  BY <1>1 DEF ReadBalance, TypeOK, HazardKinds
<1> QED BY <1>2, <1>3

\* Every action of a pipeline task keeps the types.
LEMMA TypePipeline ==
  ASSUME TypeOK, NEW t \in Trades, Receive(t) \/ Pipeline(t)
  PROVE  TypeOK'
<1> USE DEF TypeOK, JobBound, SigBound, Goto, Leave, pipeVars, jobVars, PcValues,
            HazardKinds
<1>1. CASE Receive(t)
  BY <1>1 DEF Receive
<1>2. CASE Acquire(t)
  BY <1>2 DEF Acquire
<1>3. CASE LookupDuplicate(t)
  BY <1>3 DEF LookupDuplicate
<1>4. CASE LookupFree(t)
  BY <1>4 DEF LookupFree
<1>5. CASE LookupFails(t)
  BY <1>5 DEF LookupFails
<1>6. CASE CashShort(t)
  BY <1>6 DEF CashShort
<1>7. CASE CashEnough(t)
  BY <1>7 DEF CashEnough
<1>8. CASE PriceRejected(t)
  BY <1>8 DEF PriceRejected
<1>9. CASE Insert(t)
  BY <1>9 DEF Insert, RowType
<1>10. CASE InsertFails(t)
  BY <1>10 DEF InsertFails
<1>11. CASE Alert(t)
  BY <1>11 DEF Alert
<1>12. CASE FetchBook(t)
  BY <1>12, FallbackPositive, PricesAssumption DEF FetchBook, FetchedPrices
<1>13. CASE DeductGet(t)
  BY <1>13, TypeReadBalance DEF DeductGet, Actors
<1>14. CASE DeductSet(t)
  BY <1>14, SizePositive DEF DeductSet, Deducted, Actors
<1>15. CASE DeductSetFails(t)
  BY <1>15 DEF DeductSetFails, Actors
<1> QED
  BY <1>1, <1>2, <1>3, <1>4, <1>5, <1>6, <1>7, <1>8, <1>9, <1>10, <1>11, <1>12,
     <1>13, <1>14, <1>15
  DEF Pipeline

\* Every action of a scheduler job keeps the types.
LEMMA TypeJob ==
  ASSUME TypeOK, NEW j \in Jobs, JobStart(j) \/ JobRun(j)
  PROVE  TypeOK'
<1> USE DEF TypeOK, JobBound, SigBound, JobGoto, NextPosition, LoopPc, pipeVars,
            JpcValues, HazardKinds, Actors
<1>1. CASE JobStart(j)
  BY <1>1 DEF JobStart, Snapshot
<1>2. CASE JobSkip(j)
  BY <1>2 DEF JobSkip
<1>3. CASE MarkQuote(j)
  <2>1. PICK t \in todo[j], q \in MidPrices : Quote(j, t, q)
    BY <1>3 DEF MarkQuote
  <2>2. t \in Trades /\ q \in Nat
    BY <2>1, PricesAssumption
  <2> QED BY <1>3, <2>1, <2>2 DEF MarkQuote, Quote
<1>4. CASE FastExit(j)
  BY <1>4, PricesAssumption DEF FastExit, Quote
<1>5. CASE FastKeep(j)
  BY <1>5 DEF FastKeep
<1>6. CASE Resolve(j)
  BY <1>6, PricesAssumption DEF Resolve, Resolved, Quote
<1>7. CASE Mark(j)
  <2>1. cur[j] \in Trades /\ Pnl(cur[j], quote[j]) \in Int
    BY <1>7, ProceedsNat DEF Mark
  <2>2. row' \in [Trades -> RowType]
    BY <1>7, <2>1 DEF Mark, RowType
  <2> QED BY <1>7, <2>2 DEF Mark
<1>8. CASE Close(j)
  BY <1>8 DEF Close, RowType
<1>9. CASE JobWriteFails(j)
  BY <1>9 DEF JobWriteFails
<1>10. CASE RestoreGet(j)
  BY <1>10, TypeReadBalance DEF RestoreGet
<1>11. CASE RestoreSet(j)
  <2>1. Proceeds(cur[j], quote[j]) \in Nat /\ got[j] \in Nat
    BY <1>11, ProceedsNat DEF RestoreSet
  <2> QED BY <1>11, <2>1 DEF RestoreSet
<1>12. CASE RestoreSetFails(j)
  BY <1>12 DEF RestoreSetFails
<1>13. CASE PeakGet(j)
  BY <1>13 DEF PeakGet
<1>14. CASE PeakSet(j)
  BY <1>14 DEF PeakSet
<1>15. CASE PeakFails(j)
  BY <1>15 DEF PeakFails
<1> QED
  BY <1>1, <1>2, <1>3, <1>4, <1>5, <1>6, <1>7, <1>8, <1>9, <1>10, <1>11, <1>12,
     <1>13, <1>14, <1>15
  DEF JobRun

\* A crash and restart keeps the types.
LEMMA TypeCrash == TypeOK /\ Crash => TypeOK'
  BY FaultsAssumption
  DEF TypeOK, JobBound, SigBound, Crash, PcValues, JpcValues, HazardKinds, Actors

LEMMA TypeStep == TypeOK /\ [Next]_vars => TypeOK'
<1> SUFFICES ASSUME TypeOK, [Next]_vars PROVE TypeOK'
  OBVIOUS
<1>1. CASE UNCHANGED vars
  BY <1>1 DEF vars, TypeOK, JobBound, SigBound
<1>2. ASSUME NEW t \in Trades, Receive(t) \/ Pipeline(t) PROVE TypeOK'
  BY <1>2, TypePipeline
<1>3. ASSUME NEW j \in Jobs, JobStart(j) \/ JobRun(j) PROVE TypeOK'
  BY <1>3, TypeJob
<1>4. CASE Crash
  BY <1>4, TypeCrash
<1> QED BY <1>1, <1>2, <1>3, <1>4 DEF Next

\* Every variable has its type: no balance is ever negative, no share count is
\* divided by a zero price, and no job acts on a position it does not have.
THEOREM TypeCorrect == Spec => []TypeOK
  BY TypeInit, TypeStep, PTL DEF Spec

-----------------------------------------------------------------------------
\* One open position per strategy and market

LEMMA SlotInit == Init => SlotInv
  BY TradesAssumption
  DEF Init, SlotInv, LockHeld, SlotFree, RowPlaced, JobRows, OneOpenPerStrategy,
      IsOpen, NoRow, Critical

\* A task that started has a real market and strategy, so its lock exists.
LEMMA KeyOfStarted ==
  ASSUME TypeOK, NEW t \in Trades, pc[t] # "idle"
  PROVE  Key(t) \in Keys
  BY SignalsAssumption DEF TypeOK, SigBound, Signal, Key, Keys

\* What a job may do to the pipelines and the table: it leaves the tasks and
\* their locks alone and never opens a row.
JobFrame(j) ==
  /\ UNCHANGED pipeVars
  /\ hazard \subseteq hazard'
  /\ \A t \in Trades : /\ row'[t].status = "OPEN" => row[t].status = "OPEN"
                       /\ row'[t].status = "ABSENT" <=> row[t].status = "ABSENT"

LEMMA JobRowUpdate ==
  ASSUME TypeOK, JobRows, NEW j \in Jobs, Mark(j) \/ Close(j)
  PROVE  JobFrame(j)
<1>1. cur[j] \in Trades /\ row[cur[j]].status # "ABSENT"
  <2>1. jpc[j] \in {"mark", "close"}
    BY DEF Mark, Close, JobGoto
  <2> QED BY <2>1 DEF TypeOK, JobBound, JobRows
<1>2. CASE Mark(j)
  <2>1. ASSUME NEW t \in Trades PROVE row'[t].status = row[t].status
    BY <1>2, <1>1 DEF Mark, TypeOK, RowType
  <2>2. UNCHANGED pipeVars /\ hazard' = hazard
    BY <1>2 DEF Mark, pipeVars
  <2> QED BY <2>1, <2>2 DEF JobFrame
<1>3. CASE Close(j)
  <2>1. ASSUME NEW t \in Trades
        PROVE  /\ row'[t].status = "OPEN" => row[t].status = "OPEN"
               /\ row'[t].status = "ABSENT" <=> row[t].status = "ABSENT"
    <3>1. CASE t = cur[j]
      BY <1>1, <1>3, <3>1 DEF Close, TypeOK
    <3>2. CASE t # cur[j]
      BY <1>1, <1>3, <3>2 DEF Close, TypeOK
    <3> QED BY <3>1, <3>2
  <2>2. UNCHANGED pipeVars /\ hazard \subseteq hazard'
    BY <1>3 DEF Close, pipeVars
  <2> QED BY <2>1, <2>2 DEF JobFrame
<1> QED BY <1>2, <1>3

LEMMA JobStepFrame ==
  ASSUME TypeOK, JobRows, NEW j \in Jobs, JobStart(j) \/ JobRun(j)
  PROVE  JobFrame(j)
<1>1. CASE Mark(j) \/ Close(j)
  BY <1>1, JobRowUpdate
<1>2. CASE ~(Mark(j) \/ Close(j))
  <2>1. UNCHANGED pipeVars /\ UNCHANGED row /\ hazard \subseteq hazard'
    BY <1>2 DEF JobRun, JobStart, JobSkip, MarkQuote, FastExit, FastKeep,
        Resolve, Quote, JobWriteFails, RestoreGet, ReadBalance, RestoreSet,
        RestoreSetFails, PeakGet, PeakSet, PeakFails, pipeVars
  <2> QED BY <2>1 DEF JobFrame
<1> QED BY <1>1, <1>2

\* A job only ever knows positions that exist: it takes them from its snapshot
\* of the open ones, and rows are never deleted.
LEMMA JobStepRows ==
  ASSUME TypeOK, JobRows, NEW j \in Jobs, JobStart(j) \/ JobRun(j)
  PROVE  JobRows'
<1> DEFINE Placed == {t \in Trades : row[t].status # "ABSENT"}
<1>1. \A t \in Trades : row'[t].status = "ABSENT" <=> row[t].status = "ABSENT"
  BY JobStepFrame DEF JobFrame
<1>2. \A i \in Jobs : todo[i] \subseteq Placed /\ cur[i] \in Placed \cup {NoTrade}
  BY DEF JobRows, TypeOK
<1>3. \A i \in Jobs \ {j} : todo'[i] = todo[i] /\ cur'[i] = cur[i]
  <2>1. CASE JobStart(j) \/ JobSkip(j) \/ FastKeep(j)
    BY <2>1 DEF TypeOK, JobStart, JobSkip, FastKeep
  <2>2. CASE MarkQuote(j) \/ FastExit(j) \/ Resolve(j)
    BY <2>2 DEF TypeOK, MarkQuote, FastExit, Resolve, Quote
  <2>3. CASE NextPosition(j) \/ UNCHANGED <<todo, cur>>
    BY <2>3 DEF TypeOK, NextPosition
  <2> QED
    BY <2>1, <2>2, <2>3
    DEF JobRun, Mark, Close, JobWriteFails, RestoreGet, RestoreSet,
        RestoreSetFails, PeakGet, PeakSet, PeakFails, JobGoto
<1>4. todo'[j] \subseteq Placed /\ cur'[j] \in Placed \cup {NoTrade}
  <2>1. CASE JobStart(j)
    BY <2>1, <1>2 DEF JobStart, Snapshot, IsOpen, TypeOK
  <2>2. CASE MarkQuote(j) \/ FastExit(j) \/ Resolve(j)
    <3>1. PICK t \in todo[j], q \in Int : Quote(j, t, q)
      BY <2>2, PricesAssumption DEF MarkQuote, FastExit, Resolve, Resolved
    <3> QED BY <3>1, <1>2 DEF Quote, TypeOK
  <2>3. CASE JobSkip(j) \/ FastKeep(j)
    <3>1. PICK t \in todo[j] : todo' = [todo EXCEPT ![j] = @ \ {t}]
      BY <2>3 DEF JobSkip, FastKeep
    <3>2. cur' = cur
      BY <2>3 DEF JobSkip, FastKeep
    <3> QED BY <3>1, <3>2, <1>2 DEF TypeOK
  <2>4. CASE ~(JobStart(j) \/ MarkQuote(j) \/ FastExit(j) \/ Resolve(j) \/
               JobSkip(j) \/ FastKeep(j))
    <3>1. todo' = todo /\ cur'[j] \in {cur[j], NoTrade}
      BY <2>4 DEF TypeOK, JobRun, Mark, Close, JobWriteFails, RestoreGet,
          RestoreSet, RestoreSetFails, PeakGet, PeakSet, PeakFails, JobGoto,
          NextPosition
    <3> QED BY <3>1, <1>2
  <2> QED BY <2>1, <2>2, <2>3, <2>4
<1>5. \A i \in Jobs : todo'[i] \subseteq Placed /\ cur'[i] \in Placed \cup {NoTrade}
  BY <1>2, <1>3, <1>4
<1> QED BY <1>1, <1>5, TradesAssumption DEF JobRows

\* A job cannot break the slots: it opens nothing.
LEMMA SlotJob ==
  ASSUME TypeOK, SlotInv, NEW j \in Jobs, JobStart(j) \/ JobRun(j)
  PROVE  SlotInv'
<1>1. JobFrame(j) /\ JobRows'
  BY JobStepFrame, JobStepRows DEF SlotInv
<1>2. LockHeld'
  BY <1>1 DEF SlotInv, LockHeld, JobFrame, pipeVars, Key
<1>3. SlotFree'
  BY <1>1 DEF SlotInv, SlotFree, JobFrame, pipeVars, Key, IsOpen
<1>4. RowPlaced'
  BY <1>1 DEF SlotInv, RowPlaced, JobFrame, pipeVars
<1>5. OneOpenPerStrategy'
  BY <1>1 DEF SlotInv, OneOpenPerStrategy, JobFrame, pipeVars, Key, IsOpen
<1> QED BY <1>1, <1>2, <1>3, <1>4, <1>5 DEF SlotInv

\* A crash empties the critical sections and leaves the table alone.
LEMMA SlotCrash == TypeOK /\ SlotInv /\ Crash => SlotInv'
<1> SUFFICES ASSUME TypeOK, SlotInv, Crash PROVE SlotInv'
  OBVIOUS
<1>1. \A t \in Trades : pc'[t] \in {"idle", "done", "dead"}
  BY DEF Crash
<1>2. LockHeld' /\ SlotFree'
  BY <1>1 DEF LockHeld, SlotFree, Critical
<1>3. RowPlaced'
  BY DEF Crash, SlotInv, RowPlaced, TypeOK
<1>4. JobRows'
  BY TradesAssumption DEF Crash, JobRows
<1>5. OneOpenPerStrategy'
  BY DEF Crash, SlotInv, OneOpenPerStrategy, Key, IsOpen
<1> QED BY <1>2, <1>3, <1>4, <1>5 DEF SlotInv

\* The steps of a pipeline before and after the insert: they open nothing, and
\* a task enters the critical section, or passes its lookup, only as they say.
LEMMA SlotPipelineQuiet ==
  ASSUME TypeOK, SlotInv, NEW t \in Trades,
         Receive(t) \/ Pipeline(t), ~Insert(t)
  PROVE  SlotInv'
<1>1. /\ row' = row /\ todo' = todo /\ cur' = cur
      /\ blind' = IF LookupFails(t) THEN blind \cup {t} ELSE blind
  <2>1. CASE LookupFails(t)
    BY <2>1 DEF LookupFails, jobVars
  <2>2. CASE ~LookupFails(t)
    BY <2>2
    DEF Pipeline, Receive, Acquire, LookupDuplicate, LookupFree, CashShort,
        CashEnough, FetchBook, PriceRejected, InsertFails, DeductGet, DeductSet,
        DeductSetFails, Alert, jobVars
  <2> QED BY <2>1, <2>2
<1>2. \A u \in Trades \ {t} : pc'[u] = pc[u] /\ sig'[u] = sig[u]
  BY DEF TypeOK, Pipeline, Receive, Acquire, LookupDuplicate, LookupFree,
         LookupFails, CashShort, CashEnough, FetchBook, PriceRejected,
         InsertFails, DeductGet, DeductSet, DeductSetFails, Alert, Goto, Leave
<1>3. JobRows'
  BY <1>1 DEF SlotInv, JobRows
<1>4. RowPlaced'
  <2>1. row[t].status # "ABSENT" => pc'[t] \in {"deductSet", "alert", "done"}
    BY DEF SlotInv, RowPlaced, TypeOK, Pipeline, Receive, Acquire,
           LookupDuplicate, LookupFree, LookupFails, CashShort, CashEnough,
           FetchBook, PriceRejected, InsertFails, DeductGet, DeductSet,
           DeductSetFails, Alert, Goto, Leave
  <2> QED BY <1>1, <1>2, <2>1 DEF SlotInv, RowPlaced
\* only a task without a row changes its signal
<1>5. /\ \A u \in Trades : row[u].status # "ABSENT" => sig'[u] = sig[u]
      /\ pc[t] # "idle" => sig'[t] = sig[t]
  BY <1>2 DEF SlotInv, RowPlaced, Pipeline, Receive, Acquire, LookupDuplicate,
      LookupFree, LookupFails, CashShort, CashEnough, FetchBook, PriceRejected,
      InsertFails, DeductGet, DeductSet, DeductSetFails, Alert, Goto
<1>6. OneOpenPerStrategy'
  BY <1>1, <1>5 DEF SlotInv, OneOpenPerStrategy, Key, IsOpen
<1>7. SlotFree'
  <2>1. ASSUME t \notin blind', pc'[t] \in {"cash", "book", "insert"},
               NEW u \in Trades, IsOpen(u)
        PROVE  Key(t) # Key(u) /\ pc[t] # "idle"
    <3>1. CASE pc[t] \in {"cash", "book", "insert"}
      BY <2>1, <3>1, <1>1 DEF SlotInv, SlotFree
    <3>2. CASE LookupFree(t)
      BY <2>1, <3>2 DEF LookupFree, Blocking, Key, Goto, TypeOK
    <3>3. CASE LookupFails(t)
      BY <2>1, <3>3 DEF LookupFails
    <3>4. CASE pc[t] \notin {"cash", "book", "insert"} /\ ~LookupFree(t)
               /\ ~LookupFails(t)
      BY <2>1, <3>4
      DEF TypeOK, Pipeline, Receive, Acquire, LookupDuplicate, CashShort,
          CashEnough, FetchBook, PriceRejected, InsertFails, DeductGet,
          DeductSet, DeductSetFails, Alert, Goto, Leave
    <3> QED BY <3>1, <3>2, <3>3, <3>4
  <2> QED BY <1>1, <1>2, <1>5, <2>1 DEF SlotInv, SlotFree, Key, IsOpen
<1>8. LockHeld'
  <2>1. CASE lock' = lock /\ ~Acquire(t)
    <3>1. pc'[t] \in Critical => pc[t] \in Critical
      BY <2>1 DEF TypeOK, Critical, Pipeline, Receive, Acquire, LookupDuplicate,
          LookupFree, LookupFails, CashShort, CashEnough, FetchBook,
          PriceRejected, InsertFails, DeductGet, DeductSet, DeductSetFails,
          Alert, Goto, Leave
    <3> QED BY <1>2, <1>5, <2>1, <3>1 DEF SlotInv, LockHeld, Key, Critical
  <2>2. CASE Acquire(t)
    BY <2>2, <1>2, KeyOfStarted, TradesAssumption
    DEF Acquire, Goto, SlotInv, LockHeld, Key, Keys, TypeOK, Critical
  <2>3. CASE Leave(t) /\ pc[t] \in Critical /\ sig' = sig
    BY <2>3, <1>2 DEF Leave, SlotInv, LockHeld, Key, TypeOK, Critical
  <2> QED
    BY <2>1, <2>2, <2>3
    DEF Pipeline, Receive, LookupDuplicate, LookupFree, LookupFails, CashShort,
        CashEnough, FetchBook, PriceRejected, InsertFails, DeductGet,
        DeductSet, DeductSetFails, Alert, Goto, Critical
<1> QED BY <1>3, <1>4, <1>6, <1>7, <1>8 DEF SlotInv

\* The insert: the task holds its lock and its lookup found the slot free, so
\* it has neither an open row nor a rival between lookup and insert.
LEMMA SlotInsert ==
  ASSUME TypeOK, SlotInv, NEW t \in Trades, Insert(t)
  PROVE  SlotInv'
<1>1. /\ pc[t] = "insert" /\ pc' = [pc EXCEPT ![t] = "deductGet"]
      /\ UNCHANGED <<sig, blind, lock, todo, cur>>
  BY DEF Insert, Goto, jobVars
<1>2. /\ row'[t].status = "OPEN"
      /\ \A u \in Trades \ {t} : row'[u] = row[u]
  BY DEF Insert, TypeOK, RowType
<1>3. LockHeld'
  BY <1>1 DEF SlotInv, LockHeld, TypeOK, Critical, Key
<1>4. JobRows'
  BY <1>1, <1>2 DEF SlotInv, JobRows, TypeOK
<1>5. RowPlaced'
  BY <1>1, <1>2 DEF SlotInv, RowPlaced, TypeOK
<1>6. \A u \in Trades \ {t} : pc[u] \in Critical => Key(u) # Key(t)
  BY <1>1 DEF SlotInv, LockHeld, Critical
<1>7. SlotFree'
  BY <1>1, <1>2, <1>6 DEF SlotInv, SlotFree, TypeOK, Key, IsOpen, Critical
<1>8. OneOpenPerStrategy'
  BY <1>1, <1>2 DEF SlotInv, SlotFree, OneOpenPerStrategy, Key, IsOpen
<1> QED BY <1>3, <1>4, <1>5, <1>7, <1>8 DEF SlotInv

LEMMA SlotStep == TypeOK /\ SlotInv /\ [Next]_vars => SlotInv'
<1> SUFFICES ASSUME TypeOK, SlotInv, [Next]_vars PROVE SlotInv'
  OBVIOUS
<1>1. CASE UNCHANGED vars
  BY <1>1 DEF vars, SlotInv, LockHeld, SlotFree, RowPlaced, JobRows,
      OneOpenPerStrategy, Key, IsOpen
<1>2. ASSUME NEW t \in Trades, Receive(t) \/ Pipeline(t) PROVE SlotInv'
  BY <1>2, SlotPipelineQuiet, SlotInsert
<1>3. ASSUME NEW j \in Jobs, JobStart(j) \/ JobRun(j) PROVE SlotInv'
  BY <1>3, SlotJob
<1>4. CASE Crash
  BY <1>4, SlotCrash
<1> QED BY <1>1, <1>2, <1>3, <1>4 DEF Next

\* The inductive invariant of the lock, for any number of trades, jobs, faults
\* and crashes: whoever is inside holds it, and from a lookup that answered to
\* its insert has its slot for itself; so two positions of one slot are open
\* only if a failed lookup let one of them in.
THEOREM SlotInvariant == Spec => []SlotInv
<1>1. Init => TypeOK /\ SlotInv
  BY TypeInit, SlotInit
<1>2. (TypeOK /\ SlotInv) /\ [Next]_vars => (TypeOK /\ SlotInv)'
  BY TypeStep, SlotStep
<1> QED BY <1>1, <1>2, PTL DEF Spec

-----------------------------------------------------------------------------
\* PaperTrading implements PositionBook

LEMMA BookInit == Init => Book!Init
  BY DEF Init, Book!Init, Book!NoSlot, NoRow, Inserted

\* A step that keeps every status, and what is known of every row, is a stutter.
LEMMA BookStutter ==
  ASSUME \A t \in Trades : row'[t].status = row[t].status,
         \A t \in Trades : row[t].status # "ABSENT" =>
            /\ sig'[t] = sig[t]
            /\ t \in blind' <=> t \in blind
  PROVE  UNCHANGED Book!bookVars
  BY DEF Book!bookVars, Key, Inserted

LEMMA BookInsert ==
  ASSUME TypeOK, SlotInv, NEW t \in Trades, Insert(t)
  PROVE  /\ Book!Open(t, Key(t)) \/ Book!OpenBlind(t, Key(t))
         /\ Key(t) \in Keys
<1>1. pc[t] = "insert" /\ sig' = sig /\ blind' = blind
  BY DEF Insert, Goto
<1>2. row[t].status = "ABSENT"
  BY <1>1 DEF SlotInv, RowPlaced
<1>3. /\ row'[t].status = "OPEN"
      /\ \A u \in Trades \ {t} : row'[u] = row[u]
  BY DEF Insert, TypeOK, RowType
<1>4. t \notin blind => \A u \in Trades : row[u].status = "OPEN" => Key(u) # Key(t)
  BY <1>1 DEF SlotInv, SlotFree, IsOpen
<1>5. Key(t) \in Keys
  BY <1>1, KeyOfStarted
<1>6. Inserted' = Inserted \cup {t}
  BY <1>3 DEF Inserted
<1>7. Book!Enter(t, Key(t))
  BY <1>1, <1>2, <1>3 DEF Book!Enter, Key
<1>8. CASE t \in blind
  <2>1. (blind \cap Inserted)' = (blind \cap Inserted) \cup {t}
    BY <1>1, <1>6, <1>8
  <2> QED BY <2>1, <1>5, <1>7 DEF Book!OpenBlind
<1>9. CASE t \notin blind
  <2>1. (blind \cap Inserted)' = blind \cap Inserted
    BY <1>1, <1>6, <1>9
  <2> QED BY <2>1, <1>4, <1>5, <1>7, <1>9 DEF Book!Open, Key
<1> QED BY <1>8, <1>9

LEMMA BookClose ==
  ASSUME TypeOK, SlotInv, NEW j \in Jobs, Close(j)
  PROVE  Book!Close(cur[j]) \/ UNCHANGED Book!bookVars
<1>1. cur[j] \in Trades /\ row[cur[j]].status # "ABSENT"
  <2>1. jpc[j] = "close"
    BY DEF Close, JobGoto
  <2> QED BY <2>1 DEF TypeOK, JobBound, SlotInv, JobRows
<1>2. sig' = sig /\ blind' = blind
  BY DEF Close, pipeVars
<1>3. /\ row'[cur[j]].status = "CLOSED"
      /\ \A u \in Trades \ {cur[j]} : row'[u] = row[u]
  BY <1>1 DEF Close, TypeOK
<1>4. CASE row[cur[j]].status = "OPEN"
  <2>1. Inserted' = Inserted
    BY <1>1, <1>3 DEF Inserted
  <2> QED BY <1>1, <1>2, <1>3, <1>4, <2>1 DEF Book!Close, Key
<1>5. CASE row[cur[j]].status # "OPEN"
  <2>1. row[cur[j]].status = "CLOSED"
    BY <1>1, <1>5 DEF TypeOK, RowType
  <2> QED BY <2>1, <1>2, <1>3, BookStutter
<1> QED BY <1>4, <1>5

LEMMA BookStep ==
  TypeOK /\ SlotInv /\ [Next]_vars => [Book!Next]_(Book!bookVars)
<1> SUFFICES ASSUME TypeOK, SlotInv, [Next]_vars
             PROVE  Book!Next \/ UNCHANGED Book!bookVars
  OBVIOUS
<1>1. CASE UNCHANGED vars \/ Crash
  BY <1>1, BookStutter DEF vars, Crash
<1>2. ASSUME NEW t \in Trades, Insert(t) PROVE Book!Next
  BY <1>2, BookInsert DEF Book!Next, Book!Open, Book!OpenBlind, Book!Enter
<1>3. ASSUME NEW t \in Trades, Receive(t) \/ Pipeline(t), ~Insert(t)
      PROVE  UNCHANGED Book!bookVars
  <2>1. row' = row
    BY <1>3
    DEF Pipeline, Receive, Acquire, LookupDuplicate, LookupFree, LookupFails,
        CashShort, CashEnough, FetchBook, PriceRejected, InsertFails,
        DeductGet, DeductSet, DeductSetFails, Alert
  <2>2. \A u \in Trades :
          pc[u] \notin {"idle", "lookup"} =>
              sig'[u] = sig[u] /\ (u \in blind' <=> u \in blind)
    BY <1>3
    DEF TypeOK, Pipeline, Receive, Acquire, LookupDuplicate, LookupFree,
        LookupFails, CashShort, CashEnough, FetchBook, PriceRejected,
        InsertFails, DeductGet, DeductSet, DeductSetFails, Alert, Goto
  <2> QED BY <2>1, <2>2, BookStutter DEF SlotInv, RowPlaced
<1>4. ASSUME NEW j \in Jobs, Close(j) PROVE Book!Next \/ UNCHANGED Book!bookVars
  <2>2. Book!Close(cur[j]) \/ UNCHANGED Book!bookVars
    BY <1>4, BookClose
  <2>1. CASE Book!Close(cur[j])
    <3>1. cur[j] \in Trades
      <4>1. jpc[j] = "close"
        BY <1>4 DEF Close, JobGoto
      <4> QED BY <4>1 DEF TypeOK, JobBound
    <3> QED BY <2>1, <3>1 DEF Book!Next, Book!Close
  <2> QED BY <2>1, <2>2
<1>5. ASSUME NEW j \in Jobs, JobStart(j) \/ JobRun(j), ~Close(j)
      PROVE  UNCHANGED Book!bookVars
  <2>1. sig' = sig /\ blind' = blind
    BY <1>5, JobStepFrame DEF SlotInv, JobFrame, pipeVars
  <2>2. CASE Mark(j)
    <3>1. \A t \in Trades : row'[t].status = row[t].status
      BY <2>2 DEF Mark, TypeOK, RowType
    <3> QED BY <2>1, <3>1, BookStutter
  <2>3. CASE ~Mark(j)
    <3>1. row' = row
      BY <1>5, <2>3
      DEF JobRun, JobStart, JobSkip, MarkQuote, FastExit, FastKeep, Resolve,
          Quote, JobWriteFails, RestoreGet, RestoreSet, RestoreSetFails,
          PeakGet, PeakSet, PeakFails
    <3> QED BY <2>1, <3>1, BookStutter
  <2> QED BY <2>2, <2>3
<1> QED BY <1>1, <1>2, <1>3, <1>4, <1>5 DEF Next, Pipeline

\* The table is a PositionBook, whatever fails: an insert is an Open of a free
\* slot unless the task's own lookup failed, every first close a Close, and
\* everything else (marks, second closes, bankroll updates, crashes) leaves the
\* book as it is.
THEOREM PaperImplementsBook == Spec => ImplementsBook
<1>1. Init => Book!Init /\ TypeOK /\ SlotInv
  BY BookInit, TypeInit, SlotInit
<1>2. (TypeOK /\ SlotInv) /\ [Next]_vars => (TypeOK /\ SlotInv)'
  BY TypeStep, SlotStep
<1>3. (TypeOK /\ SlotInv) /\ [Next]_vars => [Book!Next]_(Book!bookVars)
  BY BookStep
<1> QED BY <1>1, <1>2, <1>3, PTL DEF Spec, ImplementsBook, Book!Spec

-----------------------------------------------------------------------------
\* One read-modify-write of the balance at a time

\* Tasks and jobs have different names.
LEMMA UpdatingIs ==
  /\ \A t \in Trades : t \notin Jobs /\ (Updating(t) <=> pc[t] = "deductSet")
  /\ \A j \in Jobs : j \notin Trades /\ (Updating(j) <=> jpc[j] = "restoreSet")
  BY TradesAssumption, JobsAssumption DEF Updating

\* What a step of a task leaves alone.
LEMMA PipelineFrame ==
  ASSUME TypeOK, NEW t \in Trades, Receive(t) \/ Pipeline(t)
  PROVE  /\ UNCHANGED <<jobVars, peak, crashes>> /\ hazard \subseteq hazard'
         /\ \A u \in Trades \ {t} : pc'[u] = pc[u] /\ sig'[u] = sig[u] /\ fill'[u] = fill[u]
                                    /\ row'[u] = row[u]
         /\ \A a \in Actors \ {t} : got'[a] = got[a]
  BY DEF TypeOK, Receive, Pipeline, Acquire, LookupDuplicate, LookupFree, LookupFails,
         CashShort, CashEnough, FetchBook, PriceRejected, Insert, InsertFails, DeductGet,
         DeductSet, DeductSetFails, Alert, Goto, Leave, ReadBalance, Actors

\* Away from its update a task leaves the balance alone.
LEMMA PipelineQuiet ==
  ASSUME TypeOK, NEW t \in Trades, Receive(t) \/ Pipeline(t),
         ~DeductGet(t), ~DeductSet(t)
  PROVE  UNCHANGED bankroll /\ pc'[t] # "deductSet"
         /\ (got' = got \/ "redis" \in hazard')
  BY DEF TypeOK, Receive, Pipeline, Acquire, LookupDuplicate, LookupFree, LookupFails,
         CashShort, CashEnough, FetchBook, PriceRejected, Insert, InsertFails,
         DeductSetFails, Alert, Goto, Leave

\* What a step of a job leaves alone.
LEMMA JobStepOthers ==
  ASSUME TypeOK, NEW j \in Jobs, JobStart(j) \/ JobRun(j)
  PROVE  /\ UNCHANGED <<pipeVars, crashes>> /\ hazard \subseteq hazard'
         /\ \A i \in Jobs \ {j} : jpc'[i] = jpc[i] /\ cur'[i] = cur[i] /\ quote'[i] = quote[i]
         /\ \A a \in Actors \ {j} : got'[a] = got[a]
  BY DEF TypeOK, JobStart, JobRun, JobSkip, MarkQuote, FastExit, FastKeep, Resolve, Quote,
         Mark, Close, JobWriteFails, RestoreGet, ReadBalance, RestoreSet, RestoreSetFails,
         PeakGet, PeakSet, PeakFails, JobGoto, NextPosition, Actors

LEMMA JobQuiet ==
  ASSUME TypeOK, NEW j \in Jobs, JobStart(j) \/ JobRun(j), ~RestoreGet(j), ~RestoreSet(j)
  PROVE  UNCHANGED bankroll /\ jpc'[j] # "restoreSet"
  BY DEF TypeOK, JobStart, JobRun, JobSkip, MarkQuote, FastExit, FastKeep, Resolve, Quote,
         Mark, Close, JobWriteFails, RestoreSetFails, PeakGet, PeakSet, PeakFails, JobGoto,
         NextPosition, LoopPc

WindowBody ==
    /\ \A a, b \in Actors : Updating(a) /\ Updating(b) => a = b
    /\ \A a \in Actors : Updating(a) => got[a] = bankroll

\* The step of an actor that ends its update, or does not take part in one.
LEMMA WindowQuiet ==
  ASSUME WindowBody, NEW x \in Actors, ~Updating(x)', UNCHANGED bankroll,
         \A a \in Actors \ {x} : Updating(a)' = Updating(a) /\ got'[a] = got[a]
  PROVE  WindowBody'
  BY DEF WindowBody

\* The step of an actor that reads the balance.
LEMMA WindowRead ==
  ASSUME WindowBody, NEW x \in Actors, NEW more, ReadBalance(x, more), TypeOK,
         "lostUpdate" \notin hazard', "redis" \notin hazard', UNCHANGED bankroll,
         \A a \in Actors \ {x} : Updating(a)' = Updating(a)
  PROVE  WindowBody'
<1>1. ~\E b \in Actors \ {x} : Updating(b)
  BY DEF ReadBalance, Overlap
<1>2. got' = [got EXCEPT ![x] = bankroll]
  BY DEF ReadBalance
<1>3. got'[x] = bankroll
  BY <1>2 DEF TypeOK
<1>4. \A a \in Actors \ {x} : ~Updating(a)'
  BY <1>1
<1> QED BY <1>3, <1>4 DEF WindowBody

\* The step of the actor that writes it.
LEMMA WindowWrite ==
  ASSUME WindowBody, NEW x \in Actors, Updating(x), ~Updating(x)',
         \A a \in Actors \ {x} : Updating(a)' = Updating(a)
  PROVE  WindowBody'
  BY DEF WindowBody

LEMMA WindowStep ==
  ASSUME TypeOK, WindowInv, [Next]_vars
  PROVE  WindowInv'
<1> SUFFICES ASSUME (hazard \cap {"lostUpdate", "redis"} = {})'
             PROVE  WindowBody'
  BY DEF WindowInv, WindowBody
<1>1. ASSUME NEW t \in Trades, Receive(t) \/ Pipeline(t) PROVE WindowBody'
  <2>1. WindowBody /\ t \in Actors
    BY <1>1, PipelineFrame DEF WindowInv, WindowBody, Actors
  <2>2. \A a \in Actors \ {t} : Updating(a)' = Updating(a) /\ got'[a] = got[a]
    <3>1. jpc' = jpc /\ \A u \in Trades \ {t} : pc'[u] = pc[u]
      BY <1>1, PipelineFrame DEF jobVars
    <3> QED BY <1>1, <3>1, PipelineFrame DEF Updating, Actors
  <2>3. t \notin Jobs
    BY UpdatingIs
  <2>4. CASE DeductGet(t)
    BY <2>1, <2>2, <2>4, WindowRead DEF DeductGet
  <2>5. CASE DeductSet(t)
    <3>1. Updating(t) /\ ~Updating(t)'
      BY <2>3, <2>5 DEF DeductSet, Goto, Updating, TypeOK
    <3> QED BY <2>1, <2>2, <3>1, WindowWrite
  <2>6. CASE ~DeductGet(t) /\ ~DeductSet(t)
    <3>1. ~Updating(t)' /\ UNCHANGED bankroll
      BY <1>1, <2>3, <2>6, PipelineQuiet DEF Updating
    <3> QED BY <2>1, <2>2, <3>1, WindowQuiet
  <2> QED BY <2>4, <2>5, <2>6
<1>2. ASSUME NEW j \in Jobs, JobStart(j) \/ JobRun(j) PROVE WindowBody'
  <2>1. WindowBody /\ j \in Actors
    BY <1>2, JobStepOthers DEF WindowInv, WindowBody, Actors
  <2>2. \A a \in Actors \ {j} : Updating(a)' = Updating(a) /\ got'[a] = got[a]
    <3>1. pc' = pc /\ \A i \in Jobs \ {j} : jpc'[i] = jpc[i]
      BY <1>2, JobStepOthers DEF pipeVars
    <3> QED BY <1>2, <3>1, JobStepOthers DEF Updating, Actors
  <2>3. CASE RestoreGet(j)
    BY <2>1, <2>2, <2>3, WindowRead DEF RestoreGet
  <2>4. CASE RestoreSet(j)
    <3>1. Updating(j) /\ ~Updating(j)'
      BY <2>4 DEF RestoreSet, JobGoto, Updating, TypeOK
    <3> QED BY <2>1, <2>2, <3>1, WindowWrite
  <2>5. CASE ~RestoreGet(j) /\ ~RestoreSet(j)
    <3>1. ~Updating(j)' /\ UNCHANGED bankroll
      BY <1>2, <2>5, JobQuiet DEF Updating
    <3> QED BY <2>1, <2>2, <3>1, WindowQuiet
  <2> QED BY <2>3, <2>4, <2>5
<1>3. CASE Crash
  <2>1. \A a \in Actors : ~Updating(a)'
    BY <1>3 DEF Crash, Updating, Actors
  <2> QED BY <2>1 DEF WindowBody
<1>4. CASE UNCHANGED vars
  BY <1>4 DEF vars, WindowInv, WindowBody, Updating
<1> QED BY <1>1, <1>2, <1>3, <1>4 DEF Next

LEMMA WindowInit == Init => WindowInv
  BY UpdatingIs DEF Init, WindowInv, Updating, Actors

-----------------------------------------------------------------------------
\* The peak

LEMMA HazardsOnlyGrow ==
  ASSUME TypeOK, [Next]_vars
  PROVE  hazard \subseteq hazard'
  BY PipelineFrame, JobStepOthers DEF Next, Crash, vars

PeakBody ==
    /\ \A i, j \in Jobs : InPeak(j) /\ (InPeak(i) \/ jpc[i] = "restoreSet") => i = j
    /\ \A j \in Jobs : jpc[j] = "peakSet" => got[j] > peak
    /\ peak >= bankroll \/ \E j \in Jobs : InPeak(j) /\ got[j] >= bankroll

\* Steps that do not touch the peak, of tasks and of jobs away from it.
LEMMA PeakAway ==
  ASSUME TypeOK, TypeOK', PeakBody, UNCHANGED peak, bankroll' <= bankroll,
         \A i \in Jobs : \/ jpc'[i] = jpc[i] /\ got'[i] = got[i]
                         \/ /\ jpc[i] \notin {"peakGet", "peakSet"}
                            /\ jpc'[i] \notin {"peakGet", "peakSet", "restoreSet"}
  PROVE  PeakBody'
<1>1. \A i \in Jobs : got[i] \in Nat /\ got'[i] \in Nat
  BY DEF TypeOK, Actors
<1>2. peak \in Nat /\ bankroll \in Nat /\ bankroll' \in Nat
  BY DEF TypeOK
<1>3. \A i \in Jobs : /\ InPeak(i)' <=> InPeak(i)
                      /\ InPeak(i) => got'[i] = got[i]
                      /\ jpc'[i] = "peakSet" => jpc[i] = "peakSet"
                      /\ jpc'[i] = "restoreSet" => jpc[i] = "restoreSet"
  BY DEF InPeak
<1>4. (\A i, j \in Jobs : InPeak(j) /\ (InPeak(i) \/ jpc[i] = "restoreSet") => i = j)'
  BY <1>3 DEF PeakBody
<1>5. (\A j \in Jobs : jpc[j] = "peakSet" => got[j] > peak)'
  BY <1>3 DEF PeakBody, InPeak
<1>6. (peak >= bankroll \/ \E j \in Jobs : InPeak(j) /\ got[j] >= bankroll)'
  <2>1. CASE peak >= bankroll
    BY <1>2, <2>1
  <2>2. ASSUME NEW j \in Jobs, InPeak(j), got[j] >= bankroll
        PROVE  InPeak(j)' /\ got'[j] >= bankroll'
    BY <1>1, <1>2, <1>3, <2>2
  <2> QED BY <2>1, <2>2 DEF PeakBody
<1> QED BY <1>4, <1>5, <1>6 DEF PeakBody

LEMMA PeakPipeline ==
  ASSUME TypeOK, TypeOK', WindowBody, PeakBody, NEW t \in Trades, Receive(t) \/ Pipeline(t)
  PROVE  PeakBody'
<1>1. UNCHANGED peak /\ \A i \in Jobs : jpc'[i] = jpc[i] /\ got'[i] = got[i]
  BY PipelineFrame, UpdatingIs DEF jobVars, Actors
<1>2. bankroll' <= bankroll
  <2>1. CASE DeductSet(t)
    <3>1. Updating(t) /\ t \in Actors
      BY <2>1, UpdatingIs DEF DeductSet, Goto, Actors
    <3>2. got[t] = bankroll /\ sig[t].size \in Nat
      BY <3>1, SizePositive DEF WindowBody, TypeOK
    <3> QED BY <2>1, <3>2 DEF DeductSet, Deducted, TypeOK
  <2>2. CASE ~DeductSet(t)
    <3>1. UNCHANGED bankroll
      BY <2>2, PipelineQuiet DEF DeductGet
    <3> QED BY <3>1 DEF TypeOK
  <2> QED BY <2>1, <2>2
<1> QED BY <1>1, <1>2, PeakAway

LEMMA PeakJob ==
  ASSUME TypeOK, TypeOK', WindowBody, PeakBody, hazard' \cap PeakHazards = {},
         NEW j \in Jobs, JobStart(j) \/ JobRun(j)
  PROVE  PeakBody'
<1>1. \A i \in Jobs \ {j} : jpc'[i] = jpc[i] /\ got'[i] = got[i]
  BY JobStepOthers DEF Actors
<1>2. peak \in Nat /\ bankroll \in Nat /\ \A i \in Jobs : got[i] \in Nat
  BY DEF TypeOK, Actors
<1>3. CASE RestoreGet(j)
  <2>1. jpc[j] = "restoreGet" /\ jpc'[j] = "restoreSet" /\ UNCHANGED <<peak, bankroll>>
    BY <1>3 DEF RestoreGet, JobGoto, TypeOK
  <2>2. \A i \in Jobs \ {j} : ~InPeak(i)
    BY <1>3 DEF RestoreGet, ReadBalance, PeakHazards
  <2>3. \A i \in Jobs : ~InPeak(i) /\ ~InPeak(i)'
    BY <1>1, <2>1, <2>2 DEF InPeak
  <2> QED BY <2>1, <2>3 DEF PeakBody, InPeak
<1>4. CASE RestoreSet(j)
  <2>1. jpc[j] = "restoreSet" /\ jpc'[j] = "peakGet" /\ UNCHANGED peak
    BY <1>4 DEF RestoreSet, JobGoto, TypeOK
  <2>2. got'[j] = bankroll'
    BY <1>4 DEF RestoreSet, TypeOK, Actors
  <2>3. \A i \in Jobs \ {j} : ~InPeak(i)
    BY <2>1 DEF PeakBody
  <2>4. \A i \in Jobs \ {j} : jpc[i] # "restoreSet"
    BY <2>1, UpdatingIs DEF WindowBody, Actors
  <2>5. InPeak(j)' /\ \A i \in Jobs \ {j} : ~InPeak(i)' /\ jpc'[i] # "restoreSet"
    BY <1>1, <2>1, <2>3, <2>4 DEF InPeak
  <2>6. bankroll' >= bankroll'
    BY DEF TypeOK
  <2> QED BY <2>1, <2>2, <2>5, <2>6 DEF PeakBody, InPeak
<1>5. CASE PeakGet(j) /\ got[j] > peak
  <2>1. jpc[j] = "peakGet" /\ jpc'[j] = "peakSet" /\ UNCHANGED <<peak, bankroll, got>>
    BY <1>2, <1>5 DEF PeakGet, JobGoto, TypeOK
  <2>2. \A i \in Jobs : InPeak(i)' = InPeak(i)
    BY <1>1, <2>1 DEF InPeak
  <2> QED BY <1>1, <1>5, <2>1, <2>2 DEF PeakBody
<1>6. CASE (PeakGet(j) /\ got[j] <= peak) \/ PeakSet(j)
  <2>1. jpc[j] \in {"peakGet", "peakSet"} /\ jpc'[j] \in {"idle", "loop"} /\ UNCHANGED bankroll
    BY <1>2, <1>6 DEF PeakGet, PeakSet, JobGoto, NextPosition, LoopPc, TypeOK
  <2>2. \A i \in Jobs \ {j} : ~InPeak(i) /\ jpc[i] # "restoreSet"
    BY <2>1 DEF PeakBody, InPeak
  <2>3. \A i \in Jobs : ~InPeak(i)'
    BY <1>1, <2>1, <2>2 DEF InPeak
  <2>4. peak >= bankroll \/ got[j] >= bankroll
    BY <2>2 DEF PeakBody
  <2>5. peak' >= peak /\ peak' >= got[j]
    <3>1. CASE PeakGet(j) /\ got[j] <= peak
      BY <1>2, <3>1 DEF PeakGet
    <3>2. CASE PeakSet(j)
      BY <1>2, <3>2 DEF PeakSet, PeakBody
    <3> QED BY <1>6, <3>1, <3>2
  <2>6. peak' >= bankroll'
    BY <1>2, <2>1, <2>4, <2>5 DEF TypeOK
  <2> QED BY <2>3, <2>6 DEF PeakBody, InPeak
<1>7. CASE ~RestoreGet(j) /\ ~RestoreSet(j) /\ ~PeakGet(j) /\ ~PeakSet(j)
  <2>1. ~PeakFails(j) /\ ~RestoreSetFails(j)
    BY DEF PeakFails, RestoreSetFails, PeakHazards
  <2>2. jpc[j] \notin {"peakGet", "peakSet"} /\ jpc'[j] \notin {"peakGet", "peakSet", "restoreSet"}
    BY <1>7, <2>1 DEF JobStart, JobRun, JobSkip, MarkQuote, FastExit, FastKeep, Resolve,
           Quote, Mark, Close, JobWriteFails, JobGoto, NextPosition, LoopPc, TypeOK
  <2>3. UNCHANGED <<bankroll, peak>>
    BY <1>7, <2>1 DEF JobStart, JobRun, JobSkip, MarkQuote, FastExit, FastKeep, Resolve,
           Quote, Mark, Close, JobWriteFails
  <2>4. bankroll' <= bankroll
    BY <1>2, <2>3
  <2> QED BY <1>1, <2>2, <2>3, <2>4, PeakAway
<1>8. PeakGet(j) => got[j] > peak \/ got[j] <= peak
  BY DEF PeakGet
<1> QED BY <1>3, <1>4, <1>5, <1>6, <1>7, <1>8

LEMMA PeakStep ==
  ASSUME TypeOK, WindowInv, PeakInv, [Next]_vars
  PROVE  PeakInv'
<1> SUFFICES ASSUME hazard' \cap PeakHazards = {} PROVE PeakBody'
  BY DEF PeakInv, PeakBody
<1>1. WindowBody /\ PeakBody
  BY HazardsOnlyGrow DEF WindowInv, WindowBody, PeakInv, PeakBody, PeakHazards
<1>2. TypeOK'
  BY TypeStep
<1>3. CASE Crash
  <2>1. \A j \in Jobs : ~InPeak(j)
    BY <1>3 DEF Crash, PeakHazards
  <2>2. (\A j \in Jobs : jpc[j] = "idle")' /\ UNCHANGED <<peak, bankroll>>
    BY <1>3 DEF Crash
  <2> QED BY <1>1, <2>1, <2>2 DEF PeakBody, InPeak
<1>4. CASE UNCHANGED vars
  BY <1>1, <1>4 DEF vars, jobVars, PeakBody, InPeak
<1> QED BY <1>1, <1>2, <1>3, <1>4, PeakPipeline, PeakJob DEF Next

\* A closing job leaves no balance above the peak, for any number of tasks,
\* jobs and crashes.
THEOREM PeakAlwaysCovers == Spec => []PeakCovers
<1>1. Init => TypeOK /\ WindowInv /\ PeakInv
  <2>1. Init => PeakInv
    BY MoneyAssumption DEF Init, PeakInv, InPeak
  <2> QED BY <2>1, TypeInit, WindowInit
<1>2. TypeOK /\ WindowInv /\ PeakInv /\ [Next]_vars => (TypeOK /\ WindowInv /\ PeakInv)'
  BY TypeStep, WindowStep, PeakStep
<1>3. PeakInv => PeakCovers
  BY DEF PeakInv, PeakCovers, PeakSettled
<1> QED BY <1>1, <1>2, <1>3, PTL DEF Spec

RaiseBody ==
    /\ \A i, j \in Jobs : InRaise(i) /\ InRaise(j) => i = j
    /\ \A j \in Jobs : jpc[j] = "peakSet" => got[j] > peak

\* A job that enters is alone, or a hazard has occurred; one that goes on was.
LEMMA RaiseJob ==
  ASSUME TypeOK, RaiseBody, hazard' \cap {"lostUpdate", "stalePeak"} = {},
         NEW j \in Jobs, JobStart(j) \/ JobRun(j)
  PROVE  RaiseBody'
<1>1. \A i \in Jobs \ {j} : jpc'[i] = jpc[i] /\ got'[i] = got[i]
  BY JobStepOthers DEF Actors
<1>2. \A i \in Jobs \ {j} : InRaise(i)' <=> InRaise(i)
  BY <1>1 DEF InRaise, InPeak
<1>3. CASE RestoreGet(j)
  <2>1. jpc'[j] = "restoreSet" /\ UNCHANGED peak
    BY <1>3 DEF RestoreGet, JobGoto, TypeOK
  <2>2. \A i \in Jobs \ {j} : ~InPeak(i)
    BY <1>3 DEF RestoreGet, ReadBalance
  <2>3. \A i \in Jobs \ {j} : jpc[i] # "restoreSet"
    <3>1. Overlap(j) = {}
      BY <1>3 DEF RestoreGet, ReadBalance, Overlap
    <3> QED BY <3>1, UpdatingIs DEF Overlap, Actors
  <2>4. \A i \in Jobs \ {j} : ~InRaise(i)'
    BY <1>2, <2>2, <2>3 DEF InRaise
  <2> QED BY <1>1, <2>1, <2>4 DEF RaiseBody
<1>4. CASE RestoreSet(j) \/ (PeakGet(j) /\ got[j] > peak)
  <2>1. InRaise(j) /\ UNCHANGED peak
    BY <1>4 DEF RestoreSet, PeakGet, JobGoto, InRaise, InPeak
  <2>2. jpc'[j] = "peakSet" => got[j] > peak /\ got'[j] = got[j]
    <3>1. CASE RestoreSet(j)
      BY <3>1 DEF RestoreSet, JobGoto, TypeOK
    <3>2. CASE PeakGet(j) /\ got[j] > peak
      BY <3>2 DEF PeakGet, JobGoto, NextPosition, LoopPc, TypeOK
    <3> QED BY <1>4, <3>1, <3>2
  <2> QED BY <1>1, <1>2, <2>1, <2>2 DEF RaiseBody
<1>5. CASE PeakSet(j)
  <2>1. InRaise(j) /\ jpc'[j] # "peakSet"
    BY <1>5 DEF PeakSet, NextPosition, LoopPc, InRaise, InPeak, TypeOK
  <2>2. \A i \in Jobs \ {j} : ~InRaise(i)'
    BY <1>2, <2>1 DEF RaiseBody
  <2> QED BY <2>1, <2>2 DEF RaiseBody, InRaise, InPeak
<1>6. CASE ~RestoreGet(j) /\ ~RestoreSet(j) /\ ~PeakSet(j) /\ ~(PeakGet(j) /\ got[j] > peak)
  <2>1. UNCHANGED peak /\ jpc'[j] \notin {"restoreSet", "peakGet", "peakSet"}
    <3>1. CASE PeakGet(j)
      BY <1>6, <3>1 DEF PeakGet, NextPosition, LoopPc, TypeOK
    <3>2. CASE ~PeakGet(j)
      BY <1>6, <3>2 DEF JobStart, JobRun, JobSkip, MarkQuote, FastExit, FastKeep, Resolve,
             Quote, Mark, Close, JobWriteFails, RestoreSetFails, PeakFails, JobGoto,
             NextPosition, LoopPc, TypeOK
    <3> QED BY <3>1, <3>2
  <2>2. ~InRaise(j)'
    BY <2>1 DEF InRaise, InPeak
  <2> QED BY <1>1, <1>2, <2>1, <2>2 DEF RaiseBody
<1> QED BY <1>3, <1>4, <1>5, <1>6

LEMMA RaiseStep ==
  ASSUME TypeOK, RaiseInv, [Next]_vars
  PROVE  RaiseInv'
<1> SUFFICES ASSUME hazard' \cap {"lostUpdate", "stalePeak"} = {} PROVE RaiseBody'
  BY DEF RaiseInv, RaiseBody
<1>1. RaiseBody
  BY HazardsOnlyGrow DEF RaiseInv, RaiseBody
<1>2. ASSUME NEW t \in Trades, Receive(t) \/ Pipeline(t) PROVE RaiseBody'
  <2>1. UNCHANGED peak /\ \A i \in Jobs : jpc'[i] = jpc[i] /\ got'[i] = got[i]
    BY <1>2, PipelineFrame, UpdatingIs DEF jobVars, Actors
  <2> QED BY <1>1, <2>1 DEF RaiseBody, InRaise, InPeak
<1>3. CASE Crash
  BY <1>3 DEF Crash, RaiseBody, InRaise, InPeak
<1>4. CASE UNCHANGED vars
  BY <1>1, <1>4 DEF vars, jobVars, RaiseBody, InRaise, InPeak
<1> QED BY <1>1, <1>2, <1>3, <1>4, RaiseJob DEF Next

\* Who writes the peak found it lower.
LEMMA RaiseOnly ==
  ASSUME TypeOK, RaiseInv, [Next]_vars, {"lostUpdate", "stalePeak"} \cap hazard = {}
  PROVE  peak' >= peak
<1>1. RaiseBody /\ peak \in Nat /\ \A j \in Jobs : got[j] \in Nat
  BY DEF RaiseInv, RaiseBody, TypeOK, Actors
<1>2. ASSUME NEW j \in Jobs, JobStart(j) \/ JobRun(j), ~PeakSet(j) PROVE UNCHANGED peak
  BY <1>2 DEF JobStart, JobRun, JobSkip, MarkQuote, FastExit, FastKeep, Resolve, Quote, Mark,
         Close, JobWriteFails, RestoreGet, RestoreSet, RestoreSetFails, PeakGet, PeakFails
<1>3. ASSUME NEW j \in Jobs, PeakSet(j) PROVE peak' >= peak
  BY <1>1, <1>3 DEF PeakSet, RaiseBody
<1>4. ASSUME NEW t \in Trades, Receive(t) \/ Pipeline(t) PROVE UNCHANGED peak
  BY <1>4, PipelineFrame
<1>5. Crash \/ UNCHANGED vars => UNCHANGED peak
  BY DEF Crash, vars
<1> QED BY <1>1, <1>2, <1>3, <1>4, <1>5 DEF Next

\* The peak never falls, for any number of tasks, jobs and crashes, unless a
\* restore overlapped another update or a comparison with the peak.
THEOREM PeakOnlyRises == Spec => PeakNeverFalls
<1>1. Init => RaiseInv
  BY DEF Init, RaiseInv, InRaise, InPeak
<1>2. TypeOK /\ RaiseInv /\ [Next]_vars => (TypeOK /\ RaiseInv)'
  BY TypeStep, RaiseStep
<1>3. TypeOK /\ RaiseInv /\ [Next]_vars
        => [{"lostUpdate", "stalePeak"} \cap hazard = {} => peak' >= peak]_vars
  BY RaiseOnly
<1> QED BY <1>1, <1>2, <1>3, TypeInit, PTL DEF Spec, PeakNeverFalls

-----------------------------------------------------------------------------
\* The balance

LEMMA AccountTypes ==
  ASSUME TypeOK
  PROVE  /\ Taken \subseteq Trades /\ IsFiniteSet(Taken)
         /\ Returned \subseteq Trades /\ IsFiniteSet(Returned)
         /\ \A t \in Trades : Stakes[t] \in Nat /\ Payouts[t] \in Nat
         /\ SumOf(Stakes, Taken) \in Nat /\ SumOf(Payouts, Returned) \in Nat
         /\ Accounted \in Int
<1>1. Taken \subseteq Trades /\ Returned \subseteq Trades
  BY DEF Taken, Returned, Inserted, Closed
<1>2. IsFiniteSet(Taken) /\ IsFiniteSet(Returned)
  BY <1>1, TradesFinite, FS_Subset
<1>3. ASSUME NEW t \in Trades PROVE Stakes[t] \in Nat /\ Payouts[t] \in Nat
  <2>1. sig[t].size \in Nat /\ row[t].exit \in Nat
    BY SizePositive DEF TypeOK, RowType
  <2>2. Proceeds(t, row[t].exit) \in Nat
    BY <2>1, ProceedsNat
  <2> QED BY <2>1, <2>2 DEF Stakes, Payouts
<1>4. SumOf(Stakes, Taken) \in Nat
  BY <1>1, <1>2, <1>3, SumType
<1>5. SumOf(Payouts, Returned) \in Nat
  BY <1>1, <1>2, <1>3, SumType
<1> QED BY <1>1, <1>2, <1>3, <1>4, <1>5, MoneyAssumption DEF Accounted

LEMMA PrimedAccount ==
  Accounted' = Bank - SumOf(Stakes', Taken') + SumOf(Payouts', Returned')
  BY DEF Accounted, SumOf

\* Trades that arrive, are priced, marked or skipped do not change the account.
LEMMA AccountSame ==
  ASSUME Taken' = Taken, Returned' = Returned,
         \A t \in Taken : Stakes'[t] = Stakes[t],
         \A t \in Returned : Payouts'[t] = Payouts[t]
  PROVE  Accounted' = Accounted
<1>1. SumOf(Stakes', Taken) = SumOf(Stakes, Taken)
  BY SumSame
<1>2. SumOf(Payouts', Returned) = SumOf(Payouts, Returned)
  BY SumSame
<1> QED BY <1>1, <1>2, PrimedAccount DEF Accounted

LEMMA AccountTaken ==
  ASSUME TypeOK, NEW x \in Trades, x \notin Taken, Taken' = Taken \cup {x},
         Returned' = Returned, UNCHANGED <<sig, fill, row>>
  PROVE  Accounted' = Accounted - sig[x].size
<1>1. Stakes' = Stakes /\ Payouts' = Payouts
  BY DEF Stakes, Payouts, Proceeds, Shares
<1>2. \A t \in Taken \cup {x} : Stakes[t] \in Nat
  BY AccountTypes
<1>3. SumOf(Stakes, Taken \cup {x}) = SumOf(Stakes, Taken) + Stakes[x]
  BY <1>2, AccountTypes, SumAdd
<1>4. Stakes[x] = sig[x].size /\ Stakes[x] \in Nat
  BY AccountTypes DEF Stakes
<1> QED BY <1>1, <1>3, <1>4, PrimedAccount, AccountTypes, MoneyAssumption DEF Accounted

LEMMA AccountReturned ==
  ASSUME TypeOK, NEW x \in Trades, x \notin Returned, Returned' = Returned \cup {x},
         Taken' = Taken, UNCHANGED <<sig, fill, row>>
  PROVE  Accounted' = Accounted + Proceeds(x, row[x].exit)
<1>1. Stakes' = Stakes /\ Payouts' = Payouts
  BY DEF Stakes, Payouts, Proceeds, Shares
<1>2. \A t \in Returned \cup {x} : Payouts[t] \in Nat
  BY AccountTypes
<1>3. SumOf(Payouts, Returned \cup {x}) = SumOf(Payouts, Returned) + Payouts[x]
  BY <1>2, AccountTypes, SumAdd
<1>4. Payouts[x] = Proceeds(x, row[x].exit) /\ Payouts[x] \in Nat
  BY AccountTypes DEF Payouts
<1> QED BY <1>1, <1>3, <1>4, PrimedAccount, AccountTypes, MoneyAssumption DEF Accounted

AccountBody ==
    /\ DueRows /\ OwedRows /\ OwedOnce
    /\ bankroll >= Accounted
    /\ "shortfall" \notin hazard => bankroll = Accounted

LEMMA AccountQuiet ==
  ASSUME AccountBody, Accounted' = Accounted, UNCHANGED bankroll, hazard \subseteq hazard',
         DueRows', OwedRows', OwedOnce'
  PROVE  AccountBody'
  BY DEF AccountBody

LEMMA AccountPipeline ==
  ASSUME TypeOK, RowPlaced, WindowBody, AccountBody, "redis" \notin hazard',
         NEW t \in Trades, Receive(t) \/ Pipeline(t)
  PROVE  AccountBody'
<1>1. UNCHANGED jobVars /\ hazard \subseteq hazard'
      /\ \A u \in Trades \ {t} : pc'[u] = pc[u] /\ sig'[u] = sig[u] /\ fill'[u] = fill[u]
                                 /\ row'[u] = row[u]
  BY PipelineFrame
<1>2. ~DeductSetFails(t)
  BY DEF DeductSetFails
<1>3. \A u \in Trades : row'[u] = row[u] \/ (u = t /\ Insert(t))
  BY <1>1 DEF Receive, Pipeline, Acquire, LookupDuplicate, LookupFree, LookupFails,
     CashShort, CashEnough, FetchBook, PriceRejected, InsertFails, DeductGet,
     DeductSet, DeductSetFails, Alert
<1>4. Insert(t) => row[t].status = "ABSENT" /\ row'[t].status = "OPEN" /\ Due(t)'
  BY DEF Insert, Goto, RowPlaced, TypeOK, RowType, Due
<1>5. \A u \in Trades : row'[u].status = "CLOSED" <=> row[u].status = "CLOSED"
  BY <1>3, <1>4
<1>6. Returned' = Returned
  BY <1>1, <1>5 DEF Returned, Closed, Owes, jobVars
<1>7. OwedOnce'
  BY <1>1 DEF AccountBody, OwedOnce, Owes, jobVars
<1>8. OwedRows'
  <2>1. \A j \in Jobs : Owes(j) => cur[j] \in Trades /\ row[cur[j]].status = "CLOSED"
                                  /\ row[cur[j]].exit = quote[j]
    BY DEF AccountBody, OwedRows, Owes, TypeOK, JobBound
  <2>2. \A u \in Trades : row[u].status = "CLOSED" => row'[u] = row[u]
    BY <1>3, <1>4
  <2> QED BY <1>1, <2>1, <2>2 DEF OwedRows, Owes, jobVars
<1>9. \A u \in Trades : row[u].status # "ABSENT" => sig'[u] = sig[u] /\ fill'[u] = fill[u]
  <2>1. row[t].status # "ABSENT" => sig'[t] = sig[t] /\ fill'[t] = fill[t]
    BY DEF RowPlaced, Receive, Pipeline, Acquire, LookupDuplicate, LookupFree, LookupFails,
       CashShort, CashEnough, FetchBook, PriceRejected, Insert, InsertFails, DeductGet,
       DeductSet, DeductSetFails, Alert, Goto
  <2> QED BY <1>1, <2>1
<1>10. (\A u \in Taken : Stakes'[u] = Stakes[u]) /\ \A u \in Returned : Payouts'[u] = Payouts[u]
  <2>1. \A u \in Taken : u \in Trades /\ row[u].status # "ABSENT"
    BY DEF Taken, Inserted
  <2>2. \A u \in Returned : u \in Trades /\ row[u].status = "CLOSED"
    BY DEF Returned, Closed
  <2>3. \A u \in Returned : row'[u] = row[u]
    BY <1>3, <1>4, <2>2
  <2> QED BY <1>9, <2>1, <2>2, <2>3 DEF Stakes, Payouts, Proceeds, Shares
<1>11. CASE DeductSet(t)
  <2>1. Due(t) /\ ~Due(t)' /\ UNCHANGED <<sig, fill, row>> /\ Updating(t) /\ t \in Actors
    BY <1>11, UpdatingIs DEF DeductSet, Goto, Due, TypeOK, Actors
  <2>2. row[t].status # "ABSENT"
    BY <2>1 DEF AccountBody, DueRows
  <2>3. t \notin Taken /\ Taken' = Taken \cup {t}
    BY <1>1, <2>1, <2>2 DEF Taken, Inserted, Due
  <2>4. Accounted' = Accounted - sig[t].size
    BY <1>6, <2>1, <2>3, AccountTaken
  <2>5. got[t] = bankroll /\ bankroll \in Nat /\ sig[t].size \in Nat
    BY <2>1, SizePositive DEF WindowBody, TypeOK
  <2>6. DueRows'
    BY <1>1, <2>1 DEF AccountBody, DueRows, Due
  <2>7. CASE got[t] >= sig[t].size
    <3>1. bankroll' = bankroll - sig[t].size
      BY <1>11, <2>5, <2>7 DEF DeductSet, Deducted
    <3> QED BY <1>1, <1>7, <1>8, <2>4, <2>5, <2>6, <3>1, AccountTypes DEF AccountBody
  <2>8. CASE got[t] < sig[t].size
    <3>1. bankroll' = 0 /\ "shortfall" \in hazard'
      BY <1>11, <2>5, <2>8 DEF DeductSet, Deducted
    <3> QED BY <1>7, <1>8, <2>4, <2>5, <2>6, <2>8, <3>1, AccountTypes DEF AccountBody
  <2> QED BY <2>5, <2>7, <2>8
<1>12. CASE ~DeductSet(t)
  <2>1. UNCHANGED bankroll
    BY <1>12, PipelineQuiet DEF DeductGet
  <2>2. Due(t)' <=> (Due(t) \/ Insert(t))
    BY <1>2, <1>12 DEF Due, Receive, Pipeline, Acquire, LookupDuplicate, LookupFree, LookupFails,
       CashShort, CashEnough, FetchBook, PriceRejected, Insert, InsertFails, DeductGet,
       Alert, Goto, Leave, TypeOK
  <2>3. DueRows'
    BY <1>1, <1>3, <1>4, <2>2 DEF AccountBody, DueRows, Due
  <2>4. Taken' = Taken
    <3>1. \A u \in Trades \ {t} : Due(u)' = Due(u) /\ row'[u] = row[u]
      BY <1>1 DEF Due
    <3> QED BY <1>3, <1>4, <2>2, <3>1 DEF Taken, Inserted
  <2>5. Accounted' = Accounted
    BY <1>6, <1>10, <2>4, AccountSame
  <2> QED BY <1>1, <1>7, <1>8, <2>1, <2>3, <2>5, AccountQuiet
<1> QED BY <1>11, <1>12

LEMMA AccountJob ==
  ASSUME TypeOK, JobRows, WindowBody, AccountBody, NEW j \in Jobs, JobStart(j) \/ JobRun(j),
         hazard' \cap {"redis", "doubleClose"} = {}
  PROVE  AccountBody'
<1>1. UNCHANGED <<pc, sig, fill>> /\ hazard \subseteq hazard'
      /\ \A i \in Jobs \ {j} : jpc'[i] = jpc[i] /\ cur'[i] = cur[i] /\ quote'[i] = quote[i]
  BY JobStepOthers DEF pipeVars
<1>2. ~RestoreSetFails(j) /\ ~PeakFails(j)
  BY DEF RestoreSetFails, PeakFails
<1>3. CASE Close(j)
  <2>1. jpc[j] = "close" /\ jpc'[j] = "restoreGet" /\ UNCHANGED <<cur, quote, bankroll>>
        /\ row' = [row EXCEPT ![cur[j]] =
                      [status |-> "CLOSED", unrealized |-> 0, exit |-> quote[j]]]
    BY <1>3 DEF Close, JobGoto, TypeOK
  <2>2. cur[j] \in Trades /\ row[cur[j]].status = "OPEN"
    <3>1. cur[j] \in Trades /\ row[cur[j]].status # "ABSENT"
      BY <2>1 DEF TypeOK, JobBound, JobRows
    <3>2. row[cur[j]].status # "CLOSED"
      BY <1>3 DEF Close
    <3> QED BY <3>1, <3>2 DEF TypeOK, RowType
  <2>3. /\ \A u \in Trades \ {cur[j]} : row'[u] = row[u]
        /\ row'[cur[j]].status = "CLOSED" /\ row'[cur[j]].exit = quote[j]
    BY <2>1, <2>2 DEF TypeOK
  <2>4. \A i \in Jobs : Owes(i) => cur[i] \in Trades \ {cur[j]} /\ i # j
    BY <2>1, <2>2 DEF AccountBody, OwedRows, Owes, TypeOK, JobBound
  <2>5. \A i \in Jobs : Owes(i)' <=> (Owes(i) \/ i = j)
    BY <1>1, <2>1 DEF Owes
  <2>6. OwedRows'
    BY <2>1, <2>3, <2>4, <2>5 DEF AccountBody, OwedRows
  <2>7. OwedOnce'
    BY <2>1, <2>4, <2>5 DEF AccountBody, OwedOnce
  <2>8. DueRows'
    BY <1>1, <2>3 DEF AccountBody, DueRows, Due
  <2>9. Taken' = Taken
    BY <1>1, <2>2, <2>3 DEF Taken, Inserted, Due
  <2>10. cur[j] \notin Returned
    BY <2>2 DEF Returned, Closed
  <2>11. Closed' = Closed \cup {cur[j]}
    BY <2>2, <2>3 DEF Closed
  <2>12. Returned' = Returned
    BY <2>1, <2>5, <2>10, <2>11 DEF Returned
  <2>13. \A u \in Returned : Payouts'[u] = Payouts[u]
    BY <1>1, <2>3, <2>10 DEF Payouts, Proceeds, Shares, Returned, Closed
  <2>14. \A u \in Taken : Stakes'[u] = Stakes[u]
    BY <1>1 DEF Stakes
  <2>15. Accounted' = Accounted
    BY <2>9, <2>12, <2>13, <2>14, AccountSame
  <2> QED BY <1>1, <2>1, <2>6, <2>7, <2>8, <2>15, AccountQuiet
<1>4. CASE ~Close(j)
  <2>1. \A u \in Trades : row'[u].status = row[u].status /\ row'[u].exit = row[u].exit
    BY <1>4 DEF JobStart, JobRun, JobSkip, MarkQuote, FastExit, FastKeep, Resolve, Quote,
       Mark, JobWriteFails, RestoreGet, RestoreSet, RestoreSetFails, PeakGet, PeakSet,
       PeakFails, TypeOK, RowType
  <2>2. Taken' = Taken /\ Inserted' = Inserted /\ Closed' = Closed
    BY <1>1, <2>1 DEF Taken, Inserted, Closed, Due
  <2>3. Stakes' = Stakes /\ Payouts' = Payouts
    BY <1>1, <2>1 DEF Stakes, Payouts, Proceeds, Shares
  <2>4. DueRows'
    BY <1>1, <2>1 DEF AccountBody, DueRows, Due
  <2>5. \A i \in Jobs : Owes(i) => cur[i] \in Trades
    BY DEF Owes, TypeOK, JobBound
  <2>6. CASE RestoreSet(j)
    <3>1. jpc[j] = "restoreSet" /\ jpc'[j] = "peakGet" /\ UNCHANGED <<row, cur, quote>>
          /\ bankroll' = got[j] + Proceeds(cur[j], quote[j])
      BY <2>6 DEF RestoreSet, JobGoto, TypeOK
    <3>2. Owes(j) /\ cur[j] \in Trades /\ \A i \in Jobs : Owes(i)' <=> (Owes(i) /\ i # j)
      BY <1>1, <2>5, <3>1 DEF Owes
    <3>3. row[cur[j]].status = "CLOSED" /\ row[cur[j]].exit = quote[j]
      BY <3>2 DEF AccountBody, OwedRows
    <3>4. \A i \in Jobs : Owes(i) /\ cur[i] = cur[j] => i = j
      BY <3>2 DEF AccountBody, OwedOnce
    <3>5. cur[j] \notin Returned /\ cur[j] \in Closed
      BY <3>2, <3>3 DEF Returned, Closed
    <3>6. Returned' = Returned \cup {cur[j]}
      BY <2>2, <3>1, <3>2, <3>4, <3>5 DEF Returned
    <3>7. Accounted' = Accounted + Proceeds(cur[j], quote[j])
      BY <1>1, <2>2, <3>1, <3>2, <3>3, <3>5, <3>6, AccountReturned
    <3>8. got[j] = bankroll
      BY <3>1, UpdatingIs DEF WindowBody, Actors
    <3>9. Proceeds(cur[j], quote[j]) \in Nat /\ bankroll \in Nat /\ Accounted \in Int
      BY <3>2, ProceedsNat, AccountTypes DEF TypeOK
    <3>10. OwedRows' /\ OwedOnce'
      BY <3>1, <3>2 DEF AccountBody, OwedRows, OwedOnce
    <3> QED BY <1>1, <2>4, <3>1, <3>7, <3>8, <3>9, <3>10 DEF AccountBody
  <2>7. CASE ~RestoreSet(j)
    <3>1. UNCHANGED bankroll
      BY <2>7, JobQuiet DEF RestoreGet
    <3>2. Owes(j)' <=> Owes(j)
      BY <1>2, <1>4, <2>7 DEF Owes, JobStart, JobRun, JobSkip, MarkQuote, FastExit, FastKeep,
         Resolve, Quote, Mark, JobWriteFails, RestoreGet, PeakGet, PeakSet, JobGoto,
         NextPosition, LoopPc, TypeOK
    <3>3. Owes(j) => cur'[j] = cur[j] /\ quote'[j] = quote[j]
      BY <1>2, <1>4, <2>7 DEF Owes, JobStart, JobRun, JobSkip, MarkQuote, FastExit, FastKeep,
         Resolve, Quote, Mark, JobWriteFails, RestoreGet, PeakGet, PeakSet, JobGoto
    <3>4. \A i \in Jobs : /\ Owes(i)' <=> Owes(i)
                          /\ Owes(i) => cur'[i] = cur[i] /\ quote'[i] = quote[i]
      <4>1. \A i \in Jobs \ {j} : Owes(i)' <=> Owes(i)
        BY <1>1 DEF Owes
      <4> QED BY <1>1, <3>2, <3>3, <4>1
    <3>5. OwedRows' /\ OwedOnce'
      BY <2>1, <2>5, <3>4 DEF AccountBody, OwedRows, OwedOnce
    <3>6. Returned' = Returned
      BY <2>2, <3>4 DEF Returned
    <3>7. Accounted' = Accounted
      BY <2>2, <2>3, <3>6, AccountSame
    <3> QED BY <1>1, <2>4, <3>1, <3>5, <3>7, AccountQuiet
  <2> QED BY <2>6, <2>7
<1> QED BY <1>3, <1>4

LEMMA AccountCrash ==
  ASSUME TypeOK, AccountBody, Crash, "crashMidUpdate" \notin hazard'
  PROVE  AccountBody'
<1>1. UNCHANGED <<sig, fill, row, bankroll>> /\ hazard \subseteq hazard'
  BY DEF Crash
<1>2. (\A t \in Trades : ~Due(t)) /\ \A j \in Jobs : ~Owes(j)
  BY DEF Crash, PendingUpdate, Due, Owes
<1>3. (\A t \in Trades : ~Due(t))' /\ (\A j \in Jobs : ~Owes(j))'
  BY DEF Crash, Due, Owes, TypeOK
<1>4. Taken' = Taken /\ Returned' = Returned
  BY <1>1, <1>2, <1>3 DEF Taken, Returned, Inserted, Closed
<1>5. Stakes' = Stakes /\ Payouts' = Payouts
  BY <1>1 DEF Stakes, Payouts, Proceeds, Shares
<1>6. Accounted' = Accounted
  BY <1>4, <1>5, AccountSame
<1>7. DueRows' /\ OwedRows' /\ OwedOnce'
  BY <1>3 DEF DueRows, OwedRows, OwedOnce
<1> QED BY <1>1, <1>6, <1>7, AccountQuiet

LEMMA AccountStep ==
  ASSUME TypeOK, SlotInv, WindowInv, AccountInv, [Next]_vars
  PROVE  AccountInv'
<1> SUFFICES ASSUME hazard' \cap (AccountHazards \ {"shortfall"}) = {}
             PROVE  AccountBody'
  BY DEF AccountInv, AccountBody
<1>1. WindowBody /\ AccountBody
  BY HazardsOnlyGrow DEF WindowInv, WindowBody, AccountInv, AccountBody, AccountHazards
<1>2. RowPlaced /\ JobRows
  BY DEF SlotInv
<1>3. hazard' \cap {"redis", "doubleClose", "crashMidUpdate"} = {}
  BY DEF AccountHazards
<1>4. CASE UNCHANGED vars
  <2>1. Taken' = Taken /\ Returned' = Returned /\ Stakes' = Stakes /\ Payouts' = Payouts
    BY <1>4 DEF vars, Taken, Returned, Stakes, Payouts, Inserted, Closed, Due, Owes,
           Proceeds, Shares
  <2>2. Accounted' = Accounted
    BY <2>1, AccountSame
  <2> QED BY <1>1, <1>4, <2>2 DEF vars, AccountBody, DueRows, OwedRows, OwedOnce, Due, Owes
<1> QED BY <1>1, <1>2, <1>3, <1>4, AccountPipeline, AccountJob, AccountCrash DEF Next

LEMMA AccountInit == Init => AccountInv
<1> SUFFICES ASSUME Init PROVE AccountInv
  OBVIOUS
<1>1. Taken = {} /\ Returned = {}
  BY DEF Init, Taken, Returned, Inserted, Closed, NoRow
<1>2. SumOf(Stakes, {}) = 0 /\ SumOf(Payouts, {}) = 0
  BY SumEmpty
<1>3. bankroll = Accounted
  BY <1>1, <1>2, MoneyAssumption DEF Accounted, Init
<1>4. DueRows /\ OwedRows /\ OwedOnce
  BY DEF Init, DueRows, OwedRows, OwedOnce, Due, Owes
<1> QED BY <1>3, <1>4, MoneyAssumption DEF AccountInv, Init

\* The inductive invariant of the balance.
THEOREM AccountInvariant == Spec => [](TypeOK /\ SlotInv /\ WindowInv /\ AccountInv)
<1>1. Init => TypeOK /\ SlotInv /\ WindowInv /\ AccountInv
  BY TypeInit, SlotInit, WindowInit, AccountInit
<1>2. TypeOK /\ SlotInv /\ WindowInv /\ AccountInv /\ [Next]_vars
        => (TypeOK /\ SlotInv /\ WindowInv /\ AccountInv)'
  BY TypeStep, SlotStep, WindowStep, AccountStep
<1> QED BY <1>1, <1>2, PTL DEF Spec

\* With no update under way everything committed is taken or paid back.
LEMMA SettledAccount ==
  ASSUME Settled
  PROVE  Accounted = BookBalance
<1>1. Taken = Inserted /\ Returned = Closed
  BY DEF Settled, PendingUpdate, Taken, Returned, Inserted, Closed, Due, Owes
<1> QED BY <1>1 DEF Accounted, BookBalance

\* The balance is the one the positions account for, for any number of tasks,
\* jobs, faults and crashes, unless one of the five hazards occurred.
THEOREM AccountIsExact == Spec => []AccountExact
<1>1. AccountInv => AccountExact
  BY SettledAccount DEF AccountInv, AccountExact, BankrollMatchesBook, AccountHazards
<1> QED BY <1>1, AccountInvariant, PTL

\* Clamping at zero only ever leaves the account with more than it should have.
THEOREM ClampsForgive == Spec => []ClampOnlyForgives
<1>1. AccountInv => ClampOnlyForgives
  BY SettledAccount DEF AccountInv, ClampOnlyForgives, AccountHazards
<1> QED BY <1>1, AccountInvariant, PTL
=============================================================================
