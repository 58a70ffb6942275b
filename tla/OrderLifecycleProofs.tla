------------------------ MODULE OrderLifecycleProofs ------------------------
(***************************************************************************)
(* Proofs about OrderLifecycle, for any number of orders, requests, rounds,*)
(* faults and crashes.                                                     *)
(***************************************************************************)
EXTENDS OrderRecords, TLAPS

-----------------------------------------------------------------------------
\* Type correctness

\* the actors: an order's tasks and the two jobs have different names
LEMMA ActorKinds ==
  ASSUME NEW t \in Orders
  PROVE  t \notin Jobs /\ t \in Actors /\ "poll" \in Jobs /\ "stale" \in Jobs
  BY OrdersAssumption DEF Actors, Jobs

LEMMA TypeInit == Init => OrderTypeOK
  BY OrdersAssumption, BoundsAssumption
  DEF Init, OrderTypeOK, Actors, Jobs, PcValues, TaskPcs, JobPcs, Busy, Placing,
      Deciding, ExchStates, OrderStates, RoundBound, HazardKinds

\* What the exchange reports of an order is a status to act on or PENDING.
LEMMA ReportedKinds ==
  ASSUME NEW t \in Orders
  PROVE  Reported(t) \in {"FILLED", "CANCELLED", "EXPIRED", "PENDING"}
  BY DEF Reported

\* Placing an order keeps the types.
LEMMA TypePlace ==
  ASSUME OrderTypeOK, NEW t \in Orders, Execute(t) \/ Place(t) \/ WatchPoll(t)
  PROVE  OrderTypeOK'
<1> USE BoundsAssumption, ActorKinds
<1> USE DEF OrderTypeOK, Goto, rows, NextSend, Busy, RoundBound, Placing, Deciding,
            PcValues, TaskPcs, JobPcs, HazardKinds, Attempts, ExchStates
<1>1. CASE Execute(t)
  BY <1>1 DEF Execute
<1>2. CASE SignFails(t)
  BY <1>2 DEF SignFails
<1>3. CASE PostAccepted(t)
  BY <1>3 DEF PostAccepted, AnsweredSend
<1>4. CASE PostRefused(t)
  BY <1>4 DEF PostRefused, NoIdNext
<1>5. CASE PostFails(t)
  <2>1. pc' = [pc EXCEPT ![t] = "post"] \/ pc' = [pc EXCEPT ![t] = "done"]
    BY <1>5 DEF PostFails, AfterFailure
  <2>2. exch' \in [Attempts -> ExchStates] /\ hazard' \subseteq HazardKinds
    BY <1>5 DEF PostFails
  <2>3. /\ UNCHANGED <<id, order, position, polls, aged, todo, cur, dbFaults, crashes>>
        /\ sends' \in [Orders -> 0 .. MaxSends]
        /\ pc[t] = "post"
    BY <1>5 DEF PostFails
  <2>4. CASE pc' = [pc EXCEPT ![t] = "post"]
    <3>1. pc' = pc
      BY <2>3, <2>4
    <3> QED BY <2>2, <2>3, <3>1
  <2>5. CASE pc' = [pc EXCEPT ![t] = "done"]
    BY <2>2, <2>3, <2>5
  <2> QED BY <2>1, <2>4, <2>5
<1>6. CASE Record(t)
  BY <1>6 DEF Record, OrderStates
<1>7. CASE RecordFails(t)
  BY <1>7 DEF RecordFails, DbFault
<1>9. CASE PostUnread(t)
  BY <1>9 DEF PostUnread, NoIdNext
<1>8. CASE WatchPoll(t)
  <2>1. \E to \in {"FILLED", "CANCELLED", "EXPIRED", "watch", "cancel"} :
            /\ pc' = [pc EXCEPT ![t] = to]
            /\ to = "watch" => polls[t] + 1 # MaxPolls
    BY <1>8, ReportedKinds DEF WatchPoll, NextRound
  <2>2. /\ pc[t] = "watch"
        /\ polls' = [polls EXCEPT ![t] = @ + 1]
        /\ polls[t] < MaxPolls
    BY <1>8 DEF WatchPoll
  <2>3. UNCHANGED <<sends, id, exch, order, position, aged, todo, cur, dbFaults,
                    crashes, hazard>>
    BY <1>8 DEF WatchPoll
  <2> QED BY <2>1, <2>2, <2>3
<1> QED BY <1>1, <1>2, <1>3, <1>4, <1>5, <1>6, <1>7, <1>8, <1>9 DEF Place

\* An actor that decided something works on a recorded name.
LEMMA OnOrder ==
  ASSUME OrderTypeOK, NEW a \in Actors, Busy(a)
  PROVE  On(a) \in Orders
  BY ActorKinds DEF OrderTypeOK, On, Actors

\* When an actor is done with an order, pc and cur keep their types.
LEMMA TypeFinish ==
  ASSUME OrderTypeOK, NEW a \in Actors, Finish(a)
  PROVE  /\ pc' \in [Actors -> PcValues]
         /\ cur' \in [Jobs -> Orders \cup {NoOrder}]
         /\ \A t \in Orders : pc'[t] = pc[t] \/ (t = a /\ pc'[t] = "done")
         /\ \A j \in Jobs : \/ pc'[j] = pc[j] /\ cur'[j] = cur[j]
                            \/ j = a /\ pc'[j] \in {"idle", "loop"}
  BY ActorKinds DEF Finish, OrderTypeOK, Actors, LoopPc, PcValues

\* Settling an order keeps the types.
LEMMA TypeSettle ==
  ASSUME OrderTypeOK, NEW a \in Actors, Settle(a)
  PROVE  OrderTypeOK'
<1> USE DEF OrderTypeOK
<1>1. CASE MarkFilled(a) \/ MarkCancelled(a) \/ Expire(a)
  <2>1. Busy(a) /\ Finish(a)
    BY <1>1 DEF MarkFilled, MarkCancelled, Expire, Busy, Deciding
  <2>2. On(a) \in Orders
    BY <2>1, OnOrder
  <2>3. /\ order' \in [Orders -> OrderStates]
        /\ position' \in [Orders -> {"ABSENT", "OPEN", "CANCELLED"}]
    BY <1>1, <2>2 DEF MarkFilled, MarkCancelled, Expire, OrderStates
  <2>4. UNCHANGED <<sends, id, exch, polls, aged, todo, dbFaults, crashes, hazard>>
    BY <1>1 DEF MarkFilled, MarkCancelled, Expire
  <2> QED BY <2>1, <2>3, <2>4, TypeFinish
          DEF Busy, RoundBound, Deciding, TaskPcs, JobPcs, Placing
<1>2. CASE Cancel(a)
  <2>1. On(a) \in Orders
    BY <1>2, OnOrder DEF Cancel, Goto, Busy, Deciding
  <2>2. exch' \in [Attempts -> ExchStates]
    BY <1>2, <2>1 DEF Cancel, ExchStates
  <2>3. hazard' \subseteq HazardKinds
    BY <1>2 DEF Cancel, HazardKinds
  <2> QED BY <1>2, <2>2, <2>3
          DEF Cancel, Goto, rows, Busy, RoundBound, Deciding, TaskPcs, JobPcs,
              Placing, PcValues, Actors
<1>3. CASE WriteFails(a)
  <2> USE DEF Busy, RoundBound, Deciding, TaskPcs, JobPcs, Placing, PcValues, Actors
  <2>1. /\ UNCHANGED <<sends, id, exch, order, position, polls, aged, crashes, hazard>>
        /\ dbFaults' \in 0 .. MaxDbFaults
    BY <1>3, BoundsAssumption DEF WriteFails, DbFault, rows
  <2>2. CASE a \in Jobs
    BY <1>3, <2>1, <2>2, ActorKinds DEF WriteFails
  <2>3. CASE a \in Orders
    BY <1>3, <2>1, <2>3, ActorKinds DEF WriteFails
  <2> QED BY <2>2, <2>3
<1> QED BY <1>1, <1>2, <1>3 DEF Settle

\* The scheduler jobs' own steps keep the types.
LEMMA TypeJob ==
  ASSUME OrderTypeOK, NEW j \in Jobs, JobStart(j) \/ JobStep(j)
  PROVE  OrderTypeOK'
<1> USE DEF OrderTypeOK
<1>1. CASE JobStart(j)
  BY <1>1, ActorKinds
  DEF JobStart, Snapshot, LoopPc, rows, Busy, RoundBound, Deciding, TaskPcs,
      JobPcs, Placing, PcValues, Actors
<1>2. CASE Settle(j)
  BY <1>2, TypeSettle DEF Actors
<1>3. ASSUME NEW t \in Orders, PollSkip(t) \/ PollDecides(t) \/ StaleDecides(t)
      PROVE  OrderTypeOK'
  <2> USE ActorKinds, ReportedKinds
  <2> USE DEF Visit, LoopPc, rows, Busy, RoundBound, Deciding, TaskPcs, JobPcs,
              Placing, PcValues, Actors
  <2>1. CASE PollSkip(t)
    BY <2>1 DEF PollSkip
  <2>2. CASE PollDecides(t)
    BY <2>2 DEF PollDecides
  <2>3. CASE StaleDecides(t)
    BY <2>3 DEF StaleDecides
  <2> QED BY <1>3, <2>1, <2>2, <2>3
<1> QED BY <1>1, <1>2, <1>3 DEF JobStep

\* The environment and a crash keep the types.
LEMMA TypeEnvironment ==
  ASSUME OrderTypeOK,
         \/ \E t \in Orders : Age(t)
         \/ \E o \in Attempts : ExchangeEnds(o)
         \/ Crash
  PROVE  OrderTypeOK'
<1> USE DEF OrderTypeOK, rows, Busy, RoundBound, Deciding, TaskPcs, JobPcs,
            Placing, PcValues
<1>1. CASE \E t \in Orders : Age(t)
  BY <1>1 DEF Age
<1>2. CASE \E o \in Attempts : ExchangeEnds(o)
  BY <1>2 DEF ExchangeEnds, ExchStates
<1>3. CASE Crash
  <2>1. /\ UNCHANGED <<sends, id, exch, order, position, polls, aged, dbFaults>>
        /\ crashes' \in 0 .. MaxCrashes /\ hazard' \subseteq HazardKinds
        /\ todo' \in [Jobs -> SUBSET Orders]
        /\ cur' \in [Jobs -> Orders \cup {NoOrder}]
    BY <1>3, BoundsAssumption DEF Crash, HazardKinds
  <2>2. /\ pc' \in [Actors -> PcValues]
        /\ \A j \in Jobs : pc'[j] = "idle"
        /\ \A t \in Orders : pc'[t] = "done" \/ (pc'[t] = "idle" /\ pc[t] = "idle")
    BY <1>3, ActorKinds DEF Crash, Actors
  <2> QED BY <2>1, <2>2
<1> QED BY <1>1, <1>2, <1>3

LEMMA TypeNext == OrderTypeOK /\ [Next]_vars => OrderTypeOK'
<1> SUFFICES ASSUME OrderTypeOK, [Next]_vars PROVE OrderTypeOK'
  OBVIOUS
<1>1. CASE \E t \in Orders : Execute(t) \/ TaskStep(t)
  BY <1>1, TypePlace, TypeSettle, ActorKinds DEF TaskStep
<1>2. CASE \E j \in Jobs : JobStart(j) \/ JobStep(j)
  BY <1>2, TypeJob
<1>3. CASE \/ \E t \in Orders : Age(t)
           \/ \E o \in Attempts : ExchangeEnds(o)
           \/ Crash
  BY <1>3, TypeEnvironment
<1>4. CASE UNCHANGED vars
  BY <1>4 DEF vars, rows, OrderTypeOK, Busy, RoundBound
<1> QED BY <1>1, <1>2, <1>3, <1>4 DEF Next

\* Every variable keeps its type, whatever the settings; the retry loop and the
\* polling loop keep their bounds.
THEOREM OrderTypeCorrect == Spec => []OrderTypeOK
<1> QED BY TypeInit, TypeNext, PTL DEF Spec

-----------------------------------------------------------------------------
\* The rows and the exchange: OrderInv is inductive

LEMMA InvInit == Init => OrderInv
  BY OrdersAssumption
  DEF Init, OrderInv, RowsAgree, WrittenOffIsDead, EveryOrderFollowed, VerdictTrue,
      IdIsSent, Recorded, Known, OnExch, On, Busy, Deciding, Placing, Actors, Jobs,
      Attempts

\* While neither ids nor the exchange change, nor does what is known of an order.
LEMMA SameOnExch ==
  ASSUME UNCHANGED <<id, exch>>
  PROVE  \A t \in Orders : (Known(t)' <=> Known(t)) /\ OnExch(t)' = OnExch(t)
  BY DEF Known, OnExch

\* A step that only moves actors: an actor decides what it has just been told,
\* asks for a cancel, gives up, or is ended by a crash.
Taint == {"answerLost", "recordFailed", "crashUnrecorded"}
TaskMove(t) ==
    \/ pc'[t] = pc[t]
    \/ pc[t] = "idle" /\ pc'[t] = "post"
    \/ pc[t] = "watch" /\ pc'[t] \in {"cancel", Reported(t)} \ {"PENDING"}
    \/ /\ pc[t] = "cancel"
       /\ pc'[t] = "expire"
       /\ OnExch(t) \notin {"live", "matched"} \/ "cancelMissed" \in hazard'
    \/ pc[t] \notin Placing \cup {"idle"} /\ pc'[t] = "done"
    \/ /\ pc[t] \in Placing
       /\ pc'[t] = "done"
       /\ sends[t] = 0 \/ (pc[t] = "record" /\ ~Known(t)) \/ hazard' \cap Taint # {}
JobMove(j) ==
    \/ pc'[j] = pc[j] /\ cur'[j] = cur[j]
    \/ pc'[j] \in {"idle", "loop"}
    \/ /\ cur'[j] \in todo[j]
       /\ pc'[j] \in {"cancel", Reported(cur'[j])} \ {"PENDING"}
    \/ /\ pc[j] = "cancel"
       /\ pc'[j] = "expire"
       /\ cur'[j] = cur[j]
       /\ OnExch(cur[j]) \notin {"live", "matched"} \/ "cancelMissed" \in hazard'
Move == /\ UNCHANGED <<id, exch, sends, order, position>>
        /\ hazard \subseteq hazard'
        /\ \A t \in Orders : TaskMove(t)
        /\ \A j \in Jobs :
               /\ JobMove(j)
               /\ \A t \in todo'[j] : t \in todo[j] \/ order[t] # "ABSENT"

\* What an order is reported to be, it is.
LEMMA ReportedTrue ==
  ASSUME NEW t \in Orders
  PROVE  /\ Reported(t) = "FILLED" => OnExch(t) = "matched"
         /\ Reported(t) \in {"CANCELLED", "EXPIRED"} =>
                OnExch(t) \in {"cancelled", "expired"}
         /\ Reported(t) \in {"FILLED", "CANCELLED", "EXPIRED", "PENDING"}
  BY DEF Reported

LEMMA InvMove == OrderTypeOK /\ OrderInv /\ Move => OrderInv'
<1> SUFFICES ASSUME OrderTypeOK, OrderInv, Move PROVE OrderInv'
  OBVIOUS
<1> USE ActorKinds
<1>1. \A t \in Orders : (Known(t)' <=> Known(t)) /\ OnExch(t)' = OnExch(t)
  BY SameOnExch DEF Move
<1>2. RowsAgree' /\ WrittenOffIsDead'
  BY <1>1 DEF OrderInv, RowsAgree, WrittenOffIsDead, Move
<1>3. EveryOrderFollowed'
  <2> SUFFICES ASSUME hazard' \cap Taint = {}, NEW t \in Orders,
                      NEW k \in 1 .. MaxSends, exch[<<t, k>>] # "none"
               PROVE  id[t] = k /\ (pc'[t] = "record" \/ order[t] # "ABSENT")
    BY DEF EveryOrderFollowed, Move, Taint
  <2>1. id[t] = k /\ (pc[t] = "record" \/ order[t] # "ABSENT")
    BY DEF OrderInv, EveryOrderFollowed, Move, Taint
  <2>2. k <= sends[t] /\ k # 0
    BY BoundsAssumption DEF OrderInv, IdIsSent
  <2>3. Known(t) /\ sends[t] # 0
    BY <2>1, <2>2 DEF Known
  <2>4. CASE pc[t] = "record"
    BY <2>1, <2>3, <2>4 DEF Move, TaskMove, Placing
  <2> QED BY <2>1, <2>4
<1>4. VerdictTrue'
  <2> SUFFICES ASSUME NEW a \in Actors
      PROVE  /\ pc'[a] = "FILLED" => OnExch(On(a))' = "matched"
             /\ pc'[a] \in {"CANCELLED", "EXPIRED"} =>
                    OnExch(On(a))' \in {"cancelled", "expired"}
             /\ pc'[a] = "expire" /\ "cancelMissed" \notin hazard' =>
                    OnExch(On(a))' \notin {"live", "matched"}
    BY DEF VerdictTrue
  <2>1. CASE a \in Orders
    <3>1. On(a) = a /\ On(a)' = a /\ TaskMove(a) /\ OnExch(On(a))' = OnExch(a)
      BY <2>1, <1>1 DEF On, Move
    <3> QED BY <2>1, <3>1, ReportedTrue
            DEF TaskMove, OrderInv, VerdictTrue, Move, Placing
  <2>2. CASE a \in Jobs
    <3>1. On(a) = cur[a] /\ On(a)' = cur'[a] /\ JobMove(a)
      BY <2>2 DEF On, Move
    <3> QED BY <2>2, <3>1, <1>1, ReportedTrue, OnOrder
            DEF JobMove, OrderInv, VerdictTrue, Move, Busy, Deciding, OrderTypeOK
  <2> QED BY <2>1, <2>2 DEF Actors
<1>5. IdIsSent'
  <2>1. \A t \in Orders : /\ pc'[t] \in {"idle", "post"} => pc[t] \in {"idle", "post"}
                          /\ pc'[t] = "idle" => pc[t] = "idle"
    BY ReportedTrue DEF Move, TaskMove
  <2>2. UNCHANGED <<id, exch, sends>>
    BY DEF Move
  <2>3. \A t \in Orders : /\ id'[t] <= sends'[t]
                          /\ \A k \in 1 .. MaxSends :
                                 exch'[<<t, k>>] # "none" => k <= sends'[t]
    BY <2>2 DEF OrderInv, IdIsSent
  <2>4. \A t \in Orders : Known(t)' => OnExch(t)' # "none"
    BY <1>1 DEF OrderInv, IdIsSent
  <2>5. \A t \in Orders : /\ pc[t] \in {"idle", "post"} => ~Known(t)
                          /\ pc[t] = "idle" => sends[t] = 0
    BY DEF OrderInv, IdIsSent
  <2>6. \A t \in Orders : /\ pc'[t] \in {"idle", "post"} => ~Known(t)'
                          /\ pc'[t] = "idle" => sends'[t] = 0
    BY <2>1, <2>2, <2>5 DEF Known
  <2> QED BY <2>3, <2>4, <2>6 DEF IdIsSent
<1>6. Recorded'
  <2>1. UNCHANGED order
    BY DEF Move
  <2>2. \A t \in Orders : pc'[t] \in Placing \cup {"idle"} => order[t] = "ABSENT"
    BY ReportedTrue DEF Move, TaskMove, Placing, OrderInv, Recorded
  <2>3. \A t \in Orders : pc'[t] \in Deciding \cup {"watch"} => order[t] # "ABSENT"
    <3> SUFFICES ASSUME NEW t \in Orders, pc'[t] \in Deciding \cup {"watch"}
                 PROVE  order[t] # "ABSENT"
      OBVIOUS
    <3>1. pc[t] \in Deciding \cup {"watch"} => order[t] # "ABSENT"
      BY DEF OrderInv, Recorded, Busy, On
    <3> QED BY <3>1 DEF Move, TaskMove, Deciding
  <2>4. \A j \in Jobs : \A t \in todo'[j] : order[t] # "ABSENT"
    BY DEF Move, OrderInv, Recorded
  <2>5. \A j \in Jobs : pc'[j] \in Deciding => order[cur'[j]] # "ABSENT"
    <3> SUFFICES ASSUME NEW j \in Jobs, pc'[j] \in Deciding
                 PROVE  order[cur'[j]] # "ABSENT"
      OBVIOUS
    <3>1. pc[j] \in Deciding => order[cur[j]] # "ABSENT"
      BY DEF OrderInv, Recorded, Busy, On, Actors
    <3>2. \A t \in todo[j] : order[t] # "ABSENT"
      BY DEF OrderInv, Recorded
    <3> QED BY <3>1, <3>2 DEF Move, JobMove, Deciding
  <2> QED BY <2>1, <2>2, <2>3, <2>4, <2>5 DEF Recorded, Busy, On, Actors
<1> QED BY <1>2, <1>3, <1>4, <1>5, <1>6 DEF OrderInv

\* Which actions are such moves.
LEMMA TaskMoves ==
  ASSUME OrderTypeOK, OrderInv, NEW t \in Orders,
         Execute(t) \/ SignFails(t) \/ RecordFails(t) \/ WatchPoll(t)
  PROVE  Move
<1> USE ActorKinds DEF Move, TaskMove, JobMove, Goto, rows, Taint, Placing
<1>1. CASE Execute(t)
  BY <1>1 DEF Execute, OrderTypeOK
<1>2. CASE SignFails(t)
  BY <1>2 DEF SignFails, OrderTypeOK
<1>3. CASE RecordFails(t)
  BY <1>3 DEF RecordFails, OrderTypeOK
<1>4. CASE WatchPoll(t)
  <2>1. /\ pc[t] = "watch"
        /\ \/ pc' = [pc EXCEPT ![t] = Reported(t)] /\ Reported(t) # "PENDING"
           \/ pc' = [pc EXCEPT ![t] = "cancel"]
           \/ pc' = [pc EXCEPT ![t] = "watch"]
    BY <1>4 DEF WatchPoll, NextRound
  <2>2. /\ pc'[t] \in {"watch", "cancel", Reported(t)} \ {"PENDING"}
        /\ \A u \in Actors \ {t} : pc'[u] = pc[u]
    BY <2>1 DEF OrderTypeOK
  <2>3. UNCHANGED <<id, exch, sends, order, position, hazard, cur, todo>>
    BY <1>4 DEF WatchPoll
  <2> QED BY <2>1, <2>2, <2>3 DEF Actors
<1> QED BY <1>1, <1>2, <1>3, <1>4

LEMMA JobMoves ==
  ASSUME OrderTypeOK, OrderInv, NEW j \in Jobs,
         \/ JobStart(j)
         \/ \E t \in Orders : PollSkip(t) \/ PollDecides(t) \/ StaleDecides(t)
  PROVE  Move
<1> USE ActorKinds DEF Move, TaskMove, JobMove, rows, LoopPc, Visit
<1>1. CASE JobStart(j)
  BY <1>1 DEF JobStart, Snapshot, OrderTypeOK
<1>2. ASSUME NEW t \in Orders, PollSkip(t)
      PROVE  Move
  BY <1>2 DEF PollSkip, OrderTypeOK
<1>3. ASSUME NEW t \in Orders, PollDecides(t)
      PROVE  Move
  BY <1>3 DEF PollDecides, OrderTypeOK
<1>4. ASSUME NEW t \in Orders, StaleDecides(t)
      PROVE  Move
  BY <1>4 DEF StaleDecides, OrderTypeOK
<1> QED BY <1>1, <1>2, <1>3, <1>4

LEMMA OtherMoves ==
  ASSUME OrderTypeOK, OrderInv,
         \/ \E a \in Actors : WriteFails(a)
         \/ \E t \in Orders : Age(t)
         \/ Crash
         \/ UNCHANGED vars
  PROVE  Move
<1> USE ActorKinds DEF Move, TaskMove, JobMove, rows
<1>1. ASSUME NEW a \in Actors, WriteFails(a)
      PROVE  Move
  <2>1. CASE a \in Jobs
    BY <1>1, <2>1 DEF WriteFails, OrderTypeOK
  <2>2. CASE a \in Orders
    BY <1>1, <2>2 DEF WriteFails, OrderTypeOK, Deciding, Placing
  <2> QED BY <2>1, <2>2 DEF Actors
<1>2. CASE \E t \in Orders : Age(t)
  BY <1>2 DEF Age
<1>3. CASE Crash
  <2>1. ASSUME NEW t \in Orders
        PROVE  TaskMove(t)
    <3>1. pc'[t] = IF pc[t] = "idle" THEN "idle" ELSE "done"
      BY <1>3 DEF Crash, Actors
    <3>2. CASE Unrecorded(t)
      <4>1. hazard' \cap Taint # {}
        BY <1>3, <3>2 DEF Crash, Taint
      <4> QED BY <3>1, <3>2, <4>1 DEF Placing, Unrecorded
    <3>3. CASE ~Unrecorded(t)
      <4>1. pc[t] = "post" => sends[t] = 0
        BY <3>3, BoundsAssumption DEF Unrecorded, OrderTypeOK
      <4> QED BY <3>1, <3>3, <4>1 DEF Placing, Unrecorded
    <3> QED BY <3>2, <3>3
  <2> QED BY <1>3, <2>1 DEF Crash, Actors
<1>4. CASE UNCHANGED vars
  BY <1>4 DEF vars
<1> QED BY <1>1, <1>2, <1>3, <1>4

-----------------------------------------------------------------------------
\* Steps of the exchange: an order that is live ends, once.
LEMMA ExchEnds ==
  ASSUME OrderTypeOK, NEW o \in Attempts, NEW s \in ExchStates,
         exch[o] = "live", exch' = [exch EXCEPT ![o] = s], id' = id
  PROVE  \A t \in Orders : /\ Known(t)' <=> Known(t)
                           /\ OnExch(t) # "live" => OnExch(t)' = OnExch(t)
                           /\ OnExch(t) = "live" => OnExch(t)' \in {"live", s}
<1> SUFFICES ASSUME NEW t \in Orders
             PROVE  /\ Known(t)' <=> Known(t)
                    /\ OnExch(t) # "live" => OnExch(t)' = OnExch(t)
                    /\ OnExch(t) = "live" => OnExch(t)' \in {"live", s}
  OBVIOUS
<1>1. Known(t) => <<t, id[t]>> \in Attempts
  BY BoundsAssumption DEF OrderTypeOK, Known, Attempts
<1> QED BY <1>1 DEF OnExch, Known, OrderTypeOK

\* What is true of the exchange in the rows stays true when an order ends.
LEMMA InvExch ==
  ASSUME OrderTypeOK, OrderInv, NEW o \in Attempts,
         NEW s \in {"matched", "cancelled", "expired"},
         exch[o] = "live", exch' = [exch EXCEPT ![o] = s],
         UNCHANGED <<id, sends, order, position, hazard, todo, cur>>,
         \A a \in Actors : \/ pc'[a] = pc[a]
                           \/ /\ pc[a] = "cancel" /\ pc'[a] = "expire"
                              /\ OnExch(On(a)) = "live" /\ OnExch(On(a))' = "cancelled"
  PROVE  OrderInv'
<1> USE ActorKinds
<1>1. \A t \in Orders : /\ Known(t)' <=> Known(t)
                        /\ OnExch(t) # "live" => OnExch(t)' = OnExch(t)
                        /\ OnExch(t) = "live" => OnExch(t)' \in {"live", s}
  BY ExchEnds DEF ExchStates
<1>2. \A q \in Attempts : exch'[q] # "none" <=> exch[q] # "none"
  BY DEF OrderTypeOK
<1>3. RowsAgree' /\ WrittenOffIsDead'
  BY <1>1 DEF OrderInv, RowsAgree, WrittenOffIsDead
<1>4. \A t \in Orders : pc'[t] = pc[t] \/ (pc[t] = "cancel" /\ pc'[t] = "expire")
  OBVIOUS
<1>5. EveryOrderFollowed'
  BY <1>2, <1>4 DEF OrderInv, EveryOrderFollowed, Attempts
<1>6. VerdictTrue'
  <2> SUFFICES ASSUME NEW a \in Actors
      PROVE  /\ pc'[a] = "FILLED" => OnExch(On(a))' = "matched"
             /\ pc'[a] \in {"CANCELLED", "EXPIRED"} =>
                    OnExch(On(a))' \in {"cancelled", "expired"}
             /\ pc'[a] = "expire" /\ "cancelMissed" \notin hazard' =>
                    OnExch(On(a))' \notin {"live", "matched"}
    BY DEF VerdictTrue
  <2>1. On(a)' = On(a)
    BY DEF On
  <2>2. CASE pc'[a] = pc[a] /\ Busy(a)
    <3>1. On(a) \in Orders
      BY <2>2, OnOrder
    <3>2. OnExch(On(a)) # "live" => OnExch(On(a))' = OnExch(On(a))
      BY <3>1, <2>1, <1>1
    <3> QED BY <2>2, <3>2 DEF OrderInv, VerdictTrue
  <2>3. CASE pc'[a] = pc[a] /\ ~Busy(a)
    BY <2>3 DEF Busy, Deciding
  <2>4. CASE pc'[a] # pc[a]
    BY <2>4
  <2> QED BY <2>2, <2>3, <2>4
<1>7. IdIsSent'
  <2>1. \A t \in Orders : /\ id'[t] <= sends'[t]
                          /\ \A k \in 1 .. MaxSends :
                                 exch'[<<t, k>>] # "none" => k <= sends'[t]
    BY <1>2 DEF OrderInv, IdIsSent, Attempts
  <2>2. \A t \in Orders : Known(t)' => OnExch(t)' # "none"
    BY <1>1 DEF OrderInv, IdIsSent
  <2>3. \A t \in Orders : /\ pc'[t] \in {"idle", "post"} => ~Known(t)'
                          /\ pc'[t] = "idle" => sends'[t] = 0
    BY <1>1, <1>4 DEF OrderInv, IdIsSent
  <2> QED BY <2>1, <2>2, <2>3 DEF IdIsSent
<1>8. Recorded'
  <2>1. \A a \in Actors : On(a)' = On(a) /\ (Busy(a)' => Busy(a))
    BY DEF On, Busy, Deciding
  <2>2. \A a \in Actors : Busy(a)' => order'[On(a)'] # "ABSENT"
    BY <2>1 DEF OrderInv, Recorded
  <2>3. \A t \in Orders : /\ pc'[t] \in Placing \cup {"idle"} => order'[t] = "ABSENT"
                          /\ pc'[t] = "watch" => order'[t] # "ABSENT"
    BY <1>4 DEF OrderInv, Recorded, Placing
  <2>4. \A j \in Jobs : \A t \in todo'[j] : order'[t] # "ABSENT"
    BY DEF OrderInv, Recorded
  <2> QED BY <2>2, <2>3, <2>4 DEF Recorded
<1> QED BY <1>3, <1>5, <1>6, <1>7, <1>8 DEF OrderInv

LEMMA InvExchange ==
  ASSUME OrderTypeOK, OrderInv, NEW o \in Attempts, ExchangeEnds(o)
  PROVE  OrderInv'
<1>1. PICK s \in {"matched", "cancelled", "expired"} : exch' = [exch EXCEPT ![o] = s]
  BY DEF ExchangeEnds
<1> QED BY <1>1, InvExch DEF ExchangeEnds, rows

LEMMA InvCancel ==
  ASSUME OrderTypeOK, OrderInv, NEW a \in Actors, Cancel(a)
  PROVE  OrderInv'
<1>1. On(a) \in Orders /\ On(a)' = On(a)
  BY OnOrder DEF Cancel, Goto, Busy, Deciding, On
<1>2. /\ pc[a] = "cancel"
      /\ pc'[a] = "expire"
      /\ \A b \in Actors \ {a} : pc'[b] = pc[b]
      /\ UNCHANGED <<id, sends, order, position, todo, cur>>
  BY DEF Cancel, Goto, OrderTypeOK, rows
<1>3. CASE /\ OnExch(On(a)) = "live"
           /\ exch' = [exch EXCEPT ![<<On(a), id[On(a)]>>] = "cancelled"]
           /\ hazard' = hazard
  <2>1. Known(On(a)) /\ <<On(a), id[On(a)]>> \in Attempts
    BY <1>1, <1>3, BoundsAssumption DEF OnExch, Known, Attempts, OrderTypeOK
  <2>2. exch[<<On(a), id[On(a)]>>] = "live"
    BY <1>3, <2>1 DEF OnExch
  <2>3. OnExch(On(a))' = "cancelled"
    BY <1>1, <1>2, <1>3, <2>1 DEF OnExch, Known, OrderTypeOK
  <2> QED BY <1>2, <1>3, <2>1, <2>2, <2>3, InvExch
<1>4. CASE /\ exch' = exch
           /\ hazard' = hazard \cup (IF OnExch(On(a)) \in {"live", "matched"}
                                      THEN {"cancelMissed"} ELSE {})
  BY <1>2, <1>4, InvMove, ActorKinds
  DEF Move, TaskMove, JobMove, On, Actors
<1> QED BY <1>3, <1>4 DEF Cancel

-----------------------------------------------------------------------------
\* Steps that write the two rows: what is written is true of the exchange.
LEMMA InvWrite ==
  ASSUME OrderTypeOK, OrderInv, NEW a \in Actors,
         MarkFilled(a) \/ MarkCancelled(a) \/ Expire(a)
  PROVE  OrderInv'
<1> USE ActorKinds
<1>1. Busy(a) /\ On(a) \in Orders /\ order[On(a)] # "ABSENT"
  BY OnOrder DEF MarkFilled, MarkCancelled, Expire, Busy, Deciding, OrderInv, Recorded
<1>2. /\ UNCHANGED <<id, exch, sends, hazard, todo>>
      /\ Finish(a)
  BY DEF MarkFilled, MarkCancelled, Expire
<1>3. \A t \in Orders : (Known(t)' <=> Known(t)) /\ OnExch(t)' = OnExch(t)
  BY <1>2, SameOnExch
<1>4. \A t \in Orders : pc'[t] = pc[t] \/ (t = a /\ pc'[t] = "done")
  BY <1>2, TypeFinish
<1>5. \A j \in Jobs : \/ pc'[j] = pc[j] /\ cur'[j] = cur[j]
                      \/ j = a /\ pc'[j] \in {"idle", "loop"}
  BY <1>2, TypeFinish
<1>6. \A t \in Orders \ {On(a)} : order'[t] = order[t] /\ position'[t] = position[t]
  BY <1>1 DEF MarkFilled, MarkCancelled, Expire, OrderTypeOK
<1>7. position[On(a)] # "ABSENT"
  BY <1>1 DEF OrderInv, RowsAgree
<1>8. \/ /\ order'[On(a)] = "FILLED" /\ position'[On(a)] = position[On(a)]
         /\ OnExch(On(a)) = "matched"
      \/ /\ order'[On(a)] \in {"CANCELLED", "EXPIRED"}
         /\ position'[On(a)] = "CANCELLED"
         /\ "cancelMissed" \notin hazard => OnExch(On(a)) \notin {"live", "matched"}
  <2>1. CASE MarkFilled(a)
    BY <1>1, <2>1 DEF MarkFilled, OrderTypeOK, OrderInv, VerdictTrue
  <2>2. CASE MarkCancelled(a)
    BY <1>1, <2>2 DEF MarkCancelled, OrderTypeOK, OrderInv, VerdictTrue
  <2>3. CASE Expire(a)
    BY <1>1, <2>3 DEF Expire, OrderTypeOK, OrderInv, VerdictTrue
  <2> QED BY <2>1, <2>2, <2>3
<1>9. \A t \in Orders : order'[t] = "ABSENT" <=> order[t] = "ABSENT"
  BY <1>1, <1>6, <1>8
<1>10. RowsAgree'
  <2> SUFFICES ASSUME NEW t \in Orders
      PROVE  /\ order'[t] = "ABSENT" <=> position'[t] = "ABSENT"
             /\ order'[t] = "PENDING" => position'[t] = "OPEN"
             /\ order'[t] \in {"CANCELLED", "EXPIRED"} => position'[t] = "CANCELLED"
             /\ order'[t] = "FILLED" => OnExch(t)' = "matched"
    BY DEF RowsAgree
  <2>1. CASE t = On(a)
    BY <2>1, <1>3, <1>7, <1>8
  <2>2. CASE t # On(a)
    BY <2>2, <1>3, <1>6 DEF OrderInv, RowsAgree
  <2> QED BY <2>1, <2>2
<1>11. WrittenOffIsDead'
  <2> SUFFICES ASSUME NEW t \in Orders, "cancelMissed" \notin hazard,
                      position'[t] = "CANCELLED"
               PROVE  OnExch(t) \notin {"live", "matched"}
    BY <1>2, <1>3 DEF WrittenOffIsDead
  <2>1. position[t] = "CANCELLED" => OnExch(t) \notin {"live", "matched"}
    BY DEF OrderInv, WrittenOffIsDead
  <2> QED BY <2>1, <1>6, <1>8
<1>12. EveryOrderFollowed'
  BY <1>2, <1>4, <1>1, <1>9 DEF OrderInv, EveryOrderFollowed, Busy, Deciding
<1>13. VerdictTrue'
  <2> SUFFICES ASSUME NEW b \in Actors
      PROVE  /\ pc'[b] = "FILLED" => OnExch(On(b))' = "matched"
             /\ pc'[b] \in {"CANCELLED", "EXPIRED"} =>
                    OnExch(On(b))' \in {"cancelled", "expired"}
             /\ pc'[b] = "expire" /\ "cancelMissed" \notin hazard' =>
                    OnExch(On(b))' \notin {"live", "matched"}
    BY DEF VerdictTrue
  <2>1. pc'[b] \in {"done", "idle", "loop"} \/ (pc'[b] = pc[b] /\ On(b)' = On(b))
    BY <1>4, <1>5 DEF Actors, On
  <2>2. CASE pc'[b] = pc[b] /\ On(b)' = On(b) /\ Busy(b)
    <3>1. On(b) \in Orders
      BY <2>2, OnOrder
    <3>2. OnExch(On(b))' = OnExch(On(b))
      BY <3>1, <2>2, <1>3
    <3> QED BY <1>2, <2>2, <3>2 DEF OrderInv, VerdictTrue
  <2> QED BY <2>1, <2>2 DEF Busy, Deciding
<1>14. IdIsSent'
  <2>1. \A t \in Orders : /\ id'[t] <= sends'[t]
                          /\ \A k \in 1 .. MaxSends :
                                 exch'[<<t, k>>] # "none" => k <= sends'[t]
    BY <1>2 DEF OrderInv, IdIsSent
  <2>2. \A t \in Orders : Known(t)' => OnExch(t)' # "none"
    BY <1>3 DEF OrderInv, IdIsSent
  <2>3. \A t \in Orders : /\ pc'[t] \in {"idle", "post"} => ~Known(t)'
                          /\ pc'[t] = "idle" => sends'[t] = 0
    BY <1>2, <1>3, <1>4 DEF OrderInv, IdIsSent
  <2> QED BY <2>1, <2>2, <2>3 DEF IdIsSent
<1>15. Recorded'
  <2>1. \A t \in Orders : /\ pc'[t] \in Placing \cup {"idle"} => order'[t] = "ABSENT"
                          /\ pc'[t] = "watch" => order'[t] # "ABSENT"
    BY <1>4, <1>9 DEF OrderInv, Recorded, Placing
  <2>2. \A j \in Jobs : \A t \in todo'[j] : order'[t] # "ABSENT"
    BY <1>2, <1>9 DEF OrderInv, Recorded, OrderTypeOK
  <2>3. ASSUME NEW b \in Actors, Busy(b)'
        PROVE  order'[On(b)'] # "ABSENT"
    <3>1. Busy(b) /\ On(b)' = On(b)
      BY <2>3, <1>4, <1>5 DEF Actors, On, Busy, Deciding
    <3>2. On(b) \in Orders /\ order[On(b)] # "ABSENT"
      BY <3>1, OnOrder DEF OrderInv, Recorded
    <3> QED BY <3>1, <3>2, <1>9
  <2> QED BY <2>1, <2>2, <2>3 DEF Recorded
<1> QED BY <1>10, <1>11, <1>12, <1>13, <1>14, <1>15 DEF OrderInv

-----------------------------------------------------------------------------
\* Placing: the order of a new request is nobody's yet.

\* A request is sent by a task without a row, which nobody else works on.
LEMMA InvSend ==
  ASSUME OrderTypeOK, OrderInv, NEW t \in Orders,
         NextSend(t),
         pc' \in {[pc EXCEPT ![t] = to] : to \in {"post", "record", "done"}},
         UNCHANGED <<order, position, todo, cur>>,
         \/ /\ UNCHANGED <<id, exch, hazard>>
         \/ /\ pc' = [pc EXCEPT ![t] = "record"]
            /\ id' = [id EXCEPT ![t] = sends[t] + 1]
            /\ exch' = [exch EXCEPT ![<<t, sends[t] + 1>>] = "live"]
            /\ hazard' = hazard
         \/ /\ id' = id
            /\ exch' = [exch EXCEPT ![<<t, sends[t] + 1>>] = "live"]
            /\ hazard' = hazard \cup {"answerLost"}
  PROVE  OrderInv'
<1> USE ActorKinds, BoundsAssumption
<1>1. /\ pc[t] = "post" /\ order[t] = "ABSENT" /\ position[t] = "ABSENT"
      /\ id[t] = 0
      /\ sends[t] + 1 \in 1 .. MaxSends
      /\ sends' = [sends EXCEPT ![t] = sends[t] + 1]
  BY DEF NextSend, OrderInv, Recorded, RowsAgree, IdIsSent, Known, Placing, OrderTypeOK
<1>2. /\ \A k \in 1 .. MaxSends : exch[<<t, k>>] # "none" => k <= sends[t]
      /\ \A u \in Orders \ {t} :
            /\ id'[u] = id[u] /\ sends'[u] = sends[u] /\ pc'[u] = pc[u]
            /\ \A k \in 1 .. MaxSends : exch'[<<u, k>>] = exch[<<u, k>>]
  BY <1>1 DEF OrderInv, IdIsSent, OrderTypeOK, Attempts, Actors
<1>3. /\ pc'[t] \in {"post", "record", "done"}
      /\ \A j \in Jobs : pc'[j] = pc[j]
      /\ \A a \in Actors : On(a)' = On(a)
      /\ hazard \subseteq hazard'
  BY <1>1 DEF OrderTypeOK, Actors, On
<1>4. \A u \in Orders \ {t} : (Known(u)' <=> Known(u)) /\ OnExch(u)' = OnExch(u)
  BY <1>2 DEF Known, OnExch, OrderTypeOK
<1>5. ASSUME NEW a \in Actors, Busy(a)'
      PROVE  Busy(a) /\ pc'[a] = pc[a] /\ On(a) \in Orders \ {t}
  <2>1. Busy(a) /\ pc'[a] = pc[a]
    BY <1>2, <1>3, <1>5 DEF Busy, Deciding, Actors
  <2>2. On(a) \in Orders /\ order[On(a)] # "ABSENT"
    BY <2>1, OnOrder DEF OrderInv, Recorded
  <2> QED BY <1>1, <2>1, <2>2
<1>6. RowsAgree'
  BY <1>1, <1>4 DEF OrderInv, RowsAgree
<1>7. WrittenOffIsDead'
  BY <1>1, <1>3, <1>4 DEF OrderInv, WrittenOffIsDead
<1>8. EveryOrderFollowed'
  <2> SUFFICES ASSUME hazard' \cap Taint = {}, NEW u \in Orders,
                      NEW k \in 1 .. MaxSends, exch'[<<u, k>>] # "none"
               PROVE  id'[u] = k /\ (pc'[u] = "record" \/ order'[u] # "ABSENT")
    BY DEF EveryOrderFollowed, Taint
  <2>1. hazard \cap Taint = {} /\ "answerLost" \notin hazard'
    BY <1>3 DEF Taint
  <2>2. CASE u # t
    BY <2>1, <2>2, <1>2 DEF OrderInv, EveryOrderFollowed, Taint
  <2>3. CASE u = t
    <3>1. exch[<<t, k>>] = "none"
      BY <2>1, <1>1 DEF OrderInv, EveryOrderFollowed, Taint
    <3>2. /\ pc' = [pc EXCEPT ![t] = "record"]
          /\ id' = [id EXCEPT ![t] = sends[t] + 1]
          /\ exch' = [exch EXCEPT ![<<t, sends[t] + 1>>] = "live"]
      BY <2>1, <2>3, <3>1
    <3> QED BY <2>3, <3>1, <3>2, <1>1 DEF OrderTypeOK, Attempts
  <2> QED BY <2>2, <2>3
<1>9. VerdictTrue'
  <2> SUFFICES ASSUME NEW a \in Actors, Busy(a)'
      PROVE  /\ pc'[a] = "FILLED" => OnExch(On(a))' = "matched"
             /\ pc'[a] \in {"CANCELLED", "EXPIRED"} =>
                    OnExch(On(a))' \in {"cancelled", "expired"}
             /\ pc'[a] = "expire" /\ "cancelMissed" \notin hazard' =>
                    OnExch(On(a))' \notin {"live", "matched"}
    BY DEF VerdictTrue, Busy, Deciding
  <2>1. /\ pc'[a] = pc[a]
        /\ OnExch(On(a))' = OnExch(On(a))
    BY <1>3, <1>4, <1>5
  <2> QED BY <2>1, <1>3 DEF OrderInv, VerdictTrue
<1>10. IdIsSent'
  <2> SUFFICES ASSUME NEW u \in Orders
      PROVE  /\ id'[u] <= sends'[u]
             /\ \A k \in 1 .. MaxSends : exch'[<<u, k>>] # "none" => k <= sends'[u]
             /\ Known(u)' => OnExch(u)' # "none"
             /\ pc'[u] \in {"idle", "post"} => ~Known(u)'
             /\ pc'[u] = "idle" => sends'[u] = 0
    BY DEF IdIsSent
  <2>1. CASE u # t
    BY <2>1, <1>2, <1>4 DEF OrderInv, IdIsSent
  <2>2. CASE u = t
    <3>1. sends'[t] = sends[t] + 1 /\ sends[t] \in Nat
      BY <1>1 DEF OrderTypeOK
    <3>2. id'[t] = 0 \/ (id'[t] = sends[t] + 1 /\ exch'[<<t, sends[t] + 1>>] = "live"
                          /\ pc'[t] = "record")
      BY <1>1 DEF OrderTypeOK, Attempts, Actors
    <3>3. \A k \in 1 .. MaxSends : exch'[<<t, k>>] # "none" =>
                                       exch[<<t, k>>] # "none" \/ k = sends[t] + 1
      BY <1>1 DEF OrderTypeOK, Attempts
    <3>4. \A k \in 1 .. MaxSends : exch'[<<t, k>>] # "none" => k <= sends'[t]
      BY <3>1, <3>3, <1>2
    <3> QED BY <2>2, <1>3, <3>1, <3>2, <3>4 DEF Known, OnExch
  <2> QED BY <2>1, <2>2
<1>11. Recorded'
  <2>1. \A u \in Orders : /\ pc'[u] \in Placing \cup {"idle"} => order'[u] = "ABSENT"
                          /\ pc'[u] = "watch" => order'[u] # "ABSENT"
    BY <1>1, <1>2, <1>3 DEF OrderInv, Recorded, Placing
  <2>2. \A j \in Jobs : \A u \in todo'[j] : order'[u] # "ABSENT"
    BY DEF OrderInv, Recorded
  <2>3. \A a \in Actors : Busy(a)' => order'[On(a)'] # "ABSENT"
    BY <1>3, <1>5 DEF OrderInv, Recorded
  <2> QED BY <2>1, <2>2, <2>3 DEF Recorded
<1> QED BY <1>6, <1>7, <1>8, <1>9, <1>10, <1>11 DEF OrderInv

\* The record of a placed order makes what was being recorded recorded.
LEMMA InvRecord ==
  ASSUME OrderTypeOK, OrderInv, NEW t \in Orders, Record(t)
  PROVE  OrderInv'
<1> USE ActorKinds
<1>1. /\ UNCHANGED <<id, exch, sends, hazard, todo, cur>>
      /\ pc[t] = "record" /\ pc'[t] = "watch"
      /\ \A a \in Actors \ {t} : pc'[a] = pc[a]
      /\ order'[t] = "PENDING" /\ position'[t] = "OPEN"
      /\ \A u \in Orders \ {t} : order'[u] = order[u] /\ position'[u] = position[u]
  BY DEF Record, Goto, OrderTypeOK
<1>2. /\ \A u \in Orders : (Known(u)' <=> Known(u)) /\ OnExch(u)' = OnExch(u)
      /\ \A a \in Actors : On(a)' = On(a)
  BY <1>1, SameOnExch DEF On
<1>3. RowsAgree' /\ WrittenOffIsDead'
  BY <1>1, <1>2 DEF OrderInv, RowsAgree, WrittenOffIsDead
<1>4. EveryOrderFollowed'
  BY <1>1 DEF OrderInv, EveryOrderFollowed, Actors
<1>5. \A a \in Actors : Busy(a)' => Busy(a) /\ pc'[a] = pc[a]
  BY <1>1 DEF Busy, Deciding
<1>6. VerdictTrue'
  <2> SUFFICES ASSUME NEW a \in Actors, Busy(a)'
      PROVE  /\ pc'[a] = "FILLED" => OnExch(On(a))' = "matched"
             /\ pc'[a] \in {"CANCELLED", "EXPIRED"} =>
                    OnExch(On(a))' \in {"cancelled", "expired"}
             /\ pc'[a] = "expire" /\ "cancelMissed" \notin hazard' =>
                    OnExch(On(a))' \notin {"live", "matched"}
    BY DEF VerdictTrue, Busy, Deciding
  <2>1. pc'[a] = pc[a] /\ OnExch(On(a))' = OnExch(On(a))
    BY <1>2, <1>5, OnOrder
  <2> QED BY <1>1, <2>1 DEF OrderInv, VerdictTrue
<1>7. IdIsSent'
  <2>1. \A u \in Orders : /\ id'[u] <= sends'[u]
                          /\ \A k \in 1 .. MaxSends :
                                 exch'[<<u, k>>] # "none" => k <= sends'[u]
    BY <1>1 DEF OrderInv, IdIsSent
  <2>2. \A u \in Orders : Known(u)' => OnExch(u)' # "none"
    BY <1>2 DEF OrderInv, IdIsSent
  <2>3. \A u \in Orders : /\ pc'[u] \in {"idle", "post"} => ~Known(u)'
                          /\ pc'[u] = "idle" => sends'[u] = 0
    BY <1>1, <1>2 DEF OrderInv, IdIsSent
  <2> QED BY <2>1, <2>2, <2>3 DEF IdIsSent
<1>8. Recorded'
  <2>1. \A u \in Orders : /\ pc'[u] \in Placing \cup {"idle"} => order'[u] = "ABSENT"
                          /\ pc'[u] = "watch" => order'[u] # "ABSENT"
    BY <1>1 DEF OrderInv, Recorded, Placing
  <2>2. \A u \in Orders : order[u] # "ABSENT" => order'[u] # "ABSENT"
    BY <1>1
  <2>3. \A j \in Jobs : \A u \in todo'[j] : order'[u] # "ABSENT"
    BY <1>1, <2>2 DEF OrderInv, Recorded, OrderTypeOK
  <2>4. \A a \in Actors : Busy(a)' => order'[On(a)'] # "ABSENT"
    BY <1>2, <1>5, <2>2, OnOrder DEF OrderInv, Recorded
  <2> QED BY <2>1, <2>3, <2>4 DEF Recorded
<1> QED BY <1>3, <1>4, <1>6, <1>7, <1>8 DEF OrderInv

LEMMA InvPlace ==
  ASSUME OrderTypeOK, OrderInv, NEW t \in Orders, Place(t)
  PROVE  OrderInv'
<1>1. CASE SignFails(t) \/ RecordFails(t)
  BY <1>1, TaskMoves, InvMove
<1>2. CASE Record(t)
  BY <1>2, InvRecord
<1>3. CASE PostAccepted(t)
  BY <1>3, InvSend DEF PostAccepted, AnsweredSend, rows
<1>4. CASE PostRefused(t)
  BY <1>4, InvSend DEF PostRefused, NoIdNext, rows
<1>6. CASE PostUnread(t)
  BY <1>6, InvSend DEF PostUnread, NoIdNext, rows
<1>5. CASE PostFails(t)
  BY <1>5, InvSend DEF PostFails, AfterFailure, rows
<1> QED BY <1>1, <1>2, <1>3, <1>4, <1>5, <1>6 DEF Place

LEMMA InvNext == OrderTypeOK /\ OrderInv /\ [Next]_vars => OrderInv'
<1> SUFFICES ASSUME OrderTypeOK, OrderInv, [Next]_vars PROVE OrderInv'
  OBVIOUS
<1>1. ASSUME NEW a \in Actors, Settle(a)
      PROVE  OrderInv'
  BY <1>1, InvWrite, InvCancel, OtherMoves, InvMove DEF Settle
<1>2. CASE \E t \in Orders : Execute(t) \/ TaskStep(t)
  BY <1>1, <1>2, InvPlace, TaskMoves, InvMove, ActorKinds DEF TaskStep
<1>3. CASE \E j \in Jobs : JobStart(j) \/ JobStep(j)
  BY <1>1, <1>3, JobMoves, InvMove DEF JobStep, Actors
<1>4. CASE \E o \in Attempts : ExchangeEnds(o)
  BY <1>4, InvExchange
<1>5. CASE Crash \/ UNCHANGED vars \/ \E t \in Orders : Age(t)
  BY <1>5, OtherMoves, InvMove
<1> QED BY <1>2, <1>3, <1>4, <1>5 DEF Next

\* The inductive invariant of the live half: rows, decisions under way and the
\* exchange agree, for any orders and any interleaving of their monitors.
THEOREM OrderInvariant == Spec => []OrderInv
<1> QED BY TypeInit, TypeNext, InvInit, InvNext, PTL DEF Spec

\* FILLED is only written for an order the exchange matched, and an order that
\* ended unfilled has no position.
COROLLARY RowsAlwaysAgree == Spec => []RowsAgree
<1>1. OrderInv => RowsAgree
  BY DEF OrderInv
<1> QED BY <1>1, OrderInvariant, PTL

\* A position that was written off holds nothing on the exchange, unless a cancel
\* request was missed.
COROLLARY WrittenOffAlwaysDead == Spec => []WrittenOffIsDead
<1>1. OrderInv => WrittenOffIsDead
  BY DEF OrderInv
<1> QED BY <1>1, OrderInvariant, PTL

\* Every order on the exchange has a row, unless an answer was lost, a record
\* failed or the process died between the two.
COROLLARY EveryOrderAlwaysFollowed == Spec => []EveryOrderFollowed
<1>1. OrderInv => EveryOrderFollowed
  BY DEF OrderInv
<1> QED BY <1>1, OrderInvariant, PTL

-----------------------------------------------------------------------------
\* The position book

\* What any step does to the positions.
LEMMA PositionStep ==
  ASSUME OrderTypeOK, OrderInv, [Next]_vars
  PROVE  \/ position' = position
         \/ \E t \in Orders : /\ position[t] = "ABSENT"
                              /\ position' = [position EXCEPT ![t] = "OPEN"]
         \/ \E t \in Orders : /\ position[t] # "ABSENT"
                              /\ position' = [position EXCEPT ![t] = "CANCELLED"]
<1> DEFINE P == \/ position' = position
                \/ \E t \in Orders : /\ position[t] = "ABSENT"
                                     /\ position' = [position EXCEPT ![t] = "OPEN"]
                \/ \E t \in Orders : /\ position[t] # "ABSENT"
                                     /\ position' = [position EXCEPT ![t] = "CANCELLED"]
<1>1. ASSUME NEW t \in Orders, Execute(t) \/ Place(t) \/ WatchPoll(t) \/ Age(t)
      PROVE  P
  <2>1. CASE Record(t)
    <3>1. position[t] = "ABSENT"
      BY <2>1 DEF Record, Goto, OrderInv, Recorded, RowsAgree, Placing
    <3> QED BY <2>1, <3>1 DEF Record
  <2>2. CASE ~Record(t)
    BY <1>1, <2>2
    DEF Execute, Place, SignFails, PostAccepted, PostRefused, PostUnread, PostFails,
        RecordFails,
        WatchPoll, Age, rows
  <2> QED BY <2>1, <2>2
<1>2. ASSUME NEW a \in Actors, Settle(a)
      PROVE  P
  <2>1. CASE MarkCancelled(a) \/ Expire(a)
    <3>1. Busy(a) /\ On(a) \in Orders
      BY <2>1, OnOrder DEF MarkCancelled, Expire, Busy, Deciding
    <3>2. position[On(a)] # "ABSENT"
      BY <3>1 DEF OrderInv, Recorded, RowsAgree
    <3>3. position' = [position EXCEPT ![On(a)] = "CANCELLED"]
      BY <2>1 DEF MarkCancelled, Expire
    <3> QED BY <3>1, <3>2, <3>3
  <2>2. CASE MarkFilled(a) \/ Cancel(a) \/ WriteFails(a)
    BY <2>2 DEF MarkFilled, Cancel, WriteFails, rows
  <2> QED BY <1>2, <2>1, <2>2 DEF Settle
<1>3. ASSUME NEW j \in Jobs, JobStart(j) \/ JobStep(j)
      PROVE  P
  <2>1. CASE Settle(j)
    BY <1>2, <2>1 DEF Actors
  <2>2. CASE JobStart(j)
    BY <2>2 DEF JobStart, rows
  <2>3. CASE \E t \in Orders : PollSkip(t) \/ PollDecides(t) \/ StaleDecides(t)
    BY <2>3 DEF PollSkip, PollDecides, StaleDecides, rows
  <2> QED BY <1>3, <2>1, <2>2, <2>3 DEF JobStep
<1>4. CASE \/ \E o \in Attempts : ExchangeEnds(o)
           \/ Crash
           \/ UNCHANGED vars
  BY <1>4 DEF ExchangeEnds, Crash, vars, rows
<1> QED BY <1>1, <1>2, <1>3, <1>4, ActorKinds DEF Next, TaskStep

LEMMA BookStep ==
  ASSUME OrderTypeOK, OrderInv, [Next]_vars
  PROVE  [Book!Next]_(Book!bookVars)
<1> DEFINE st == [t \in Orders |-> IF position[t] = "CANCELLED" THEN "CLOSED"
                                   ELSE position[t]]
           sl == [t \in Orders |-> IF position[t] = "ABSENT" THEN <<>> ELSE t]
<1>1. CASE position' = position
  <2>1. st' = st /\ sl' = sl
    BY <1>1
  <2> QED BY <2>1 DEF Book!bookVars
<1>2. CASE \E t \in Orders : /\ position[t] = "ABSENT"
                             /\ position' = [position EXCEPT ![t] = "OPEN"]
  <2>1. PICK t \in Orders : /\ position[t] = "ABSENT"
                            /\ position' = [position EXCEPT ![t] = "OPEN"]
    BY <1>2
  <2>2. st' = [st EXCEPT ![t] = "OPEN"] /\ sl' = [sl EXCEPT ![t] = t]
    BY <2>1 DEF OrderTypeOK
  <2>3. st[t] = "ABSENT" /\ \A u \in Orders : st[u] = "OPEN" => sl[u] # t
    BY <2>1
  <2>4. Book!Open(t, t)
    BY <2>2, <2>3 DEF Book!Open, Book!Enter
  <2> QED BY <2>4 DEF Book!Next
<1>3. CASE \E t \in Orders : /\ position[t] # "ABSENT"
                             /\ position' = [position EXCEPT ![t] = "CANCELLED"]
  <2>1. PICK t \in Orders : /\ position[t] # "ABSENT"
                            /\ position' = [position EXCEPT ![t] = "CANCELLED"]
    BY <1>3
  <2>2. CASE position[t] = "CANCELLED"
    <3>1. position' = position
      BY <2>1, <2>2 DEF OrderTypeOK
    <3> QED BY <1>1, <3>1
  <2>3. CASE position[t] = "OPEN"
    <3>1. st[t] = "OPEN" /\ st' = [st EXCEPT ![t] = "CLOSED"] /\ sl' = sl
      BY <2>1, <2>3 DEF OrderTypeOK
    <3>2. Book!Close(t)
      BY <3>1 DEF Book!Close
    <3> QED BY <3>2 DEF Book!Next
  <2> QED BY <2>1, <2>2, <2>3 DEF OrderTypeOK
<1> QED BY <1>1, <1>2, <1>3, PositionStep

\* The live positions implement the position book: opened once, with their order,
\* written off for good.
THEOREM LiveBook == Spec => LiveImplementsBook
<1>1. Init => Book!Init
  BY DEF Init, Book!Init, Book!NoSlot
<1>2. OrderTypeOK /\ OrderInv /\ [Next]_vars => [Book!Next]_(Book!bookVars)
  BY BookStep
<1> QED BY <1>1, <1>2, OrderTypeCorrect, OrderInvariant, PTL
        DEF Spec, LiveImplementsBook, Book!Spec
=============================================================================
