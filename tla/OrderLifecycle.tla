--------------------------- MODULE OrderLifecycle ---------------------------
(***************************************************************************)
(* The live half of the bot: OrderExecutor.execute, once per accepted      *)
(* signal; the monitor task it leaves behind (_monitor_single_order); the  *)
(* two scheduler jobs that look at the same orders (monitor_open_orders    *)
(* and cancel_stale_orders); the retry loop of the CLOB client under them; *)
(* the bot_orders and bot_positions rows; and, as the environment, the     *)
(* exchange.                                                               *)
(*                                                                         *)
(* An order t is the task that executes it, the monitor task that follows  *)
(* and the two rows they write.  The exchange knows an order by the        *)
(* attempt <<t, k>>, the k-th request of t: a retried request is another   *)
(* order to it.  A request, an answer and a transaction are one action     *)
(* each; pc holds what an actor has decided to write and not written yet.  *)
(***************************************************************************)
EXTENDS Integers, FiniteSets

CONSTANTS
    Orders,         \* the signals that reach OrderExecutor.execute
    NoOrder,        \* "the job works on no order"
    MaxSends,       \* max_retries + 1 of _retry_request
    MaxPolls,       \* ORDER_FILL_TIMEOUT_SECONDS / poll_interval
    Faults,         \* which calls may fail, see FaultKinds
    MaxDbFaults,    \* bound on failed transactions
    MaxCrashes      \* bound on process crashes

Jobs       == {"poll", "stale"}
FaultKinds == {"post", "refuse", "get", "cancel", "db", "crash"}

ASSUME OrdersAssumption == NoOrder \notin Orders /\ Orders \cap Jobs = {}
ASSUME BoundsAssumption ==
    /\ MaxSends \in Nat \ {0}
    /\ MaxPolls \in Nat \ {0}
    /\ MaxDbFaults \in Nat
    /\ MaxCrashes \in Nat
ASSUME FaultsAssumption == Faults \subseteq FaultKinds

Actors   == Orders \cup Jobs
Attempts == Orders \X (1 .. MaxSends)

VARIABLES
    pc,         \* pc[a]: where a task or a job stands, see PcValues
    sends,      \* sends[t]: requests sent to place t
    id,         \* id[t]: the attempt whose order id was answered; 0: an
                \*        answer without one, recorded as the empty string
    exch,       \* exch[<<t, k>>]: the order on the exchange
    order,      \* order[t]: status in bot_orders
    position,   \* position[t]: status in bot_positions
    polls,      \* polls[t]: rounds of the loop of _monitor_single_order
    aged,       \* aged: orders placed ORDER_FILL_TIMEOUT_SECONDS ago or more
    todo,       \* todo[j]: orders of j's snapshot it has not visited yet
    cur,        \* cur[j]: the order j works on
    dbFaults, crashes,
    hazard      \* history: what has gone wrong so far, see HazardKinds

vars == <<pc, sends, id, exch, order, position, polls, aged, todo, cur,
          dbFaults, crashes, hazard>>
rows == <<order, position>>

Placing   == {"post", "record"}
Deciding  == {"FILLED", "CANCELLED", "EXPIRED", "cancel", "expire"}
PcValues  == {"idle", "watch", "loop", "done"} \cup Placing \cup Deciding
ExchStates  == {"none", "live", "matched", "cancelled", "expired"}
HazardKinds == {"answerLost", "recordFailed", "crashUnrecorded", "cancelMissed"}

-----------------------------------------------------------------------------
\* the order an actor works on, and the name the exchange knows it by
On(a)     == IF a \in Jobs THEN cur[a] ELSE a
Known(t)  == id[t] # 0
OnExch(t) == IF Known(t) THEN exch[<<t, id[t]>>] ELSE "none"

\* get_order_status: what the exchange says, PENDING for a body without status
Reported(t) == CASE OnExch(t) = "matched"   -> "FILLED"
                 [] OnExch(t) = "cancelled" -> "CANCELLED"
                 [] OnExch(t) = "expired"   -> "EXPIRED"
                 [] OTHER                   -> "PENDING"

Init ==
    /\ pc = [a \in Actors |-> "idle"]
    /\ sends = [t \in Orders |-> 0]
    /\ id = [t \in Orders |-> 0]
    /\ exch = [o \in Attempts |-> "none"]
    /\ order = [t \in Orders |-> "ABSENT"]
    /\ position = [t \in Orders |-> "ABSENT"]
    /\ polls = [t \in Orders |-> 0]
    /\ aged = {}
    /\ todo = [j \in Jobs |-> {}]
    /\ cur = [j \in Jobs |-> NoOrder]
    /\ dbFaults = 0
    /\ crashes = 0
    /\ hazard = {}

Goto(a, from, to) == /\ pc[a] = from
                     /\ pc' = [pc EXCEPT ![a] = to]

-----------------------------------------------------------------------------
\* OrderExecutor.execute

Execute(t) ==
    /\ Goto(t, "idle", "post")
    /\ UNCHANGED <<sends, id, exch, rows, polls, aged, todo, cur, dbFaults,
                   crashes, hazard>>

\* signing raises before anything is sent
SignFails(t) ==
    /\ "post" \in Faults
    /\ sends[t] = 0
    /\ Goto(t, "post", "done")
    /\ UNCHANGED <<sends, id, exch, rows, polls, aged, todo, cur, dbFaults,
                   crashes, hazard>>

\* the next request of _retry_request
NextSend(t) == /\ pc[t] = "post"
               /\ sends[t] < MaxSends
               /\ sends' = [sends EXCEPT ![t] = @ + 1]

\* Mutant: the answer is attributed to the first request
FirstSend(t) == 1

AnsweredSend(t) == sends[t] + 1

\* the exchange takes the order and its answer arrives
PostAccepted(t) ==
    /\ NextSend(t)
    /\ pc' = [pc EXCEPT ![t] = "record"]
    /\ id' = [id EXCEPT ![t] = AnsweredSend(t)]
    /\ exch' = [exch EXCEPT ![<<t, sends[t] + 1>>] = "live"]
    /\ UNCHANGED <<rows, polls, aged, todo, cur, dbFaults, crashes, hazard>>

\* what place_limit_order makes of an answer that names no order: the empty id,
\* or an exception when its body is not JSON
NoIdNext == {"record", "done"}

\* a 4xx other than 429: no retry
PostRefused(t) ==
    /\ "refuse" \in Faults
    /\ NextSend(t)
    /\ \E to \in NoIdNext : pc' = [pc EXCEPT ![t] = to]
    /\ UNCHANGED <<id, exch, rows, polls, aged, todo, cur, dbFaults, crashes,
                   hazard>>

\* the exchange takes the order, and its answer cannot be read
PostUnread(t) ==
    /\ "post" \in Faults
    /\ NextSend(t)
    /\ \E to \in NoIdNext : pc' = [pc EXCEPT ![t] = to]
    /\ exch' = [exch EXCEPT ![<<t, sends[t] + 1>>] = "live"]
    /\ hazard' = hazard \cup {"answerLost"}
    /\ UNCHANGED <<id, rows, polls, aged, todo, cur, dbFaults, crashes>>

\* Mutant: the loop is left without raising, and the task waits for ever
NeverRaises(t) == "post"

AfterFailure(t) == IF sends[t] + 1 = MaxSends THEN "done" ELSE "post"

\* 429, 5xx, a network error or a timeout; the exchange may have taken the
\* order all the same
PostFails(t) ==
    /\ "post" \in Faults
    /\ NextSend(t)
    /\ pc' = [pc EXCEPT ![t] = AfterFailure(t)]
    /\ \/ UNCHANGED <<exch, hazard>>
       \/ /\ exch' = [exch EXCEPT ![<<t, sends[t] + 1>>] = "live"]
          /\ hazard' = hazard \cup {"answerLost"}
    /\ UNCHANGED <<id, rows, polls, aged, todo, cur, dbFaults, crashes>>

\* clob_order_id is UNIQUE: there is room for one empty id
Unique(t) == Known(t) \/ \A u \in Orders : order[u] = "ABSENT" \/ Known(u)

\* the transaction that inserts the position and its order; then the alert,
\* and the monitor task is created
Record(t) ==
    /\ Goto(t, "record", "watch")
    /\ Unique(t)
    /\ order' = [order EXCEPT ![t] = "PENDING"]
    /\ position' = [position EXCEPT ![t] = "OPEN"]
    /\ UNCHANGED <<sends, id, exch, polls, aged, todo, cur, dbFaults, crashes,
                   hazard>>

DbFault == /\ "db" \in Faults
           /\ dbFaults < MaxDbFaults
           /\ dbFaults' = dbFaults + 1

\* it raises: the exception leaves execute, the order stays on the exchange
RecordFails(t) ==
    /\ Goto(t, "record", "done")
    /\ \/ DbFault
       \/ ~Unique(t) /\ dbFaults' = dbFaults
    /\ hazard' = hazard \cup (IF Known(t) THEN {"recordFailed"} ELSE {})
    /\ UNCHANGED <<sends, id, exch, rows, polls, aged, todo, cur, crashes>>

-----------------------------------------------------------------------------
\* _monitor_single_order

\* Mutant: one round too many
ExtraRound(t) == IF polls[t] >= MaxPolls THEN "cancel" ELSE "watch"

\* nothing decided in this round: the next one, or the timeout is reached
NextRound(t) == IF polls[t] + 1 = MaxPolls THEN "cancel" ELSE "watch"

\* sleep and get_order_status; a call that raises counts as PENDING
WatchPoll(t) ==
    /\ pc[t] = "watch"
    /\ polls' = [polls EXCEPT ![t] = @ + 1]
    /\ polls[t] + 1 = MaxPolls => t \in aged
    /\ \/ /\ Reported(t) # "PENDING"
          /\ pc' = [pc EXCEPT ![t] = Reported(t)]
       \/ /\ Reported(t) = "PENDING" \/ "get" \in Faults
          /\ pc' = [pc EXCEPT ![t] = NextRound(t)]
    /\ UNCHANGED <<sends, id, exch, rows, aged, todo, cur, dbFaults, crashes,
                   hazard>>

-----------------------------------------------------------------------------
\* monitor_open_orders and cancel_stale_orders

\* Mutant: only orders that are not old yet
YoungOnly(j) == {t \in Orders : /\ order[t] = "PENDING"
                                /\ j = "stale" => t \notin aged}

Snapshot(j) == {t \in Orders : /\ order[t] = "PENDING"
                               /\ j = "stale" => t \in aged}

\* Mutant: a run that has nothing left to do never counts as ended
LoopPcStuck(rest) == "loop"

LoopPc(rest) == IF rest = {} THEN "idle" ELSE "loop"

JobStart(j) ==
    /\ pc[j] = "idle"
    /\ todo' = [todo EXCEPT ![j] = Snapshot(j)]
    /\ pc' = [pc EXCEPT ![j] = LoopPc(Snapshot(j))]
    /\ UNCHANGED <<sends, id, exch, rows, polls, aged, cur, dbFaults, crashes,
                   hazard>>

Visit(j, t) == /\ pc[j] = "loop"
               /\ t \in todo[j]
               /\ todo' = [todo EXCEPT ![j] = @ \ {t}]

\* the order is still PENDING, or get_order_status raises: on to the next
PollSkip(t) ==
    /\ Visit("poll", t)
    /\ Reported(t) = "PENDING" \/ "get" \in Faults
    /\ pc' = [pc EXCEPT !["poll"] = LoopPc(todo["poll"] \ {t})]
    /\ UNCHANGED <<sends, id, exch, rows, polls, aged, cur, dbFaults, crashes,
                   hazard>>

PollDecides(t) ==
    /\ Visit("poll", t)
    /\ Reported(t) # "PENDING"
    /\ pc' = [pc EXCEPT !["poll"] = Reported(t)]
    /\ cur' = [cur EXCEPT !["poll"] = t]
    /\ UNCHANGED <<sends, id, exch, rows, polls, aged, dbFaults, crashes, hazard>>

StaleDecides(t) ==
    /\ Visit("stale", t)
    /\ pc' = [pc EXCEPT !["stale"] = "cancel"]
    /\ cur' = [cur EXCEPT !["stale"] = t]
    /\ UNCHANGED <<sends, id, exch, rows, polls, aged, dbFaults, crashes, hazard>>

-----------------------------------------------------------------------------
\* What the monitor task and the jobs do with an order

\* the task returns, the job goes on to its next order
Finish(a) ==
    IF a \in Jobs
    THEN /\ pc' = [pc EXCEPT ![a] = LoopPc(todo[a])]
         /\ cur' = [cur EXCEPT ![a] = NoOrder]
    ELSE /\ pc' = [pc EXCEPT ![a] = "done"]
         /\ cur' = cur

\* Mutant: the fill opens the position again
MarkFilledReopens(a) ==
    /\ pc[a] = "FILLED"
    /\ order' = [order EXCEPT ![On(a)] = "FILLED"]
    /\ position' = [position EXCEPT ![On(a)] = "OPEN"]
    /\ Finish(a)
    /\ UNCHANGED <<sends, id, exch, polls, aged, todo, dbFaults, crashes, hazard>>

\* _mark_order_filled: neither row's present status is looked at, and the
\* position's is not written
MarkFilled(a) ==
    /\ pc[a] = "FILLED"
    /\ order' = [order EXCEPT ![On(a)] = "FILLED"]
    /\ Finish(a)
    /\ UNCHANGED <<sends, id, exch, position, polls, aged, todo, dbFaults,
                   crashes, hazard>>

\* Mutant: the position is left OPEN
MarkCancelledOrder(a) ==
    /\ pc[a] \in {"CANCELLED", "EXPIRED"}
    /\ order' = [order EXCEPT ![On(a)] = pc[a]]
    /\ Finish(a)
    /\ UNCHANGED <<sends, id, exch, position, polls, aged, todo, dbFaults,
                   crashes, hazard>>

\* _mark_order_cancelled
MarkCancelled(a) ==
    /\ pc[a] \in {"CANCELLED", "EXPIRED"}
    /\ order' = [order EXCEPT ![On(a)] = pc[a]]
    /\ position' = [position EXCEPT ![On(a)] = "CANCELLED"]
    /\ Finish(a)
    /\ UNCHANGED <<sends, id, exch, polls, aged, todo, dbFaults, crashes, hazard>>

\* _expire_order, cancel_order: the request may come too late or be lost, and
\* what it answers is only logged
Cancel(a) ==
    /\ Goto(a, "cancel", "expire")
    /\ \/ /\ OnExch(On(a)) = "live"
          /\ exch' = [exch EXCEPT ![<<On(a), id[On(a)]>>] = "cancelled"]
          /\ UNCHANGED hazard
       \/ /\ OnExch(On(a)) # "live" \/ "cancel" \in Faults
          /\ exch' = exch
          /\ hazard' = hazard \cup (IF OnExch(On(a)) \in {"live", "matched"}
                                    THEN {"cancelMissed"} ELSE {})
    /\ UNCHANGED <<sends, id, rows, polls, aged, todo, cur, dbFaults, crashes>>

\* _expire_order, the transaction
Expire(a) ==
    /\ pc[a] = "expire"
    /\ order' = [order EXCEPT ![On(a)] = "EXPIRED"]
    /\ position' = [position EXCEPT ![On(a)] = "CANCELLED"]
    /\ Finish(a)
    /\ UNCHANGED <<sends, id, exch, polls, aged, todo, dbFaults, crashes, hazard>>

\* the transaction raises: nothing in the task or in the job's loop catches it
WriteFails(a) ==
    /\ pc[a] \in Deciding \ {"cancel"}
    /\ DbFault
    /\ pc' = [pc EXCEPT ![a] = IF a \in Jobs THEN "idle" ELSE "done"]
    /\ IF a \in Jobs
       THEN /\ todo' = [todo EXCEPT ![a] = {}]
            /\ cur' = [cur EXCEPT ![a] = NoOrder]
       ELSE UNCHANGED <<todo, cur>>
    /\ UNCHANGED <<sends, id, exch, rows, polls, aged, crashes, hazard>>

-----------------------------------------------------------------------------
\* The environment: the exchange, the clock, the process

\* the exchange fills an order, or ends it by itself
ExchangeEnds(o) ==
    /\ exch[o] = "live"
    /\ \E s \in {"matched", "cancelled", "expired"} : exch' = [exch EXCEPT ![o] = s]
    /\ UNCHANGED <<pc, sends, id, rows, polls, aged, todo, cur, dbFaults,
                   crashes, hazard>>

Age(t) ==
    /\ order[t] # "ABSENT"
    /\ t \notin aged
    /\ aged' = aged \cup {t}
    /\ UNCHANGED <<pc, sends, id, exch, rows, polls, todo, cur, dbFaults,
                   crashes, hazard>>

Unrecorded(t) == \/ pc[t] = "record" /\ Known(t)
                 \/ pc[t] = "post" /\ sends[t] > 0

\* tasks and snapshots are gone, the rows and the exchange are not; a request
\* on its way may still reach the exchange: that is PostFails before the crash
Crash ==
    /\ "crash" \in Faults
    /\ crashes < MaxCrashes
    /\ crashes' = crashes + 1
    /\ pc' = [a \in Actors |-> IF a \in Jobs \/ pc[a] = "idle" THEN "idle" ELSE "done"]
    /\ todo' = [j \in Jobs |-> {}]
    /\ cur' = [j \in Jobs |-> NoOrder]
    /\ hazard' = hazard \cup (IF \E t \in Orders : Unrecorded(t)
                              THEN {"crashUnrecorded"} ELSE {})
    /\ UNCHANGED <<sends, id, exch, rows, polls, aged, dbFaults>>

-----------------------------------------------------------------------------
Place(t) == \/ SignFails(t) \/ PostAccepted(t) \/ PostRefused(t)
            \/ PostUnread(t) \/ PostFails(t)
            \/ Record(t) \/ RecordFails(t)

Settle(a) == \/ MarkFilled(a) \/ MarkCancelled(a)
             \/ Cancel(a) \/ Expire(a) \/ WriteFails(a)

JobStep(j) == \/ Settle(j)
              \/ \E t \in Orders : \/ j = "poll" /\ (PollSkip(t) \/ PollDecides(t))
                                   \/ j = "stale" /\ StaleDecides(t)

TaskStep(t) == Place(t) \/ WatchPoll(t) \/ Settle(t)

Next == \/ \E t \in Orders : Execute(t) \/ TaskStep(t) \/ Age(t)
        \/ \E j \in Jobs : JobStart(j) \/ JobStep(j)
        \/ \E o \in Attempts : ExchangeEnds(o)
        \/ Crash

Spec == Init /\ [][Next]_vars

\* Tasks run, every request and transaction answers or raises (the client has
\* timeouts), time passes, the scheduler fires the jobs again.  The exchange
\* owes nothing: an order may stay live for ever.
Fairness == /\ \A t \in Orders : WF_vars(TaskStep(t)) /\ WF_vars(Age(t))
            /\ \A j \in Jobs : WF_vars(JobStart(j)) /\ WF_vars(JobStep(j))

FairSpec == Spec /\ Fairness
=============================================================================
