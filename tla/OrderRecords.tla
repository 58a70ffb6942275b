---------------------------- MODULE OrderRecords ----------------------------
(***************************************************************************)
(* What the live half owes its records: the rows of bot_orders and         *)
(* bot_positions against each other and against the exchange.              *)
(***************************************************************************)
EXTENDS OrderLifecycle

-----------------------------------------------------------------------------
OrderStates == {"ABSENT", "PENDING", "FILLED", "CANCELLED", "EXPIRED"}

\* a task only ever stands where tasks stand, and a job where jobs do
TaskPcs == {"idle", "watch", "done"} \cup Placing \cup Deciding
JobPcs  == {"idle", "loop"} \cup Deciding

\* Types: the ids in the rows are those of requests that were sent; an actor
\* about to write has a recorded order to write to.
Busy(a) == pc[a] \in Deciding
RoundBound == \A t \in Orders :
                /\ pc[t] = "watch" => polls[t] < MaxPolls
                /\ pc[t] \in Placing \cup {"idle"} => polls[t] = 0
OrderTypeOK ==
    /\ pc \in [Actors -> PcValues]
    /\ \A t \in Orders : pc[t] \in TaskPcs
    /\ \A j \in Jobs : pc[j] \in JobPcs
    /\ sends \in [Orders -> 0 .. MaxSends]
    /\ id \in [Orders -> 0 .. MaxSends]
    /\ exch \in [Attempts -> ExchStates]
    /\ order \in [Orders -> OrderStates]
    /\ position \in [Orders -> {"ABSENT", "OPEN", "CANCELLED"}]
    /\ polls \in [Orders -> 0 .. MaxPolls]
    /\ aged \subseteq Orders
    /\ todo \in [Jobs -> SUBSET Orders]
    /\ cur \in [Jobs -> Orders \cup {NoOrder}]
    /\ dbFaults \in 0 .. MaxDbFaults
    /\ crashes \in 0 .. MaxCrashes
    /\ hazard \subseteq HazardKinds
    /\ \A j \in Jobs : Busy(j) => cur[j] \in Orders
    /\ RoundBound

-----------------------------------------------------------------------------
\* Rows and exchange

\* Three actors write the two rows of one order without looking at them, and
\* still the rows never contradict each other in the direction that matters:
\* an order being followed has its position, an order that ended unfilled has
\* none, and FILLED is written only for an order the exchange has matched.
RowsAgree ==
    \A t \in Orders :
        /\ order[t] = "ABSENT" <=> position[t] = "ABSENT"
        /\ order[t] = "PENDING" => position[t] = "OPEN"
        /\ order[t] \in {"CANCELLED", "EXPIRED"} => position[t] = "CANCELLED"
        /\ order[t] = "FILLED" => OnExch(t) = "matched"

\* _expire_order and _mark_order_cancelled: a position is written off only when
\* the exchange has no such order any more, unless a cancel request was lost or
\* came after the fill.
WrittenOffIsDead ==
    "cancelMissed" \notin hazard =>
        \A t \in Orders : position[t] = "CANCELLED" =>
                              OnExch(t) \notin {"live", "matched"}

\* Every order on the exchange is one of ours in bot_orders, under the id of the
\* request that placed it: an order nobody follows needs a lost answer, a failed
\* transaction or a crash between the request and its record.
EveryOrderFollowed ==
    hazard \cap {"answerLost", "recordFailed", "crashUnrecorded"} = {} =>
        \A t \in Orders, k \in 1 .. MaxSends :
            exch[<<t, k>>] # "none" =>
                /\ id[t] = k
                /\ pc[t] = "record" \/ order[t] # "ABSENT"

\* The inductive strengthening of the three: what an actor is about to write is
\* true of the exchange already, and stays so; whatever has an actor, a snapshot
\* or an age is recorded.
VerdictTrue ==
    \A a \in Actors :
        /\ pc[a] = "FILLED" => OnExch(On(a)) = "matched"
        /\ pc[a] \in {"CANCELLED", "EXPIRED"} =>
               OnExch(On(a)) \in {"cancelled", "expired"}
        /\ pc[a] = "expire" /\ "cancelMissed" \notin hazard =>
               OnExch(On(a)) \notin {"live", "matched"}
IdIsSent ==
    \A t \in Orders :
        /\ id[t] <= sends[t]
        /\ \A k \in 1 .. MaxSends : exch[<<t, k>>] # "none" => k <= sends[t]
        /\ Known(t) => OnExch(t) # "none"
        /\ pc[t] \in {"idle", "post"} => ~Known(t)
        /\ pc[t] = "idle" => sends[t] = 0
Recorded ==
    /\ \A t \in Orders : pc[t] \in Placing \cup {"idle"} => order[t] = "ABSENT"
    /\ \A a \in Actors : Busy(a) => order[On(a)] # "ABSENT"
    /\ \A t \in Orders : pc[t] = "watch" => order[t] # "ABSENT"
    /\ \A j \in Jobs : \A t \in todo[j] : order[t] # "ABSENT"
OrderInv == /\ RowsAgree /\ WrittenOffIsDead /\ EveryOrderFollowed
            /\ VerdictTrue /\ IdIsSent /\ Recorded

\* The positions behave as PositionBook says, a slot per order: opened once,
\* with their order, and never reopened by a fill that is written late.
Book == INSTANCE PositionBook WITH
            Trades <- Orders,
            Slots  <- Orders,
            status <- [t \in Orders |-> IF position[t] = "CANCELLED"
                                        THEN "CLOSED" ELSE position[t]],
            slot   <- [t \in Orders |-> IF position[t] = "ABSENT" THEN <<>> ELSE t],
            blind  <- {}
LiveImplementsBook == Book!Spec

-----------------------------------------------------------------------------
\* Progress

\* No order is left PENDING, whatever happens to its monitor task: crashes and
\* failed transactions included, the cleanup job ends what is still open.
PendingEnds == \A t \in Orders : order[t] = "PENDING" ~> order[t] # "PENDING"

\* A task that took a signal returns: retries and polling rounds are bounded.
TaskEnds == \A t \in Orders : pc[t] # "idle" ~> pc[t] = "done"
=============================================================================
