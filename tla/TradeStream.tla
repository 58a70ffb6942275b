---------------------------- MODULE TradeStream ----------------------------
(***************************************************************************)
(* The reconnect loop of stream_trades; stream_market_trades has the same  *)
(* one.  A trade is handed over by creating a task, so it never holds the  *)
(* loop up.  Only three kinds of exception are caught: a message with a    *)
(* field of an unexpected type raises another one and ends the task.       *)
(***************************************************************************)
EXTENDS Integers

CONSTANTS MaxBackoff

ASSUME BackoffAssumption == MaxBackoff \in Nat \ {0}

VARIABLES
    conn,       \* where the stream's task stands, see Conns
    backoff,    \* seconds until the next attempt to connect
    shutdown    \* shutdown_event

stream == <<conn, backoff, shutdown>>

Alive == {"connecting", "subscribing", "open", "waiting"}
Conns == Alive \cup {"off", "ended", "died"}

InitStream == conn = "off" /\ backoff = 1 /\ shutdown = FALSE

\* the condition of the loop, and of the wait behind it
LoopTop == IF shutdown THEN "ended" ELSE "connecting"

\* Mutant: the loop is left for good
Leave == "ended"

AfterConnection == IF shutdown THEN "ended" ELSE "waiting"

\* Mutant: no upper bound
Doubled(b) == 2 * b

NextBackoff(b) == IF 2 * b <= MaxBackoff THEN 2 * b ELSE MaxBackoff

StartStream == conn' = LoopTop /\ backoff' = 1 /\ UNCHANGED shutdown

Connect == /\ conn = "connecting"
           /\ conn' = "subscribing"
           /\ backoff' = 1
           /\ UNCHANGED shutdown

Subscribe == /\ conn = "subscribing"
             /\ conn' = "open"
             /\ UNCHANGED <<backoff, shutdown>>

\* refused, closed, silent for too long, an error while connecting or sending
Drop == /\ conn \in {"connecting", "subscribing", "open"}
        /\ conn' = AfterConnection
        /\ UNCHANGED <<backoff, shutdown>>

\* the loop looks at the event when a message arrives
Notice == /\ conn = "open"
          /\ shutdown
          /\ conn' = "ended"
          /\ UNCHANGED <<backoff, shutdown>>

Malformed == /\ conn = "open"
             /\ ~shutdown
             /\ conn' = "died"
             /\ UNCHANGED <<backoff, shutdown>>

WaitOver == /\ conn = "waiting"
            /\ \/ /\ shutdown
                  /\ conn' = "ended"
                  /\ UNCHANGED backoff
               \/ /\ conn' = LoopTop
                  /\ backoff' = NextBackoff(backoff)
            /\ UNCHANGED shutdown

\* _ws_task.cancel()
CancelStream == /\ conn' = IF conn \in Alive THEN "ended" ELSE conn
                /\ UNCHANGED backoff

StreamStep == Connect \/ Subscribe \/ Drop \/ Notice \/ WaitOver
=============================================================================
