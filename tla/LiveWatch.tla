----------------------------- MODULE LiveWatch -----------------------------
(***************************************************************************)
(* WhaleBot.run: start-up with its refresh, the stream, the pipelines that *)
(* look a wallet up, shutdown, and processes that die.  A live bot follows *)
(* the wallets of its list, a simulated one the markets Gamma returns.     *)
(***************************************************************************)
EXTENDS WhitelistRefresh, TradeStream

VARIABLES
    sim,        \* SIMULATION_MODE
    phase,      \* where run() stands
    following,  \* the wallets the stream was started with
    pipe        \* pipe[w]: the pipeline of a trade of wallet w

run  == <<sim, phase, following>>
vars == <<list, stream, run, pipe>>

Phases == {"down", "starting", "running", "stopping", "closing"}
Stages == {"none", "trade", "ask", "pass"}

NoTrades == [w \in Wallets |-> "none"]

Init == /\ InitList /\ InitStream
        /\ sim \in BOOLEAN
        /\ phase = "down"
        /\ following = {}
        /\ pipe = NoTrades

InProcess == phase # "down"

-----------------------------------------------------------------------------
\* run()

\* The scheduler and the monitor are already up while the first refresh runs.
Boot == /\ phase = "down"
        /\ phase' = "starting"
        /\ Begin("startup")
        /\ UNCHANGED <<stream, sim, following, pipe>>

\* get_whitelist: an empty map sends it to Redis
Listed == IF map # NoScores THEN {In(map)}
          ELSE {In(zset)} \cup (IF "redis" \in Faults THEN {{}} ELSE {})

\* The refresh is over.  Without a token a simulated stream returns at once, and
\* Gamma's failures return no markets.
Wire == /\ phase = "starting"
        /\ rpc["startup"] = "idle"
        /\ phase' = "running"
        /\ \/ /\ ~sim
              /\ following' \in Listed
              /\ StartStream
           \/ /\ sim
              /\ following' = {}
              /\ StartStream
           \/ /\ sim
              /\ following' = {}
              /\ conn' = "ended"
              /\ UNCHANGED <<backoff, shutdown>>
        /\ UNCHANGED <<list, sim, pipe>>

\* _shutdown sets the event and waits for the dashboard's task to end
Shutdown == /\ phase' = "stopping"
            /\ shutdown' = TRUE
            /\ UNCHANGED <<conn, backoff, sim, following, pipe>>

\* The first refresh raises, or the balance or the start-up notice after it.
Fatal == /\ phase = "starting"
         /\ "db" \in Faults
         /\ rpc["startup"] \in {"idle", "failed"}
         /\ Shutdown
         /\ UNCHANGED list

\* Mutant: run() waits for its stream
StopSeen == conn = "ended"

StopAsked == shutdown

Stop == /\ phase = "running"
        /\ StopAsked
        /\ Shutdown
        /\ UNCHANGED list

\* _shutdown, behind that wait: until now the stream's task has been going on
Cancel == /\ phase = "stopping"
          /\ phase' = "closing"
          /\ CancelStream
          /\ UNCHANGED <<list, shutdown, sim, following, pipe>>

Signal == /\ InProcess
          /\ ~shutdown
          /\ shutdown' = TRUE
          /\ UNCHANGED <<list, conn, backoff, run, pipe>>

ProcessEnds == /\ phase' = "down"
               /\ LoseList
               /\ conn' = "off" /\ backoff' = 1 /\ shutdown' = FALSE
               /\ following' = {}
               /\ pipe' = NoTrades
               /\ UNCHANGED sim

Exit  == phase = "closing" /\ ProcessEnds
Crash == InProcess /\ ProcessEnds

-----------------------------------------------------------------------------
\* The nightly job, the refreshes and the stream

NightlyBegins == /\ InProcess
                 /\ Begin("nightly")
                 /\ UNCHANGED <<stream, run, pipe>>

Refreshing(r) == /\ RefreshStep(r)
                 /\ UNCHANGED <<stream, run, pipe>>

NightlyFails == Settle("nightly") /\ UNCHANGED <<stream, run, pipe>>

Streaming == StreamStep /\ UNCHANGED <<list, run, pipe>>

BadMessage == /\ "malformed" \in Faults
              /\ Malformed
              /\ UNCHANGED <<list, run, pipe>>

-----------------------------------------------------------------------------
\* Pipelines of a live bot

At(w, from, to) == pipe[w] = from /\ pipe' = [pipe EXCEPT ![w] = to]

\* _handle_message: wallets the stream was not started with are skipped
Receive(w) == /\ conn = "open" /\ ~shutdown
              /\ w \in following
              /\ At(w, "none", "trade")
              /\ UNCHANGED <<list, stream, run>>

\* what the signal engine demands of a score
Enough(score) == score >= Floor

LookUp(w) == /\ \/ map[w] = 0 /\ At(w, "trade", "ask")
                \/ map[w] # 0 /\ Enough(map[w]) /\ At(w, "trade", "pass")
             /\ UNCHANGED <<list, stream, run>>

AskRedis(w) == /\ \/ Enough(zset[w]) /\ At(w, "ask", "pass")
                  \/ ~Enough(zset[w]) /\ At(w, "ask", "none")
               /\ UNCHANGED <<list, stream, run>>

\* the wallet's score, the other gates or the executor
Rejected(w) == /\ \/ map[w] # 0 /\ ~Enough(map[w]) /\ At(w, "trade", "none")
                  \/ "redis" \in Faults /\ At(w, "ask", "none")
                  \/ At(w, "pass", "none")
               /\ UNCHANGED <<list, stream, run>>

Placed(w) == /\ At(w, "pass", "none")
             /\ OpenCopy(w)
             /\ UNCHANGED <<stream, run>>

Closed(w) == /\ InProcess
             /\ CloseCopies(w)
             /\ UNCHANGED <<stream, run, pipe>>

Pipeline(w) == LookUp(w) \/ AskRedis(w) \/ Rejected(w) \/ Placed(w)

-----------------------------------------------------------------------------
Next == \/ Boot \/ Wire \/ Fatal \/ Stop \/ Signal \/ Cancel \/ Exit \/ Crash
        \/ NightlyBegins \/ NightlyFails
        \/ \E r \in Refreshes : Refreshing(r)
        \/ Streaming \/ BadMessage
        \/ \E w \in Wallets : Receive(w) \/ Pipeline(w) \/ Closed(w)

Spec == Init /\ [][Next]_vars

Progress == /\ WF_vars(Wire \/ Fatal) /\ WF_vars(Stop)
            /\ WF_vars(Cancel) /\ WF_vars(Exit)
            /\ \A r \in Refreshes : WF_vars(Refreshing(r))

FairSpec == Spec /\ Progress
=============================================================================
