------------------------------ MODULE ListKept ------------------------------
(***************************************************************************)
(* Properties of LiveWatch.                                                *)
(***************************************************************************)
EXTENDS LiveWatch

ListTyped ==
    /\ map \in [Wallets -> Nat] /\ zset \in [Wallets -> Nat]
    /\ rpc \in [Refreshes -> RefreshPc]
    /\ work \in [Refreshes -> [Wallets -> Nat]]
    /\ shield \in [Refreshes -> SUBSET Wallets]
    /\ copied \in SUBSET Wallets /\ exposed \in SUBSET copied
    /\ owner \in Refreshes /\ stale \in BOOLEAN

StreamTyped == conn \in Conns /\ backoff \in 1 .. MaxBackoff /\ shutdown \in BOOLEAN

RunTyped == /\ sim \in BOOLEAN /\ phase \in Phases /\ following \in SUBSET Wallets
            /\ pipe \in [Wallets -> Stages]

\* Types; a wait between two attempts is never longer than the upper bound.
WatchTypeOK == ListTyped /\ StreamTyped /\ RunTyped

\* A wallet that was on the list when its position was opened stays on it while the
\* position is open, whatever two refreshes decide in between, unless the process
\* ended or a refresh had read the positions before this one.
PositionsProtect == \A w \in copied : map[w] # 0 \/ w \in exposed

\* With no refresh between its two writes, Redis holds the map in memory, unless
\* Redis or the table failed, two refreshes wrote at once, or the process ended.
RedisMirrors ==
    (~stale /\ \A r \in Refreshes : rpc[r] \notin Writing) => zset = map

\* A map that is being written to Redis is the one in memory, or Redis is marked
\* stale.
WriterOwns ==
    \A r \in Refreshes : (~stale /\ rpc[r] \in Writing) => work[r] = map

\* No wallet below WHALE_SCORE_FLOOR is ever listed, in memory or in Redis: not by
\* its rank, and not by being retained.
ListedAboveFloor ==
    \A w \in Wallets : \A s \in {map, zset, work["startup"], work["nightly"]} :
        s[w] = 0 \/ s[w] >= Floor

ListInv == PositionsProtect /\ RedisMirrors /\ WriterOwns /\ ListedAboveFloor

\* While run() waits for its shutdown event the stream's task is in its loop, however
\* often it was refused or cut off, unless a message of an unexpected type killed
\* it or a simulated bot got no markets at start-up: neither is ever repaired.
StreamKept == (phase = "running" /\ ~shutdown) =>
                  (conn \in Alive \cup {"died"} \/ (sim /\ conn = "ended"))

\* A trade gets past the score gate of a wallet that is not on the list in memory only
\* while a refresh is writing or Redis may be out of step with it.
EvictedNotCopied ==
    [][\A w \in Wallets :
          (pipe[w] # "pass" /\ pipe'[w] = "pass" /\ map[w] = 0)
              => (stale \/ \E r \in Refreshes : rpc[r] \in Writing)]_vars

\* After a signal the process ends, in whatever phase it came: during the first refresh
\* too, which is not interrupted, and with the stream in the middle of a wait.
ShutdownEnds == shutdown ~> (phase = "down")
=============================================================================
