-------------------------- MODULE WhitelistRefresh --------------------------
(***************************************************************************)
(* WhitelistManager: the map in memory, the sorted set in Redis, and       *)
(* refresh_whitelist.  Two refreshes may overlap, the one start-up waits   *)
(* for and the nightly job.  A score of 0 means that the wallet is not     *)
(* there.  The table of scores only limits who is a candidate: any wallet  *)
(* may be one here.                                                        *)
(***************************************************************************)
EXTENDS Integers, FiniteSets, Functions

CONSTANTS
    Wallets,
    Scores,       \* what the scorer may answer, see WhaleScore
    Floor,        \* WHALE_SCORE_FLOOR
    MaxSize,      \* WHITELIST_MAX_SIZE
    Tiers,        \* the last ranks of the three upper tiers: 10, 30, 60
    Faults        \* which calls may fail: "db", "redis", "malformed"

ASSUME WalletsAssumption == IsFiniteSet(Wallets) /\ Scores \subseteq Nat
ASSUME FloorAssumption   == Floor \in Nat \ {0} /\ MaxSize \in Nat
ASSUME TiersAssumption   == Tiers \in [1 .. 3 -> Nat]
ASSUME FaultsAssumption  == Faults \subseteq {"db", "redis", "malformed"}

VARIABLES
    map,       \* _in_memory
    zset,      \* whale:whitelist in Redis
    rpc,       \* rpc[r]: where refresh r stands
    work,      \* work[r]: the new map it still has to write
    shield,    \* shield[r]: the wallets it read as having open positions
    copied,    \* the wallets some open position was copied from
    exposed,   \* history: those of them that lost, or never had, protection
    owner,     \* history: the refresh that replaced the map last
    stale      \* history: the sorted set may differ from the map

refresh  == <<rpc, work, shield>>
history  == <<exposed, owner, stale>>
list     == <<map, zset, refresh, copied, history>>

Refreshes == {"startup", "nightly"}
Writing   == {"persist", "mirror"}
RefreshPc == {"idle", "gather", "swap", "failed"} \cup Writing

NoScores  == [w \in Wallets |-> 0]
In(s)     == {w \in Wallets : s[w] # 0}

InitList ==
    /\ map = NoScores /\ zset = NoScores
    /\ rpc = [r \in Refreshes |-> "idle"]
    /\ work = [r \in Refreshes |-> NoScores]
    /\ shield = [r \in Refreshes |-> {}]
    /\ copied = {} /\ exposed = {}
    /\ owner = "startup" /\ stale = FALSE

-----------------------------------------------------------------------------
\* Scores

RankScore(i) == CASE i <= Tiers[1] -> 85
                  [] i > Tiers[1] /\ i <= Tiers[2] -> 75
                  [] i > Tiers[2] /\ i <= Tiers[3] -> 65
                  [] OTHER -> 58

\* _score_from_leaderboard_ranks, for any order of the candidates c
ByRank(c) ==
    {[w \in Wallets |-> IF w \in c /\ o[w] <= MaxSize THEN RankScore(o[w]) ELSE 0]
        : o \in Bijection(c, 1 .. Cardinality(c))}

\* No trades, a market maker, too few data and a failed call all give no score.
ByHistory(c) == {s \in [Wallets -> Scores \cup {0}] : In(s) \subseteq c}

\* Without a key, or without a single score, the ranks stand in for all.
ScoresOf(c) == ByRank(c) \cup (ByHistory(c) \ {NoScores})

\* Mutant: everybody is good enough
AnyScore(s) == In(s)

Eligible(s) == {w \in Wallets : s[w] >= Floor}

Tops(s) ==
    LET e == Eligible(s) IN
    {t \in SUBSET e :
        /\ Cardinality(t) = IF Cardinality(e) <= MaxSize THEN Cardinality(e)
                                                         ELSE MaxSize
        /\ \A v \in t, w \in e \ t : s[v] >= s[w]}

-----------------------------------------------------------------------------
\* refresh_whitelist

Begin(r) == /\ rpc[r] = "idle"
            /\ rpc' = [rpc EXCEPT ![r] = "gather"]
            /\ UNCHANGED <<map, zset, work, shield, copied, history>>

\* _get_wallets_with_open_positions, after the candidates were scored
ReadShield(r) ==
    /\ rpc[r] = "gather"
    /\ rpc' = [rpc EXCEPT ![r] = "swap"]
    /\ shield' = [shield EXCEPT ![r] = copied]
    /\ UNCHANGED <<map, zset, work, copied, history>>

\* Mutant: the difference the wrong way round
RetainAdded(r, top) == (top \ In(map)) \cap shield[r]

Retained(r, top) == (In(map) \ top) \cap shield[r]

NewMap(r, s, top) ==
    [w \in Wallets |-> IF w \in top THEN s[w]
                       ELSE IF w \in Retained(r, top) THEN map[w]
                       ELSE 0]

\* whether another refresh has replaced the map and not written it yet
OthersWrite(r) == \E q \in Refreshes \ {r} : rpc[q] \in Writing

\* The scores depend on nothing else the bot changes: they are chosen here.
Swap(r) ==
    /\ rpc[r] = "swap"
    /\ \E c \in SUBSET Wallets : \E s \in ScoresOf(c) : \E top \in Tops(s) :
          LET new == NewMap(r, s, top) IN
          /\ map' = new
          /\ work' = [work EXCEPT ![r] = new]
          /\ exposed' = {w \in exposed \cup (copied \ shield[r]) : new[w] = 0}
    /\ rpc' = [rpc EXCEPT ![r] = "persist"]
    /\ shield' = [shield EXCEPT ![r] = {}]
    /\ owner' = r
    /\ stale' = (stale \/ OthersWrite(r))
    /\ UNCHANGED <<zset, copied>>

\* _persist_scores: nothing reads the table before the next refresh
Persist(r) ==
    /\ rpc[r] = "persist"
    /\ rpc' = [rpc EXCEPT ![r] = "mirror"]
    /\ UNCHANGED <<map, zset, work, shield, copied, history>>

Ended(r, end) == /\ rpc' = [rpc EXCEPT ![r] = end]
                 /\ work' = [work EXCEPT ![r] = NoScores]
                 /\ shield' = [shield EXCEPT ![r] = {}]

\* Mutant: the old members are not deleted
AddOnly(r) == [w \in Wallets |-> IF work[r][w] = 0 THEN zset[w] ELSE work[r][w]]

NewZset(r) == work[r]

\* _update_redis_whitelist: one transaction
Mirror(r) ==
    /\ rpc[r] = "mirror"
    /\ Ended(r, "idle")
    /\ zset' = NewZset(r)
    /\ stale' = (stale /\ (r # owner \/ OthersWrite(r)))
    /\ UNCHANGED <<map, copied, exposed, owner>>

\* its failure is logged; it may have had its effect
MirrorFails(r) ==
    /\ "redis" \in Faults
    /\ rpc[r] = "mirror"
    /\ Ended(r, "idle")
    /\ zset' \in {zset, NewZset(r)}
    /\ stale' = TRUE
    /\ UNCHANGED <<map, copied, exposed, owner>>

\* A failing query or transaction ends the refresh, the last of them after the
\* map was replaced.
RefreshRaises(r) ==
    /\ "db" \in Faults
    /\ rpc[r] \in {"gather", "persist"}
    /\ rpc[r] = "persist" => work[r] # NoScores
    /\ Ended(r, "failed")
    /\ stale' = (stale \/ rpc[r] = "persist")
    /\ UNCHANGED <<map, zset, copied, exposed, owner>>

\* _whitelist_refresh_job logs the failure
Settle(r) == /\ rpc[r] = "failed"
             /\ Ended(r, "idle")
             /\ UNCHANGED <<map, zset, copied, history>>

RefreshStep(r) == \/ ReadShield(r) \/ Swap(r) \/ Persist(r)
                  \/ Mirror(r) \/ MirrorFails(r) \/ RefreshRaises(r)

-----------------------------------------------------------------------------
\* Positions

OpenCopy(w) ==
    /\ copied' = copied \cup {w}
    /\ exposed' = IF map[w] = 0 THEN exposed \cup {w} ELSE exposed
    /\ UNCHANGED <<map, zset, refresh, owner, stale>>

CloseCopies(w) ==
    /\ w \in copied
    /\ copied' = copied \ {w}
    /\ exposed' = exposed \ {w}
    /\ UNCHANGED <<map, zset, refresh, owner, stale>>

\* the process ends: what was in memory is gone
LoseList ==
    /\ map' = NoScores
    /\ rpc' = [r \in Refreshes |-> "idle"]
    /\ work' = [r \in Refreshes |-> NoScores]
    /\ shield' = [r \in Refreshes |-> {}]
    /\ exposed' = copied
    /\ stale' = TRUE
    /\ UNCHANGED <<zset, copied, owner>>
=============================================================================
