---------------------------- MODULE WhaleLedger ----------------------------
(***************************************************************************)
(* PositionLedger.update, run by one pipeline task per incoming trade, over*)
(* Redis and the in-memory fallback.  Each call to Redis is a step: the    *)
(* entry is read to classify the trade, read again, and written or deleted;*)
(* a write is HSET and then EXPIRE.  No lock spans them.  A call that is on*)
(* its way when another one fails counts as issued before it.              *)
(*                                                                         *)
(* Prices are left out: avg_price only feeds classify_trade_with_size,     *)
(* which no caller in the program uses.                                    *)
(***************************************************************************)
EXTENDS LedgerEntries, FiniteSets

CONSTANTS
    Trades,         \* incoming trade events
    Keys,           \* ledger keys, one per wallet and market
    KeyOf,          \* KeyOf[t]: the key of trade t
    MaxSize,        \* bound on the size of a trade
    MaxCrashes      \* bound on restarts of the bot

ASSUME KeyAssumption  == KeyOf \in [Trades -> Keys]
ASSUME TradesAssumption == IsFiniteSet(Trades)
ASSUME SizeAssumption == MaxSize \in Nat \ {0}
ASSUME CrashAssumption == MaxCrashes \in Nat

VARIABLES
    pc,         \* pc[t]: the next call of update(t)
    side, size, \* side[t], size[t]: the trade
    cls,        \* cls[t]: what classify_trade answered
    cur,        \* cur[t]: the entry read last, then the one being saved
    redis,      \* redis[k]: the hash of a key
    ttl,        \* the keys whose hash has an expiry time
    fallback,   \* fallback[k]: the in-memory entry
    redisOk,    \* _redis_ok
    crashes,
    book,       \* history: book[k], trades applied one by one since the store
                \*          in use became the one in use
    tainted,    \* history: keys whose updates overlapped each other or a switch
    leaked      \* history: keys whose EXPIRE was lost

task    == <<pc, side, size, cls, cur>>
history == <<book, tainted, leaked>>
vars    == <<task, redis, ttl, fallback, redisOk, crashes, history>>

Held     == {"reload", "write", "expire"}   \* update(t) holds something it read
InFlight == Held \cup {"classify"}
Stores   == [Keys -> Entries \cup {NoEntry}]
Empty    == [k \in Keys |-> NoEntry]

Stored(k) == IF redisOk THEN redis[k] ELSE fallback[k]

Init ==
    /\ pc = [t \in Trades |-> "idle"]
    /\ side = [t \in Trades |-> "BUY"]
    /\ size = [t \in Trades |-> 1]
    /\ cls = [t \in Trades |-> "ENTRY"]
    /\ cur = [t \in Trades |-> NoEntry]
    /\ redis = Empty
    /\ ttl = {}
    /\ fallback = Empty
    /\ redisOk = TRUE
    /\ crashes = 0
    /\ book = Empty
    /\ tainted = {}
    /\ leaked = {}

Goto(t, from, to) == /\ pc[t] = from
                     /\ pc' = [pc EXCEPT ![t] = to]

\* A failed call switches to the fallback for good: whatever the tasks hold
\* from Redis they will write to a store that has never seen it.
SwitchStore(newFallback) ==
    /\ redisOk' = FALSE
    /\ fallback' = newFallback
    /\ IF redisOk
       THEN /\ book' = newFallback
            /\ tainted' = tainted \cup {KeyOf[u] : u \in {v \in Trades : pc[v] \in Held}}
       ELSE UNCHANGED <<book, tainted>>

\* the trade of t is in the store now
Booked(t) == book' = [book EXCEPT ![KeyOf[t]] = Apply(@, side[t], size[t])]

-----------------------------------------------------------------------------
Overlaps(t) == \E u \in Trades \ {t} : KeyOf[u] = KeyOf[t] /\ pc[u] \in InFlight

Receive(t) ==
    /\ Goto(t, "idle", "classify")
    /\ \E s \in Sides, n \in 1 .. MaxSize :
          /\ side' = [side EXCEPT ![t] = s]
          /\ size' = [size EXCEPT ![t] = n]
    /\ tainted' = tainted \cup (IF Overlaps(t) THEN {KeyOf[t]} ELSE {})
    /\ UNCHANGED <<cls, cur, redis, ttl, fallback, redisOk, crashes, book, leaked>>

\* Mutant: an entry of the other side counts as none
ClassifyBlind(e, s) == IF e.side = s THEN "ADD" ELSE "ENTRY"

\* classify_trade: is_flat is the size, NoEntry stands for None
Classify(e, s) == IF e.size = 0 THEN "ENTRY"
                  ELSE IF e.side = s THEN "ADD" ELSE "EXIT"

ClassifyTrade(t) ==
    /\ Goto(t, "classify", "reload")
    /\ cls' = [cls EXCEPT ![t] = Classify(Stored(KeyOf[t]), side[t])]
    /\ UNCHANGED <<side, size, cur, redis, ttl, fallback, redisOk, crashes, history>>

ClassifyFails(t) ==
    /\ redisOk
    /\ Goto(t, "classify", "reload")
    /\ cls' = [cls EXCEPT ![t] = Classify(fallback[KeyOf[t]], side[t])]
    /\ SwitchStore(fallback)
    /\ UNCHANGED <<side, size, cur, redis, ttl, crashes, leaked>>

\* an exit that finds no entry has nothing to write
AfterReload(t, e) == IF cls[t] = "EXIT" /\ e = NoEntry THEN "done" ELSE "write"

Reload(t) ==
    /\ Goto(t, "reload", AfterReload(t, Stored(KeyOf[t])))
    /\ cur' = [cur EXCEPT ![t] = Stored(KeyOf[t])]
    /\ UNCHANGED <<side, size, cls, redis, ttl, fallback, redisOk, crashes, history>>

ReloadFails(t) ==
    /\ redisOk
    /\ Goto(t, "reload", AfterReload(t, fallback[KeyOf[t]]))
    /\ cur' = [cur EXCEPT ![t] = fallback[KeyOf[t]]]
    /\ SwitchStore(fallback)
    /\ UNCHANGED <<side, size, cls, redis, ttl, crashes, leaked>>

-----------------------------------------------------------------------------
\* the sizes written back: the class is that of the first read, the entry that
\* of the second
Increased(t) == Entry(side[t], cur[t].size + size[t], cur[t].count + 1)

\* Mutant: neither max(0, ...) nor the delete of an emptied entry
KeepsFlat(t) == Entry(cur[t].side, cur[t].size - size[t], cur[t].count)

Decreased(t) == IF size[t] < cur[t].size
                THEN Entry(cur[t].side, cur[t].size - size[t], cur[t].count)
                ELSE NoEntry

\* the entry update saves; NoEntry: it deletes
Result(t) == IF cls[t] = "EXIT" THEN Decreased(t) ELSE Increased(t)

Saves(t)   == pc[t] = "write" /\ Result(t) # NoEntry
Deletes(t) == pc[t] = "write" /\ Result(t) = NoEntry

SaveHash(t) ==
    /\ redisOk
    /\ Saves(t)
    /\ pc' = [pc EXCEPT ![t] = "expire"]
    /\ cur' = [cur EXCEPT ![t] = Result(t)]
    /\ redis' = [redis EXCEPT ![KeyOf[t]] = Result(t)]
    /\ Booked(t)
    /\ UNCHANGED <<side, size, cls, ttl, fallback, redisOk, crashes, tainted, leaked>>

\* EXPIRE does nothing to a key that is gone
SaveExpiry(t) ==
    /\ Goto(t, "expire", "done")
    /\ ttl' = ttl \cup {k \in {KeyOf[t]} : redis[k] # NoEntry}
    /\ UNCHANGED <<side, size, cls, cur, redis, fallback, redisOk, crashes, history>>

\* Mutant: what is saved in memory adds the trade a second time
SaveTwice(t) == [fallback EXCEPT ![KeyOf[t]] = [cur[t] EXCEPT !.size = @ + size[t]]]

\* the whole entry goes to the fallback when EXPIRE fails
SaveAgain(t) == [fallback EXCEPT ![KeyOf[t]] = cur[t]]

\* EXPIRE fails after HSET has succeeded
ExpiryFails(t) ==
    /\ Goto(t, "expire", "done")
    /\ SwitchStore(SaveAgain(t))
    /\ leaked' = leaked \cup {KeyOf[t]}
    /\ UNCHANGED <<side, size, cls, cur, redis, ttl, crashes>>

\* HSET fails, with or without effect
SaveFails(t) ==
    /\ redisOk
    /\ Saves(t)
    /\ pc' = [pc EXCEPT ![t] = "done"]
    /\ \/ UNCHANGED <<redis, leaked>>
       \/ /\ redis' = [redis EXCEPT ![KeyOf[t]] = Result(t)]
          /\ leaked' = leaked \cup {KeyOf[t]}
    /\ SwitchStore([fallback EXCEPT ![KeyOf[t]] = Result(t)])
    /\ UNCHANGED <<side, size, cls, cur, ttl, crashes>>

Delete(t) ==
    /\ redisOk
    /\ Deletes(t)
    /\ pc' = [pc EXCEPT ![t] = "done"]
    /\ redis' = [redis EXCEPT ![KeyOf[t]] = NoEntry]
    /\ ttl' = ttl \ {KeyOf[t]}
    /\ Booked(t)
    /\ UNCHANGED <<side, size, cls, cur, fallback, redisOk, crashes, tainted, leaked>>

DeleteFails(t) ==
    /\ redisOk
    /\ Deletes(t)
    /\ pc' = [pc EXCEPT ![t] = "done"]
    /\ \/ UNCHANGED <<redis, ttl>>
       \/ /\ redis' = [redis EXCEPT ![KeyOf[t]] = NoEntry]
          /\ ttl' = ttl \ {KeyOf[t]}
    /\ SwitchStore([fallback EXCEPT ![KeyOf[t]] = NoEntry])
    /\ UNCHANGED <<side, size, cls, cur, crashes, leaked>>

\* after the switch: the dictionary, no await
WriteFallback(t) ==
    /\ ~redisOk
    /\ Goto(t, "write", "done")
    /\ fallback' = [fallback EXCEPT ![KeyOf[t]] = Result(t)]
    /\ Booked(t)
    /\ UNCHANGED <<side, size, cls, cur, redis, ttl, redisOk, crashes, tainted, leaked>>

-----------------------------------------------------------------------------
\* Redis drops a key that was not written for LEDGER_TTL_SECONDS, 90 days: no
\* update takes that long
Forget(k) ==
    /\ k \in ttl
    /\ \A t \in Trades : KeyOf[t] = k => pc[t] \notin InFlight
    /\ redis' = [redis EXCEPT ![k] = NoEntry]
    /\ ttl' = ttl \ {k}
    /\ book' = IF redisOk THEN [book EXCEPT ![k] = NoEntry] ELSE book
    /\ UNCHANGED <<task, fallback, redisOk, crashes, tainted, leaked>>

\* the bot restarts: back to Redis as it was left
Crash ==
    /\ crashes < MaxCrashes
    /\ crashes' = crashes + 1
    /\ pc' = [t \in Trades |-> IF pc[t] = "idle" THEN "idle" ELSE "done"]
    /\ redisOk' = TRUE
    /\ fallback' = Empty
    /\ book' = redis
    /\ tainted' = {}
    /\ leaked' = leaked \cup {KeyOf[t] : t \in {u \in Trades : pc[u] = "expire"}}
    /\ UNCHANGED <<side, size, cls, cur, redis, ttl>>

Update(t) ==
    \/ ClassifyTrade(t) \/ ClassifyFails(t) \/ Reload(t) \/ ReloadFails(t)
    \/ SaveHash(t) \/ SaveFails(t) \/ SaveExpiry(t) \/ ExpiryFails(t)
    \/ Delete(t) \/ DeleteFails(t) \/ WriteFallback(t)

Next == \/ \E t \in Trades : Receive(t) \/ Update(t)
        \/ \E k \in Keys : Forget(k)
        \/ Crash

Spec == Init /\ [][Next]_vars
=============================================================================
