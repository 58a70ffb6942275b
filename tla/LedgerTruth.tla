---------------------------- MODULE LedgerTruth ----------------------------
(***************************************************************************)
(* What can be trusted of the ledger, and what cannot.                     *)
(***************************************************************************)
EXTENDS WhaleLedger, Dollars

Classes  == {"ENTRY", "ADD", "EXIT"}
PcValues == {"idle", "done"} \cup InFlight

\* Types.  No stored entry is empty: the branch of classify_trade for a flat
\* entry is never taken, whatever the interleaving.
LedgerTypeOK ==
    /\ pc \in [Trades -> PcValues]
    /\ side \in [Trades -> Sides]
    /\ size \in [Trades -> 1 .. MaxSize]
    /\ cls \in [Trades -> Classes]
    /\ cur \in [Trades -> Entries \cup {NoEntry}]
    /\ redis \in Stores
    /\ fallback \in Stores
    /\ book \in Stores
    /\ ttl \subseteq Keys
    /\ redisOk \in BOOLEAN
    /\ crashes \in 0 .. MaxCrashes
    /\ tainted \subseteq Keys
    /\ leaked \subseteq Keys
    /\ \A t \in Trades : pc[t] = "write" /\ cls[t] = "EXIT" => cur[t] # NoEntry
    /\ \A t \in Trades : pc[t] = "expire" => cur[t] # NoEntry

\* "Tracks the net position of every whitelisted wallet in every market": two
\* reads and a write make one atomic update as long as no two updates of one
\* key overlap and none is under way when the store is switched.  Trouble in
\* one key never reaches another.  An update that is under way has the class
\* and the entry that the trades before it leave.
Exact(k) ==
    /\ Stored(k) = book[k]
    /\ \A t \in Trades : KeyOf[t] = k =>
          /\ pc[t] \in {"reload", "write"} => cls[t] = ClassOf(book[k], side[t])
          /\ pc[t] = "write" => cur[t] = book[k]
LedgerExact == \A k \in Keys \ tainted : Exact(k)

\* What makes LedgerExact inductive: a key that is not tainted has one update
\* at a time, and none that began to save before the store was switched.
OneAtATime ==
    \A t, u \in Trades :
        (/\ KeyOf[t] = KeyOf[u] /\ KeyOf[t] \notin tainted
         /\ pc[t] \in InFlight /\ pc[u] \in InFlight) => t = u

NoneCarried ==
    \A t \in Trades : pc[t] = "expire" /\ ~redisOk => KeyOf[t] \in tainted

\* LEDGER_TTL_SECONDS: an entry without an expiry time has an update that is
\* about to set it, unless a call failed or the bot died between HSET and EXPIRE.
EntriesExpire ==
    \A k \in Keys \ leaked : redis[k] # NoEntry /\ k \notin ttl =>
        \E t \in Trades : KeyOf[t] = k /\ pc[t] = "expire"

LedgerInv == LedgerExact /\ OneAtATime /\ NoneCarried /\ EntriesExpire

\* Overlapping updates, failed calls and restarts may lose a trade, but none is
\* counted twice: no entry exceeds what the wallet traded in the market.
Volume(k) == SumOf(size, {t \in Trades : KeyOf[t] = k /\ pc[t] # "idle"})
CountedOnce ==
    \A k \in Keys : redis[k].size <= Volume(k) /\ fallback[k].size <= Volume(k)

\* The strengthening: what is stored, and what a task that is about to save
\* holds, consists of trades that have been saved, so never of the one on its way.
Saved(k)   == {t \in Trades : KeyOf[t] = k /\ pc[t] \in {"expire", "done"}}
OnlySaved  ==
    /\ \A k \in Keys : /\ redis[k].size <= SumOf(size, Saved(k))
                      /\ fallback[k].size <= SumOf(size, Saved(k))
    /\ \A t \in Trades : pc[t] \in {"write", "expire"} =>
                            cur[t].size <= SumOf(size, Saved(KeyOf[t]))

\* test_flip_replaces_position_with_opposite_side: a sell larger than the
\* position leaves a position in the new direction.
FlipReverses ==
    [][\A t \in Trades :
          LET e == book[KeyOf[t]] IN
          Delete(t) /\ e.side # side[t] /\ size[t] > e.size
              => redis'[KeyOf[t]].side = side[t]]_vars
=============================================================================
