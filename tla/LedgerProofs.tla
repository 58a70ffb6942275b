---------------------------- MODULE LedgerProofs ----------------------------
(***************************************************************************)
(* Types of the whale ledger, and its truth: for any number of trades and  *)
(* keys, failed calls and restarts, an update is atomic unless updates of  *)
(* its key overlap each other or a switch of the store.                    *)
(***************************************************************************)
EXTENDS LedgerTruth, DollarSums

-----------------------------------------------------------------------------
LEMMA EntryType ==
    ASSUME NEW s \in Sides, NEW n \in Nat \ {0}, NEW c \in Nat \ {0}
    PROVE  /\ Entry(s, n, c) \in Entries
           /\ Entry(s, n, c) # NoEntry
  BY DEF Entry, Entries, NoEntry, Sides

LEMMA EntryParts ==
    ASSUME NEW e \in Entries
    PROVE  /\ e.side \in Sides /\ e.size \in Nat \ {0} /\ e.count \in Nat \ {0}
           /\ e # NoEntry
  BY DEF Entries, NoEntry, Sides

\* LedgerEntries: what a trade does to an entry is an entry, or none.
LEMMA ApplyType ==
    ASSUME NEW e \in Entries \cup {NoEntry}, NEW s \in Sides, NEW n \in Nat \ {0}
    PROVE  /\ Apply(e, s, n) \in Entries \cup {NoEntry}
           /\ ClassOf(e, s) \in Classes
  <1>1. CASE e = NoEntry
    <2>1. Entry(s, n, 1) \in Entries  BY EntryType
    <2>0. e.side # s  BY <1>1 DEF NoEntry, Sides
    <2>2. Apply(e, s, n) = Entry(s, n, 1)  BY <1>1, <2>0 DEF Apply, Opened
    <2>3. ClassOf(e, s) = "ENTRY"  BY <1>1, <2>0 DEF ClassOf
    <2> QED  BY <2>1, <2>2, <2>3 DEF Classes
  <1>2. CASE e \in Entries
    <2>1. /\ e # NoEntry /\ e.side \in Sides
          /\ e.size \in Nat \ {0} /\ e.count \in Nat \ {0}
      BY <1>2, EntryParts
    <2>2. CASE e.side = s
      <3>1. e.size + n \in Nat \ {0} /\ e.count + 1 \in Nat \ {0}  BY <2>1
      <3>2. Grown(e, n) \in Entries  BY <2>1, <3>1, EntryType DEF Grown
      <3> QED  BY <2>1, <2>2, <3>2 DEF Apply, ClassOf, Classes
    <2>3. CASE e.side # s
      <3>1. Reduced(e, n) \in Entries \cup {NoEntry}
        <4>1. CASE n < e.size
          <5>1. e.size - n \in Nat \ {0}  BY <2>1, <4>1
          <5> QED  BY <2>1, <4>1, <5>1, EntryType DEF Reduced
        <4>2. CASE ~(n < e.size)
          BY <4>2 DEF Reduced
        <4> QED  BY <4>1, <4>2
      <3> QED  BY <2>1, <2>3, <3>1 DEF Apply, ClassOf, Classes
    <2> QED  BY <2>2, <2>3
  <1> QED  BY <1>1, <1>2

\* classify_trade tests the size where the reference tests the entry: the same
\* on entries that are stored.
LEMMA ClassifyIsClassOf ==
    ASSUME NEW e \in Entries \cup {NoEntry}, NEW s \in Sides
    PROVE  Classify(e, s) = ClassOf(e, s) /\ Classify(e, s) \in Classes
  BY DEF Classify, ClassOf, Entries, NoEntry, Classes, Sides

\* What update saves is an entry or none; it is what the reference says when the
\* class was that of the entry read.
LEMMA ResultType ==
    ASSUME LedgerTypeOK, NEW t \in Trades, pc[t] = "write"
    PROVE  /\ Result(t) \in Entries \cup {NoEntry}
           /\ cls[t] = ClassOf(cur[t], side[t]) =>
                  Result(t) = Apply(cur[t], side[t], size[t])
  <1> USE SizeAssumption
  <1>1. /\ cur[t] \in Entries \cup {NoEntry} /\ side[t] \in Sides
        /\ size[t] \in Nat \ {0} /\ cls[t] \in Classes
        /\ cls[t] = "EXIT" => cur[t] # NoEntry
    BY DEF LedgerTypeOK
  <1> DEFINE e == cur[t]
             n == size[t]
  <1>2. /\ cls[t] = "EXIT" => e \in Entries
        /\ e \in Entries => e.side \in Sides /\ e.size \in Nat \ {0} /\ e.count \in Nat \ {0}
        /\ e \in Entries <=> e # NoEntry
        /\ e.size \in Nat /\ e.count \in Nat
    <2>1. CASE e = NoEntry
      BY <1>1, <2>1, EntryParts DEF NoEntry
    <2>2. CASE e \in Entries
      BY <1>1, <2>2, EntryParts
    <2> QED  BY <1>1, <2>1, <2>2
  <1>3. Result(t) \in Entries \cup {NoEntry}
    <2>1. CASE cls[t] = "EXIT"
      <3>1. CASE n < e.size
        <4>1. e.size - n \in Nat \ {0}  BY <1>1, <1>2, <2>1, <3>1
        <4>2. Entry(e.side, e.size - n, e.count) \in Entries
          BY <1>2, <2>1, <4>1, EntryType
        <4> QED  BY <2>1, <3>1, <4>2 DEF Result, Decreased
      <3> QED  BY <2>1, <3>1 DEF Result, Decreased
    <2>2. CASE cls[t] # "EXIT"
      <3>1. e.size + n \in Nat \ {0} /\ e.count + 1 \in Nat \ {0}  BY <1>1, <1>2
      <3>2. Increased(t) \in Entries  BY <1>1, <3>1, EntryType DEF Increased
      <3> QED  BY <2>2, <3>2 DEF Result
    <2> QED  BY <2>1, <2>2
  <1>4. ASSUME cls[t] = ClassOf(e, side[t])
        PROVE  Result(t) = Apply(e, side[t], n)
    <2>1. CASE e = NoEntry
      <3>0. e.side # side[t]  BY <1>1, <2>1 DEF NoEntry, Sides
      <3>1. cls[t] # "EXIT" /\ Apply(e, side[t], n) = Entry(side[t], n, 1)
        BY <1>4, <2>1, <3>0 DEF ClassOf, Apply, Opened
      <3>2. e.size + n = n /\ e.count + 1 = 1  BY <1>1, <2>1 DEF NoEntry
      <3> QED  BY <3>1, <3>2 DEF Result, Increased
    <2>2. CASE e # NoEntry /\ e.side = side[t]
      <3>1. cls[t] # "EXIT" /\ Apply(e, side[t], n) = Grown(e, n)
        BY <1>4, <2>2 DEF ClassOf, Apply
      <3> QED  BY <2>2, <3>1 DEF Result, Increased, Grown
    <2>3. CASE e # NoEntry /\ e.side # side[t]
      <3>1. cls[t] = "EXIT" /\ Apply(e, side[t], n) = Reduced(e, n)
        BY <1>4, <2>3 DEF ClassOf, Apply
      <3> QED  BY <3>1 DEF Result, Decreased, Reduced
    <2> QED  BY <2>1, <2>2, <2>3
  <1> QED  BY <1>3, <1>4

-----------------------------------------------------------------------------
\* Type correctness

LEMMA StoredType ==
    ASSUME LedgerTypeOK, NEW k \in Keys
    PROVE  /\ Stored(k) \in Entries \cup {NoEntry}
           /\ fallback[k] \in Entries \cup {NoEntry}
           /\ redis[k] \in Entries \cup {NoEntry}
           /\ book[k] \in Entries \cup {NoEntry}
  BY DEF LedgerTypeOK, Stored, Stores

LEMMA KeyType == ASSUME NEW t \in Trades PROVE KeyOf[t] \in Keys
  BY KeyAssumption

LEMMA BookedType ==
    ASSUME LedgerTypeOK, NEW t \in Trades, Booked(t)
    PROVE  book' \in Stores
  <1>1. side[t] \in Sides /\ size[t] \in Nat \ {0}
    BY SizeAssumption DEF LedgerTypeOK
  <1>2. Apply(book[KeyOf[t]], side[t], size[t]) \in Entries \cup {NoEntry}
    BY <1>1, KeyType, StoredType, ApplyType
  <1> QED  BY <1>2, KeyType DEF Booked, LedgerTypeOK, Stores

LEMMA SwitchType ==
    ASSUME LedgerTypeOK, NEW f \in Stores, SwitchStore(f)
    PROVE  /\ redisOk' = FALSE /\ fallback' \in Stores /\ book' \in Stores
           /\ tainted' \subseteq Keys /\ tainted \subseteq tainted'
  BY KeyType DEF SwitchStore, LedgerTypeOK

\* a task at its next call, one field of one task or store replaced
LEMMA StoreUpdate ==
    ASSUME NEW f \in Stores, NEW k \in Keys, NEW e \in Entries \cup {NoEntry}
    PROVE  [f EXCEPT ![k] = e] \in Stores
  BY DEF Stores

THEOREM LedgerTypeInit == Init => LedgerTypeOK
  <1>1. Empty \in Stores  BY DEF Empty, Stores
  <1>2. /\ 1 \in 1 .. MaxSize /\ 0 \in 0 .. MaxCrashes
    BY SizeAssumption, CrashAssumption
  <1> QED
    BY <1>1, <1>2 DEF Init, LedgerTypeOK, PcValues, Sides, Classes

LEMMA ReceiveType ==
    ASSUME LedgerTypeOK, NEW t \in Trades, Receive(t)
    PROVE  LedgerTypeOK'
  BY KeyType DEF LedgerTypeOK, Receive, Goto, PcValues, InFlight, Held, history

LEMMA ClassifyType ==
    ASSUME LedgerTypeOK, NEW t \in Trades, ClassifyTrade(t) \/ ClassifyFails(t)
    PROVE  LedgerTypeOK'
  <1>1. /\ Classify(Stored(KeyOf[t]), side[t]) \in Classes
        /\ Classify(fallback[KeyOf[t]], side[t]) \in Classes
    BY KeyType, StoredType, ClassifyIsClassOf DEF LedgerTypeOK
  <1>2. CASE ClassifyTrade(t)
    BY <1>1, <1>2 DEF ClassifyTrade, LedgerTypeOK, Goto, PcValues, InFlight, Held, history
  <1>3. CASE ClassifyFails(t)
    <2>1. fallback \in Stores  BY DEF LedgerTypeOK
    <2>2. /\ redisOk' \in BOOLEAN /\ fallback' \in Stores /\ book' \in Stores
          /\ tainted' \subseteq Keys
      BY <1>3, <2>1, SwitchType DEF ClassifyFails
    <2> QED
      BY <1>1, <1>3, <2>2 DEF ClassifyFails, LedgerTypeOK, Goto, PcValues, InFlight, Held
  <1> QED  BY <1>2, <1>3

LEMMA ReloadType ==
    ASSUME LedgerTypeOK, NEW t \in Trades, Reload(t) \/ ReloadFails(t)
    PROVE  LedgerTypeOK'
  <1>1. /\ Stored(KeyOf[t]) \in Entries \cup {NoEntry}
        /\ fallback[KeyOf[t]] \in Entries \cup {NoEntry}
    BY KeyType, StoredType
  <1>2. CASE Reload(t)
    BY <1>1, <1>2
    DEF Reload, AfterReload, LedgerTypeOK, Goto, PcValues, InFlight, Held, history
  <1>3. CASE ReloadFails(t)
    <2>1. fallback \in Stores  BY DEF LedgerTypeOK
    <2>2. /\ redisOk' \in BOOLEAN /\ fallback' \in Stores /\ book' \in Stores
          /\ tainted' \subseteq Keys
      BY <1>3, <2>1, SwitchType DEF ReloadFails
    <2> QED
      BY <1>1, <1>3, <2>2
      DEF ReloadFails, AfterReload, LedgerTypeOK, Goto, PcValues, InFlight, Held
  <1> QED  BY <1>2, <1>3

LEMMA SaveType ==
    ASSUME LedgerTypeOK, NEW t \in Trades, SaveHash(t) \/ SaveFails(t)
    PROVE  LedgerTypeOK'
  <1>1. pc[t] = "write" /\ Result(t) # NoEntry  BY DEF SaveHash, SaveFails, Saves
  <1>2. Result(t) \in Entries \cup {NoEntry}  BY <1>1, ResultType
  <1>3. [redis EXCEPT ![KeyOf[t]] = Result(t)] \in Stores
    BY <1>2, KeyType, StoreUpdate DEF LedgerTypeOK
  <1>4. CASE SaveHash(t)
    <2>1. book' \in Stores  BY <1>4, BookedType DEF SaveHash
    <2> QED
      BY <1>1, <1>2, <1>3, <1>4, <2>1
      DEF SaveHash, LedgerTypeOK, PcValues, InFlight, Held
  <1>5. CASE SaveFails(t)
    <2>1. [fallback EXCEPT ![KeyOf[t]] = Result(t)] \in Stores
      BY <1>2, KeyType, StoreUpdate DEF LedgerTypeOK
    <2>2. /\ redisOk' \in BOOLEAN /\ fallback' \in Stores /\ book' \in Stores
          /\ tainted' \subseteq Keys
      BY <1>5, <2>1, SwitchType DEF SaveFails
    <2> QED
      BY <1>1, <1>3, <1>5, <2>2, KeyType
      DEF SaveFails, LedgerTypeOK, PcValues
  <1> QED  BY <1>4, <1>5

LEMMA ExpireType ==
    ASSUME LedgerTypeOK, NEW t \in Trades, SaveExpiry(t) \/ ExpiryFails(t)
    PROVE  LedgerTypeOK'
  <1>1. CASE SaveExpiry(t)
    BY <1>1, KeyType DEF SaveExpiry, LedgerTypeOK, Goto, PcValues, history
  <1>2. CASE ExpiryFails(t)
    <2>1. SaveAgain(t) \in Stores
      BY KeyType, StoreUpdate DEF SaveAgain, LedgerTypeOK
    <2>2. /\ redisOk' \in BOOLEAN /\ fallback' \in Stores /\ book' \in Stores
          /\ tainted' \subseteq Keys
      BY <1>2, <2>1, SwitchType DEF ExpiryFails
    <2> QED  BY <1>2, <2>2, KeyType DEF ExpiryFails, LedgerTypeOK, Goto, PcValues
  <1> QED  BY <1>1, <1>2

LEMMA DeleteType ==
    ASSUME LedgerTypeOK, NEW t \in Trades, Delete(t) \/ DeleteFails(t)
    PROVE  LedgerTypeOK'
  <1>1. /\ [redis EXCEPT ![KeyOf[t]] = NoEntry] \in Stores
        /\ [fallback EXCEPT ![KeyOf[t]] = NoEntry] \in Stores
    BY KeyType, StoreUpdate DEF LedgerTypeOK
  <1>2. CASE Delete(t)
    <2>1. book' \in Stores  BY <1>2, BookedType DEF Delete
    <2> QED  BY <1>1, <1>2, <2>1 DEF Delete, LedgerTypeOK, PcValues
  <1>3. CASE DeleteFails(t)
    <2>1. /\ redisOk' \in BOOLEAN /\ fallback' \in Stores /\ book' \in Stores
          /\ tainted' \subseteq Keys
      BY <1>1, <1>3, SwitchType DEF DeleteFails
    <2> QED  BY <1>1, <1>3, <2>1 DEF DeleteFails, LedgerTypeOK, PcValues
  <1> QED  BY <1>2, <1>3

LEMMA FallbackType ==
    ASSUME LedgerTypeOK, NEW t \in Trades, WriteFallback(t)
    PROVE  LedgerTypeOK'
  <1>1. Result(t) \in Entries \cup {NoEntry}
    BY ResultType DEF WriteFallback, Goto
  <1>2. [fallback EXCEPT ![KeyOf[t]] = Result(t)] \in Stores
    BY <1>1, KeyType, StoreUpdate DEF LedgerTypeOK
  <1>3. book' \in Stores  BY BookedType DEF WriteFallback
  <1> QED  BY <1>2, <1>3 DEF WriteFallback, LedgerTypeOK, Goto, PcValues

LEMMA ForgetType ==
    ASSUME LedgerTypeOK, NEW k \in Keys, Forget(k)
    PROVE  LedgerTypeOK'
  <1>1. /\ [redis EXCEPT ![k] = NoEntry] \in Stores
        /\ [book EXCEPT ![k] = NoEntry] \in Stores
    BY StoreUpdate DEF LedgerTypeOK
  <1> QED  BY <1>1 DEF Forget, LedgerTypeOK, task

LEMMA CrashType ==
    ASSUME LedgerTypeOK, Crash
    PROVE  LedgerTypeOK'
  <1>1. Empty \in Stores  BY DEF Empty, Stores
  <1> QED
    BY <1>1, KeyType, CrashAssumption DEF Crash, LedgerTypeOK, PcValues

LEMMA LedgerTypeStep == LedgerTypeOK /\ [Next]_vars => LedgerTypeOK'
  <1> SUFFICES ASSUME LedgerTypeOK, [Next]_vars PROVE LedgerTypeOK'
    OBVIOUS
  <1>1. CASE UNCHANGED vars
    BY <1>1 DEF vars, task, history, LedgerTypeOK
  <1>2. ASSUME NEW t \in Trades, Receive(t) \/ Update(t)
        PROVE  LedgerTypeOK'
    BY <1>2, ReceiveType, ClassifyType, ReloadType, SaveType, ExpireType, DeleteType,
       FallbackType DEF Update
  <1> QED  BY <1>1, <1>2, ForgetType, CrashType DEF Next

\* Types hold for any number of trades, keys and restarts; in particular no
\* entry that PositionLedger stores is ever flat.
THEOREM LedgerTypeCorrect == Spec => []LedgerTypeOK
  BY LedgerTypeInit, LedgerTypeStep, PTL DEF Spec

-----------------------------------------------------------------------------
\* The truth of the ledger

\* Only the update of t moves.
Alone(t) == \A u \in Trades \ {t} : /\ pc'[u] = pc[u] /\ cls'[u] = cls[u]
                                    /\ cur'[u] = cur[u] /\ side'[u] = side[u]

\* what Exact says of t itself
Own(t) == /\ pc[t] \in {"reload", "write"} => cls[t] = ClassOf(book[KeyOf[t]], side[t])
          /\ pc[t] = "write" => cur[t] = book[KeyOf[t]]

LEMMA ReceiveAlone == ASSUME LedgerTypeOK, NEW t \in Trades, Receive(t) PROVE Alone(t)
  BY DEF Receive, Goto, LedgerTypeOK, Alone

LEMMA UpdateAlone ==
    ASSUME LedgerTypeOK, NEW t \in Trades, Update(t)
    PROVE  /\ Alone(t) /\ pc[t] \in InFlight
           /\ tainted \subseteq tainted' /\ leaked \subseteq leaked'
  <1> USE DEF Alone, InFlight, Held, Goto, LedgerTypeOK, history
  <1>1. CASE ClassifyTrade(t)  BY <1>1 DEF ClassifyTrade
  <1>2. CASE ClassifyFails(t)  BY <1>2 DEF ClassifyFails, SwitchStore
  <1>3. CASE Reload(t)         BY <1>3 DEF Reload
  <1>4. CASE ReloadFails(t)    BY <1>4 DEF ReloadFails, SwitchStore
  <1>5. CASE SaveHash(t)       BY <1>5 DEF SaveHash, Saves
  <1>6. CASE SaveFails(t)      BY <1>6 DEF SaveFails, SwitchStore, Saves
  <1>7. CASE SaveExpiry(t)     BY <1>7 DEF SaveExpiry
  <1>8. CASE ExpiryFails(t)    BY <1>8 DEF ExpiryFails, SwitchStore
  <1>9. CASE Delete(t)         BY <1>9 DEF Delete, Deletes
  <1>10. CASE DeleteFails(t)   BY <1>10 DEF DeleteFails, SwitchStore, Deletes
  <1>11. CASE WriteFallback(t) BY <1>11 DEF WriteFallback
  <1> QED
    BY <1>1, <1>2, <1>3, <1>4, <1>5, <1>6, <1>7, <1>8, <1>9, <1>10, <1>11 DEF Update

\* A step of an update in flight brings no second one into flight.
LEMMA StillOne ==
    ASSUME OneAtATime, NEW t \in Trades, Alone(t), pc[t] \in InFlight,
           tainted \subseteq tainted'
    PROVE  OneAtATime'
  BY DEF OneAtATime, Alone

\* An update that is alone with its key: nothing is said of the others.
LEMMA NoOther ==
    ASSUME OneAtATime, NEW t \in Trades, pc[t] \in InFlight, KeyOf[t] \notin tainted,
           NEW u \in Trades, KeyOf[u] = KeyOf[t], u # t
    PROVE  pc[u] \notin InFlight
  BY DEF OneAtATime

\* While the store stays the same, a step of t touches the entry of its own key.
LEMMA SameStoreExact ==
    ASSUME LedgerExact, OneAtATime, NEW t \in Trades, Alone(t), pc[t] \in InFlight,
           tainted' = tainted,
           \A k \in Keys \ {KeyOf[t]} : Stored(k)' = Stored(k) /\ book'[k] = book[k],
           KeyOf[t] \notin tainted => Own(t)' /\ Stored(KeyOf[t])' = book'[KeyOf[t]]
    PROVE  LedgerExact'
  <1> SUFFICES ASSUME NEW k \in Keys, k \notin tainted PROVE Exact(k)'
    BY DEF LedgerExact
  <1>1. Exact(k)  BY DEF LedgerExact
  <1>2. CASE k # KeyOf[t]
    BY <1>1, <1>2 DEF Exact, Alone
  <1>3. CASE k = KeyOf[t]
    <2>1. ASSUME NEW u \in Trades, KeyOf[u] = k, u # t
          PROVE  pc'[u] \notin {"reload", "write"}
      BY <1>3, <2>1, NoOther DEF Alone, InFlight, Held
    <2>2. Own(t)' /\ Stored(k)' = book'[k]
      BY <1>3
    <2> QED
      BY <1>3, <2>1, <2>2 DEF Exact, Own
  <1> QED  BY <1>2, <1>3

\* A switch makes the fallback the truth, for every update that holds nothing.
LEMMA SwitchExact ==
    ASSUME NEW t \in Trades, Alone(t), redisOk, NEW f, SwitchStore(f),
           pc[t] \in InFlight, pc[t] = "classify" => Own(t)' /\ pc'[t] = "reload"
    PROVE  LedgerExact' /\ NoneCarried'
  <1>1. /\ redisOk' = FALSE /\ fallback' = f /\ book' = f
        /\ \A u \in Trades : pc[u] \in Held => KeyOf[u] \in tainted'
    BY DEF SwitchStore
  <1>2. ASSUME NEW u \in Trades, u # t, KeyOf[u] \notin tainted'
        PROVE  pc'[u] \notin Held
    BY <1>1, <1>2 DEF Alone
  <1>3. KeyOf[t] \notin tainted' => pc[t] = "classify"
    BY <1>1 DEF InFlight
  <1>4. LedgerExact'
    <2> SUFFICES ASSUME NEW k \in Keys, k \notin tainted' PROVE Exact(k)'
      BY DEF LedgerExact
    <2>1. Stored(k)' = book'[k]
      BY <1>1 DEF Stored
    <2>2. ASSUME NEW u \in Trades, KeyOf[u] = k
          PROVE  /\ pc'[u] \in {"reload", "write"} => cls'[u] = ClassOf(book'[k], side'[u])
                 /\ pc'[u] = "write" => cur'[u] = book'[k]
      <3>1. CASE u = t   BY <1>3, <2>2, <3>1 DEF Own
      <3>2. CASE u # t   BY <1>2, <2>2, <3>2 DEF Held
      <3> QED  BY <3>1, <3>2
    <2> QED  BY <2>1, <2>2 DEF Exact
  <1>5. NoneCarried'
    BY <1>2, <1>3 DEF NoneCarried, Held
  <1> QED  BY <1>4, <1>5

\* What an update has not yet saved with EXPIRE stays its own to save.
LEMMA ExpiryKept ==
    ASSUME EntriesExpire, NEW t \in Trades, Alone(t), pc[t] # "expire",
           leaked \subseteq leaked',
           \A k \in Keys \ leaked' : \/ redis'[k] = NoEntry
                                     \/ redis'[k] = redis[k] /\ (k \in ttl => k \in ttl')
                                     \/ k = KeyOf[t] /\ pc'[t] = "expire"
    PROVE  EntriesExpire'
  <1> SUFFICES ASSUME NEW k \in Keys \ leaked', redis'[k] # NoEntry, k \notin ttl'
               PROVE  \E u \in Trades : KeyOf[u] = k /\ pc'[u] = "expire"
    BY DEF EntriesExpire
  <1>1. CASE k = KeyOf[t] /\ pc'[t] = "expire"
    BY <1>1
  <1>2. CASE redis'[k] = redis[k] /\ (k \in ttl => k \in ttl')
    <2>1. PICK u \in Trades : KeyOf[u] = k /\ pc[u] = "expire"
      BY <1>2 DEF EntriesExpire
    <2> QED  BY <2>1 DEF Alone
  <1> QED  BY <1>1, <1>2

-----------------------------------------------------------------------------
THEOREM LedgerInit == Init => LedgerInv
  BY DEF Init, LedgerInv, LedgerExact, Exact, Stored, Empty, OneAtATime, NoneCarried,
         EntriesExpire, InFlight, Held

LEMMA ReceiveInv ==
    ASSUME LedgerTypeOK, LedgerInv, NEW t \in Trades, Receive(t)
    PROVE  LedgerInv'
  <1>1. /\ Alone(t) /\ pc[t] = "idle" /\ pc'[t] = "classify"
        /\ tainted \subseteq tainted' /\ book' = book /\ redis' = redis
        /\ fallback' = fallback /\ redisOk' = redisOk /\ ttl' = ttl /\ leaked' = leaked
    BY ReceiveAlone DEF Receive, Goto, LedgerTypeOK
  <1>2. LedgerExact'
    <2> SUFFICES ASSUME NEW k \in Keys, k \notin tainted' PROVE Exact(k)'
      BY DEF LedgerExact
    <2>1. Exact(k)  BY <1>1 DEF LedgerInv, LedgerExact
    <2> QED  BY <1>1, <2>1 DEF Exact, Stored, Alone
  <1>3. OneAtATime'
    <2>1. KeyOf[t] \notin tainted' => \A u \in Trades \ {t} :
              KeyOf[u] = KeyOf[t] => pc[u] \notin InFlight
      BY DEF Receive, Overlaps
    <2> QED  BY <1>1, <2>1 DEF LedgerInv, OneAtATime, Alone
  <1>4. NoneCarried'
    BY <1>1 DEF LedgerInv, NoneCarried, Alone
  <1>5. EntriesExpire'
    BY <1>1, ExpiryKept DEF LedgerInv
  <1> QED  BY <1>2, <1>3, <1>4, <1>5 DEF LedgerInv

\* A failed call: one lemma for the five actions that switch the store.
LEMMA SwitchInv ==
    ASSUME LedgerTypeOK, LedgerInv, NEW t \in Trades, Update(t), redisOk,
           NEW f, SwitchStore(f), pc[t] = "classify" => Own(t)' /\ pc'[t] = "reload", EntriesExpire'
    PROVE  LedgerInv'
  <1>1. Alone(t) /\ pc[t] \in InFlight /\ tainted \subseteq tainted'  BY UpdateAlone
  <1>2. LedgerExact' /\ NoneCarried'  BY <1>1, SwitchExact
  <1>3. OneAtATime'  BY <1>1, StillOne DEF LedgerInv
  <1> QED  BY <1>2, <1>3 DEF LedgerInv

\* A call that succeeds: the entry of the key of t, and t, are as the reference says.
LEMMA SameStoreInv ==
    ASSUME LedgerTypeOK, LedgerInv, NEW t \in Trades, Update(t),
           tainted' = tainted, redisOk' = redisOk,
           redisOk \/ pc'[t] # "expire",
           \A k \in Keys \ {KeyOf[t]} : Stored(k)' = Stored(k) /\ book'[k] = book[k],
           KeyOf[t] \notin tainted => Own(t)' /\ Stored(KeyOf[t])' = book'[KeyOf[t]],
           EntriesExpire'
    PROVE  LedgerInv'
  <1>1. Alone(t) /\ pc[t] \in InFlight /\ tainted \subseteq tainted'  BY UpdateAlone
  <1>2. LedgerExact'  BY <1>1, SameStoreExact DEF LedgerInv
  <1>3. OneAtATime'  BY <1>1, StillOne DEF LedgerInv
  <1>4. NoneCarried'  BY <1>1 DEF LedgerInv, NoneCarried, Alone
  <1> QED  BY <1>2, <1>3, <1>4 DEF LedgerInv

LEMMA OwnExact ==
    ASSUME LedgerInv, NEW t \in Trades, KeyOf[t] \notin tainted
    PROVE  Own(t) /\ Stored(KeyOf[t]) = book[KeyOf[t]]
  BY KeyType DEF LedgerInv, LedgerExact, Exact, Own

-----------------------------------------------------------------------------
LEMMA ClassifyInv ==
    ASSUME LedgerTypeOK, LedgerInv, NEW t \in Trades, ClassifyTrade(t) \/ ClassifyFails(t)
    PROVE  LedgerInv'
  <1>1. Update(t) /\ Alone(t)  BY UpdateAlone DEF Update
  <1>2. /\ pc[t] = "classify" /\ pc'[t] = "reload"
        /\ redis' = redis /\ ttl' = ttl /\ leaked' = leaked /\ side' = side
    BY DEF ClassifyTrade, ClassifyFails, Goto, LedgerTypeOK, history
  <1>3. EntriesExpire'
    BY <1>1, <1>2, ExpiryKept DEF LedgerInv
  <1>4. side[t] \in Sides /\ KeyOf[t] \in Keys
    BY KeyType DEF LedgerTypeOK
  <1>5. CASE ClassifyTrade(t)
    <2>1. /\ book' = book /\ tainted' = tainted /\ redisOk' = redisOk /\ fallback' = fallback
          /\ cls'[t] = ClassOf(Stored(KeyOf[t]), side[t])
      BY <1>4, <1>5, StoredType, ClassifyIsClassOf DEF ClassifyTrade, LedgerTypeOK, history
    <2>2. \A k \in Keys : Stored(k)' = Stored(k)
      BY <1>2, <2>1 DEF Stored
    <2>3. KeyOf[t] \notin tainted => Own(t)' /\ Stored(KeyOf[t])' = book'[KeyOf[t]]
      BY <1>2, <1>4, <2>1, <2>2, OwnExact DEF Own
    <2> QED
      BY <1>1, <1>2, <1>3, <2>1, <2>2, <2>3, SameStoreInv
  <1>6. CASE ClassifyFails(t)
    <2>1. redisOk /\ SwitchStore(fallback)
      BY <1>6 DEF ClassifyFails
    <2>2. cls'[t] = ClassOf(fallback[KeyOf[t]], side[t]) /\ book' = fallback
      BY <1>4, <1>6, <2>1, StoredType, ClassifyIsClassOf
      DEF ClassifyFails, LedgerTypeOK, SwitchStore
    <2>3. Own(t)'
      BY <1>2, <2>2 DEF Own
    <2> QED
      BY <1>1, <1>2, <1>3, <2>1, <2>3, SwitchInv
  <1> QED  BY <1>5, <1>6

LEMMA ReloadInv ==
    ASSUME LedgerTypeOK, LedgerInv, NEW t \in Trades, Reload(t) \/ ReloadFails(t)
    PROVE  LedgerInv'
  <1>1. Update(t) /\ Alone(t)  BY UpdateAlone DEF Update
  <1>2. /\ pc[t] = "reload" /\ pc'[t] \in {"write", "done"}
        /\ redis' = redis /\ ttl' = ttl /\ leaked' = leaked
        /\ side' = side /\ cls' = cls
    BY DEF Reload, ReloadFails, AfterReload, Goto, LedgerTypeOK, history
  <1>3. EntriesExpire'
    BY <1>1, <1>2, ExpiryKept DEF LedgerInv
  <1>4. CASE Reload(t)
    <2>1. /\ book' = book /\ tainted' = tainted /\ redisOk' = redisOk /\ fallback' = fallback
          /\ cur'[t] = Stored(KeyOf[t])
      BY <1>4 DEF Reload, LedgerTypeOK, history
    <2>2. \A k \in Keys : Stored(k)' = Stored(k)
      BY <1>2, <2>1 DEF Stored
    <2>3. KeyOf[t] \notin tainted => Own(t)' /\ Stored(KeyOf[t])' = book'[KeyOf[t]]
      BY <1>2, <2>1, <2>2, KeyType, OwnExact DEF Own
    <2> QED
      BY <1>1, <1>2, <1>3, <2>1, <2>2, <2>3, SameStoreInv
  <1>5. CASE ReloadFails(t)
    <2>1. redisOk /\ SwitchStore(fallback)
      BY <1>5 DEF ReloadFails
    <2> QED
      BY <1>1, <1>2, <1>3, <2>1, SwitchInv
  <1> QED  BY <1>4, <1>5

\* The write of an update: the result is what the reference makes of the book.
LEMMA WritesApply ==
    ASSUME LedgerTypeOK, LedgerInv, NEW t \in Trades, pc[t] = "write",
           KeyOf[t] \notin tainted
    PROVE  Result(t) = Apply(book[KeyOf[t]], side[t], size[t])
  <1>1. cls[t] = ClassOf(cur[t], side[t]) /\ cur[t] = book[KeyOf[t]]
    BY OwnExact DEF Own
  <1> QED  BY <1>1, ResultType

LEMMA BookedBook ==
    ASSUME LedgerTypeOK, NEW t \in Trades, Booked(t)
    PROVE  /\ book'[KeyOf[t]] = Apply(book[KeyOf[t]], side[t], size[t])
           /\ \A k \in Keys \ {KeyOf[t]} : book'[k] = book[k]
  BY KeyType DEF Booked, LedgerTypeOK, Stores

LEMMA WriteInv ==
    ASSUME LedgerTypeOK, LedgerInv, NEW t \in Trades,
           SaveHash(t) \/ Delete(t) \/ WriteFallback(t)
    PROVE  LedgerInv'
  <1>1. Update(t) /\ Alone(t)  BY UpdateAlone DEF Update
  <1>2. /\ pc[t] = "write" /\ pc'[t] \in {"expire", "done"}
        /\ tainted' = tainted /\ leaked' = leaked /\ redisOk' = redisOk
        /\ redisOk \/ pc'[t] # "expire"
    BY DEF SaveHash, Delete, WriteFallback, Saves, Deletes, Goto, LedgerTypeOK
  <1>3. Booked(t) /\ KeyOf[t] \in Keys
    BY KeyType DEF SaveHash, Delete, WriteFallback
  <1>4. Own(t)'
    BY <1>2 DEF Own
  <1>5. /\ Stored(KeyOf[t])' = Result(t)
        /\ \A k \in Keys \ {KeyOf[t]} : Stored(k)' = Stored(k)
    <2>1. CASE SaveHash(t)
      BY <1>3, <2>1 DEF SaveHash, Stored, LedgerTypeOK, Stores
    <2>2. CASE Delete(t)
      BY <1>3, <2>2 DEF Delete, Deletes, Stored, LedgerTypeOK, Stores
    <2>3. CASE WriteFallback(t)
      BY <1>3, <2>3 DEF WriteFallback, Stored, LedgerTypeOK, Stores
    <2> QED  BY <2>1, <2>2, <2>3
  <1>6. EntriesExpire'
    <2>1. \A k \in Keys : \/ redis'[k] = NoEntry
                          \/ redis'[k] = redis[k] /\ (k \in ttl => k \in ttl')
                          \/ k = KeyOf[t] /\ pc'[t] = "expire"
      BY <1>3 DEF SaveHash, Delete, WriteFallback, LedgerTypeOK, Stores
    <2> QED  BY <1>1, <1>2, <2>1, ExpiryKept DEF LedgerInv
  <1>7. \A k \in Keys \ {KeyOf[t]} : book'[k] = book[k]
    BY <1>3, BookedBook
  <1>8. KeyOf[t] \notin tainted => Own(t)' /\ Stored(KeyOf[t])' = book'[KeyOf[t]]
    BY <1>2, <1>3, <1>4, <1>5, BookedBook, WritesApply
  <1> QED
    BY <1>1, <1>2, <1>5, <1>6, <1>7, <1>8, SameStoreInv

LEMMA WriteFailsInv ==
    ASSUME LedgerTypeOK, LedgerInv, NEW t \in Trades, SaveFails(t) \/ DeleteFails(t)
    PROVE  LedgerInv'
  <1>1. Update(t) /\ Alone(t) /\ leaked \subseteq leaked'  BY UpdateAlone DEF Update
  <1>2. redisOk /\ pc[t] = "write" /\ KeyOf[t] \in Keys
    BY KeyType DEF SaveFails, DeleteFails, Saves, Deletes
  <1>3. PICK f : SwitchStore(f)
    BY DEF SaveFails, DeleteFails
  <1>4. EntriesExpire'
    <2>1. \A k \in Keys \ leaked' : \/ redis'[k] = NoEntry
                                    \/ redis'[k] = redis[k] /\ (k \in ttl => k \in ttl')
      BY <1>2 DEF SaveFails, DeleteFails, LedgerTypeOK, Stores
    <2> QED  BY <1>1, <1>2, <2>1, ExpiryKept DEF LedgerInv
  <1> QED  BY <1>1, <1>2, <1>3, <1>4, SwitchInv

LEMMA ExpireInv ==
    ASSUME LedgerTypeOK, LedgerInv, NEW t \in Trades, SaveExpiry(t) \/ ExpiryFails(t)
    PROVE  LedgerInv'
  <1>1. Update(t) /\ Alone(t) /\ leaked \subseteq leaked'  BY UpdateAlone DEF Update
  <1>2. /\ pc[t] = "expire" /\ pc'[t] = "done" /\ redis' = redis
        /\ ttl \subseteq ttl' /\ KeyOf[t] \in Keys
    BY KeyType DEF SaveExpiry, ExpiryFails, Goto, LedgerTypeOK
  <1>3. EntriesExpire'
    <2> SUFFICES ASSUME NEW k \in Keys \ leaked', redis[k] # NoEntry, k \notin ttl'
                 PROVE  \E u \in Trades : KeyOf[u] = k /\ pc'[u] = "expire"
      BY <1>2 DEF EntriesExpire
    <2>1. PICK u \in Trades : KeyOf[u] = k /\ pc[u] = "expire"
      BY <1>1, <1>2 DEF LedgerInv, EntriesExpire
    <2>2. k # KeyOf[t]
      BY <1>2 DEF SaveExpiry, ExpiryFails
    <2> QED  BY <1>1, <2>1, <2>2 DEF Alone
  <1>4. Own(t)'
    BY <1>2 DEF Own
  <1>5. CASE SaveExpiry(t)
    <2>1. /\ book' = book /\ tainted' = tainted /\ redisOk' = redisOk /\ fallback' = fallback
      BY <1>5 DEF SaveExpiry, history
    <2>2. \A k \in Keys : Stored(k)' = Stored(k)
      BY <1>2, <2>1 DEF Stored
    <2> QED
      BY <1>1, <1>2, <1>3, <1>4, <2>1, <2>2, OwnExact, SameStoreInv
  <1>6. CASE ExpiryFails(t) /\ redisOk
    <2>1. SwitchStore(SaveAgain(t))
      BY <1>6 DEF ExpiryFails
    <2> QED  BY <1>1, <1>2, <1>3, <1>6, <2>1, SwitchInv
  <1>7. CASE ExpiryFails(t) /\ ~redisOk
    <2>1. /\ book' = book /\ tainted' = tainted /\ redisOk' = FALSE
          /\ fallback' = SaveAgain(t)
      BY <1>7 DEF ExpiryFails, SwitchStore
    <2>2. KeyOf[t] \in tainted
      BY <1>2, <1>7 DEF LedgerInv, NoneCarried
    <2>3. \A k \in Keys \ {KeyOf[t]} : Stored(k)' = Stored(k)
      BY <1>7, <2>1 DEF Stored, SaveAgain, LedgerTypeOK, Stores
    <2>4. redisOk' = redisOk
      BY <1>7, <2>1 DEF LedgerTypeOK
    <2> QED
      BY <1>1, <1>2, <1>3, <2>1, <2>2, <2>3, <2>4, SameStoreInv
  <1> QED  BY <1>5, <1>6, <1>7

LEMMA ForgetInv ==
    ASSUME LedgerTypeOK, LedgerInv, NEW k \in Keys, Forget(k)
    PROVE  LedgerInv'
  <1>1. /\ pc' = pc /\ cls' = cls /\ cur' = cur /\ side' = side /\ redisOk' = redisOk
        /\ fallback' = fallback /\ tainted' = tainted /\ leaked' = leaked
        /\ redis'[k] = NoEntry /\ \A j \in Keys \ {k} : redis'[j] = redis[j]
        /\ \A j \in Keys \ {k} : book'[j] = book[j]
        /\ redisOk => book'[k] = NoEntry
        /\ ~redisOk => book'[k] = book[k]
        /\ ttl' = ttl \ {k}
    BY DEF Forget, task, LedgerTypeOK, Stores
  <1>2. LedgerExact'
    <2> SUFFICES ASSUME NEW j \in Keys, j \notin tainted PROVE Exact(j)'
      BY <1>1 DEF LedgerExact
    <2>1. Exact(j)  BY DEF LedgerInv, LedgerExact
    <2>2. CASE j # k
      BY <1>1, <2>1, <2>2 DEF Exact, Stored
    <2>3. CASE j = k
      <3>1. Stored(j)' = book'[j]
        BY <1>1, <2>1, <2>3 DEF Exact, Stored
      <3>2. \A t \in Trades : KeyOf[t] = j => pc'[t] \notin {"reload", "write"}
        BY <1>1, <2>3 DEF Forget, InFlight, Held
      <3> QED  BY <3>1, <3>2 DEF Exact
    <2> QED  BY <2>2, <2>3
  <1>3. OneAtATime' /\ NoneCarried'
    BY <1>1 DEF LedgerInv, OneAtATime, NoneCarried
  <1>4. EntriesExpire'
    BY <1>1 DEF LedgerInv, EntriesExpire
  <1> QED  BY <1>2, <1>3, <1>4 DEF LedgerInv

LEMMA CrashInv ==
    ASSUME LedgerTypeOK, LedgerInv, Crash
    PROVE  LedgerInv'
  <1>1. /\ \A t \in Trades : pc'[t] \in {"idle", "done"}
        /\ redisOk' = TRUE /\ redis' = redis /\ book' = redis /\ ttl' = ttl
        /\ \A t \in Trades : pc[t] = "expire" => KeyOf[t] \in leaked'
        /\ leaked \subseteq leaked'
    BY DEF Crash, LedgerTypeOK
  <1>2. LedgerExact'
    BY <1>1 DEF LedgerExact, Exact, Stored
  <1>3. OneAtATime' /\ NoneCarried'
    BY <1>1 DEF OneAtATime, NoneCarried, InFlight, Held
  <1>4. EntriesExpire'
    BY <1>1 DEF LedgerInv, EntriesExpire
  <1> QED  BY <1>2, <1>3, <1>4 DEF LedgerInv

LEMMA LedgerStep == LedgerTypeOK /\ LedgerInv /\ [Next]_vars => LedgerInv'
  <1> SUFFICES ASSUME LedgerTypeOK, LedgerInv, [Next]_vars PROVE LedgerInv'
    OBVIOUS
  <1>1. CASE UNCHANGED vars
    BY <1>1 DEF vars, task, history, LedgerInv, LedgerExact, Exact, Stored, OneAtATime,
                NoneCarried, EntriesExpire
  <1>2. ASSUME NEW t \in Trades, Receive(t) \/ Update(t)
        PROVE  LedgerInv'
    BY <1>2, ReceiveInv, ClassifyInv, ReloadInv, WriteInv, WriteFailsInv, ExpireInv
    DEF Update
  <1> QED  BY <1>1, <1>2, ForgetInv, CrashInv DEF Next

\* update is atomic, for any number of trades and keys, failed calls and
\* restarts, as long as its key sees one update at a time and no switch of the
\* store in the middle of one; and entries expire unless a call was lost.
THEOREM LedgerInvariant == Spec => []LedgerInv
  BY LedgerTypeInit, LedgerTypeStep, LedgerInit, LedgerStep, PTL DEF Spec

COROLLARY LedgerAlwaysExact == Spec => []LedgerExact
  <1>1. LedgerInv => LedgerExact  BY DEF LedgerInv
  <1> QED  BY <1>1, LedgerInvariant, PTL

-----------------------------------------------------------------------------
\* No trade is counted twice

\* The set of saved trades only grows, and so does what they add up to.
LEMMA SavedSums ==
    ASSUME LedgerTypeOK, NEW k
    PROVE  /\ IsFiniteSet(Saved(k)) /\ SumOf(size, Saved(k)) \in Nat
           /\ \A t \in Trades : size[t] \in Nat
  <1>1. Saved(k) \subseteq Trades /\ IsFiniteSet(Saved(k))
    BY TradesAssumption, FS_Subset DEF Saved
  <1>2. \A t \in Trades : size[t] \in Nat
    BY SizeAssumption DEF LedgerTypeOK
  <1> QED  BY <1>1, <1>2, SumType

LEMMA SavedPrimed ==
    ASSUME NEW k PROVE SumOf(size, Saved(k))' = SumOf(size', Saved(k)')
  BY DEF SumOf

LEMMA SavedNext ==
    ASSUME LedgerTypeOK', NEW k
    PROVE  SumOf(size, Saved(k))' \in Nat
  <1>1. Saved(k)' \subseteq Trades /\ \A t \in Trades : size'[t] \in Nat
    BY SizeAssumption DEF Saved, LedgerTypeOK
  <1>2. IsFiniteSet(Saved(k)')  BY <1>1, TradesAssumption, FS_Subset
  <1>3. SumOf(size', Saved(k)') \in Nat  BY <1>1, <1>2, SumType
  <1> QED  BY <1>3, SavedPrimed

LEMMA SavedGrows ==
    ASSUME LedgerTypeOK, LedgerTypeOK', NEW k, Saved(k) \subseteq Saved(k)',
           \A t \in Saved(k) : size'[t] = size[t]
    PROVE  SumOf(size, Saved(k)) <= SumOf(size, Saved(k))'
  <1>1. SumOf(size, Saved(k)) = SumOf(size', Saved(k))
    BY SumSame
  <1>2. IsFiniteSet(Saved(k)') /\ \A t \in Saved(k)' : size'[t] \in Nat
    <2>1. Saved(k)' \subseteq Trades  BY DEF Saved
    <2>2. IsFiniteSet(Saved(k)')  BY <2>1, TradesAssumption, FS_Subset
    <2> QED  BY <2>1, <2>2, SizeAssumption DEF LedgerTypeOK
  <1>3. SumOf(size', Saved(k)) <= SumOf(size', Saved(k)')
    BY <1>2, SumPart
  <1> QED  BY <1>1, <1>3, SavedPrimed

\* Every step keeps the sizes of the trades that were saved, and their being so.
LEMMA SavedStay ==
    ASSUME LedgerTypeOK, [Next]_vars, NEW k
    PROVE  Saved(k) \subseteq Saved(k)' /\ \A t \in Saved(k) : size'[t] = size[t]
  <1>1. CASE UNCHANGED vars \/ \E l \in Keys : Forget(l)
    BY <1>1 DEF vars, task, Saved, Forget
  <1>2. ASSUME NEW t \in Trades, Receive(t)
        PROVE  Saved(k) \subseteq Saved(k)' /\ \A u \in Saved(k) : size'[u] = size[u]
    BY <1>2 DEF Receive, Goto, Saved, LedgerTypeOK
  <1>3. ASSUME NEW t \in Trades, Update(t)
        PROVE  Saved(k) \subseteq Saved(k)' /\ \A u \in Saved(k) : size'[u] = size[u]
    <2>1. size' = size /\ (\A u \in Trades \ {t} : pc'[u] = pc[u])
          /\ pc[t] # "done" /\ (pc[t] = "expire" => pc'[t] = "done")
      BY <1>3 DEF Update, ClassifyTrade, ClassifyFails, Reload, ReloadFails, SaveHash,
                  SaveFails, SaveExpiry, ExpiryFails, Delete, DeleteFails, WriteFallback,
                  Saves, Deletes, Goto, LedgerTypeOK
    <2> QED  BY <2>1 DEF Saved
  <1>4. CASE Crash
    BY <1>4 DEF Crash, Saved
  <1> QED  BY <1>1, <1>2, <1>3, <1>4 DEF Next

\* What a task saves exceeds what it read by its own trade at most.
LEMMA ResultSize ==
    ASSUME LedgerTypeOK, NEW t \in Trades, pc[t] = "write"
    PROVE  Result(t).size \in Nat /\ Result(t).size <= cur[t].size + size[t]
  <1>1. size[t] \in Nat \ {0} /\ cur[t].size \in Nat
    BY SizeAssumption, EntryParts DEF LedgerTypeOK, NoEntry
  <1>2. CASE cls[t] = "EXIT"
    BY <1>1, <1>2 DEF Result, Decreased, Entry, NoEntry
  <1>3. CASE cls[t] # "EXIT"
    BY <1>1, <1>3 DEF Result, Increased, Entry
  <1> QED  BY <1>2, <1>3

\* It becomes one of the saved trades in the same step.
LEMMA SavesOwn ==
    ASSUME LedgerTypeOK, LedgerTypeOK', OnlySaved, NEW t \in Trades, pc[t] = "write",
           pc' = [pc EXCEPT ![t] = "expire"] \/ pc' = [pc EXCEPT ![t] = "done"],
           UNCHANGED size
    PROVE  Result(t).size <= SumOf(size, Saved(KeyOf[t]))'
  <1> DEFINE k == KeyOf[t]
  <1>1. Saved(k)' = Saved(k) \cup {t} /\ t \notin Saved(k)
    BY DEF Saved, LedgerTypeOK
  <1>2. \A u \in Saved(k) \cup {t} : size[u] \in Nat
    BY SavedSums DEF Saved
  <1>3. SumOf(size, Saved(k) \cup {t}) = SumOf(size, Saved(k)) + size[t]
    BY <1>1, <1>2, SavedSums, SumAdd
  <1>4. SumOf(size, Saved(k))' = SumOf(size, Saved(k) \cup {t})
    BY <1>1, SavedPrimed
  <1>5. cur[t].size <= SumOf(size, Saved(k)) /\ cur[t].size \in Nat
    BY EntryParts DEF OnlySaved, LedgerTypeOK, NoEntry
  <1> QED  BY <1>3, <1>4, <1>5, ResultSize, SavedSums

\* What a store may hold after a step, and a task after reading one.
Small(e, k) == e.size <= SumOf(size, Saved(k))

LEMMA SmallStays ==
    ASSUME LedgerTypeOK, LedgerTypeOK', [Next]_vars, NEW k,
           NEW e \in Entries \cup {NoEntry}, Small(e, k)
    PROVE  e.size <= SumOf(size, Saved(k))'
  <1>1. e.size \in Nat  BY EntryParts DEF NoEntry
  <1>2. SumOf(size, Saved(k)) \in Nat /\ SumOf(size, Saved(k))' \in Nat
    BY SavedSums, SavedNext
  <1>3. SumOf(size, Saved(k)) <= SumOf(size, Saved(k))'
    BY SavedStay, SavedGrows
  <1> QED  BY <1>1, <1>2, <1>3 DEF Small

LEMMA NothingIsSmall ==
    ASSUME LedgerTypeOK', NEW k PROVE NoEntry.size <= SumOf(size, Saved(k))'
  BY SavedNext DEF NoEntry

\* The entry is what t saves now.
Saving(t, e) == /\ pc[t] = "write" /\ e = Result(t) /\ UNCHANGED size
                /\ \/ pc' = [pc EXCEPT ![t] = "expire"]
                   \/ pc' = [pc EXCEPT ![t] = "done"]

\* Where the entries come from that a step of t leaves behind.
LEMMA UpdateEntries ==
    ASSUME LedgerTypeOK, NEW t \in Trades, Update(t)
    PROVE  LET k == KeyOf[t] IN
           /\ \A l \in Keys \ {k} : redis'[l] = redis[l] /\ fallback'[l] = fallback[l]
           /\ redis'[k] \in {redis[k], NoEntry} \/ Saving(t, redis'[k])
           /\ \/ fallback'[k] \in {fallback[k], NoEntry} \/ Saving(t, fallback'[k])
              \/ pc[t] = "expire" /\ fallback'[k] = cur[t]
           /\ \A u \in Trades \ {t} : pc'[u] = pc[u] /\ cur'[u] = cur[u]
           /\ pc'[t] \in {"write", "expire"} =>
                 cur'[t] \in {redis[k], fallback[k]} \/ Saving(t, cur'[t])
  <1> DEFINE k == KeyOf[t]
  <1>0. k \in Keys /\ redis \in Stores /\ fallback \in Stores
    BY KeyAssumption DEF LedgerTypeOK
  <1>1. \A f \in Stores : \A e :
            /\ [f EXCEPT ![k] = e][k] = e
            /\ \A l \in Keys \ {k} : [f EXCEPT ![k] = e][l] = f[l]
    BY <1>0 DEF Stores
  <1>2. CASE ClassifyTrade(t) \/ ClassifyFails(t)
    BY <1>2 DEF ClassifyTrade, ClassifyFails, SwitchStore, Goto, LedgerTypeOK
  <1>3. CASE Reload(t)
    BY <1>3 DEF Reload, Goto, LedgerTypeOK, Stored
  <1>11. CASE ReloadFails(t)
    <2>1. /\ UNCHANGED redis /\ fallback' = fallback
          /\ cur' = [cur EXCEPT ![t] = fallback[k]]
          /\ pc' = [pc EXCEPT ![t] = AfterReload(t, fallback[k])]
      BY <1>11 DEF ReloadFails, SwitchStore, Goto
    <2> QED  BY <2>1 DEF LedgerTypeOK
  <1>4. CASE SaveHash(t)
    BY <1>0, <1>1, <1>4 DEF SaveHash, Saves, Saving, LedgerTypeOK
  <1>5. CASE SaveFails(t)
    <2>1. /\ pc[t] = "write" /\ UNCHANGED <<size, cur>>
          /\ pc' = [pc EXCEPT ![t] = "done"]
          /\ fallback' = [fallback EXCEPT ![k] = Result(t)]
      BY <1>5 DEF SaveFails, SwitchStore, Saves
    <2>2. redis' = redis \/ redis' = [redis EXCEPT ![k] = Result(t)]
      BY <1>5 DEF SaveFails
    <2>3. fallback'[k] = Result(t) /\ \A l \in Keys \ {k} : fallback'[l] = fallback[l]
      BY <1>0, <1>1, <2>1
    <2>4. /\ redis'[k] = redis[k] \/ redis'[k] = Result(t)
          /\ \A l \in Keys \ {k} : redis'[l] = redis[l]
      <3>1. CASE redis' = redis
        BY <3>1
      <3>2. CASE redis' = [redis EXCEPT ![k] = Result(t)]
        BY <1>0, <1>1, <3>2
      <3> QED  BY <2>2, <3>1, <3>2
    <2>5. pc'[t] = "done" /\ \A u \in Trades \ {t} : pc'[u] = pc[u]
      BY <2>1 DEF LedgerTypeOK
    <2> QED  BY <2>1, <2>3, <2>4, <2>5 DEF Saving
  <1>6. CASE SaveExpiry(t)
    BY <1>6 DEF SaveExpiry, Goto, LedgerTypeOK
  <1>7. CASE ExpiryFails(t)
    BY <1>0, <1>1, <1>7 DEF ExpiryFails, SaveAgain, SwitchStore, Goto, LedgerTypeOK
  <1>8. CASE Delete(t)
    BY <1>0, <1>1, <1>8 DEF Delete, Deletes, LedgerTypeOK
  <1>9. CASE DeleteFails(t)
    <2>1. /\ pc[t] = "write" /\ cur' = cur
          /\ pc' = [pc EXCEPT ![t] = "done"]
          /\ fallback' = [fallback EXCEPT ![k] = NoEntry]
      BY <1>9 DEF DeleteFails, SwitchStore, Deletes
    <2>2. redis' = redis \/ redis' = [redis EXCEPT ![k] = NoEntry]
      BY <1>9 DEF DeleteFails
    <2>3. fallback'[k] = NoEntry /\ \A l \in Keys \ {k} : fallback'[l] = fallback[l]
      BY <1>0, <1>1, <2>1
    <2>4. /\ redis'[k] = redis[k] \/ redis'[k] = NoEntry
          /\ \A l \in Keys \ {k} : redis'[l] = redis[l]
      <3>1. CASE redis' = redis
        BY <3>1
      <3>2. CASE redis' = [redis EXCEPT ![k] = NoEntry]
        BY <1>0, <1>1, <3>2
      <3> QED  BY <2>2, <3>1, <3>2
    <2>5. pc'[t] = "done" /\ \A u \in Trades \ {t} : pc'[u] = pc[u]
      BY <2>1 DEF LedgerTypeOK
    <2> QED  BY <2>1, <2>3, <2>4, <2>5
  <1>10. CASE WriteFallback(t)
    BY <1>0, <1>1, <1>10 DEF WriteFallback, Goto, Saving, LedgerTypeOK
  <1> QED
    BY <1>2, <1>3, <1>4, <1>5, <1>6, <1>7, <1>8, <1>9, <1>10, <1>11 DEF Update

LEMMA OnlySavedUpdate ==
    ASSUME LedgerTypeOK, LedgerTypeOK', OnlySaved, [Next]_vars, NEW t \in Trades, Update(t)
    PROVE  OnlySaved'
  <1> DEFINE Fits(e, k) == e.size <= SumOf(size, Saved(k))'
  <1>1. ASSUME NEW e, Saving(t, e) PROVE Fits(e, KeyOf[t])
    BY <1>1, SavesOwn DEF Saving
  <1>2. \A k : Fits(NoEntry, k)  BY NothingIsSmall
  <1>3. \A k \in Keys : Fits(redis[k], k) /\ Fits(fallback[k], k)
    BY StoredType, SmallStays DEF OnlySaved, Small
  <1>4. \A u \in Trades : pc[u] \in {"write", "expire"} => Fits(cur[u], KeyOf[u])
    BY SmallStays DEF OnlySaved, Small, LedgerTypeOK
  <1>5. KeyOf[t] \in Keys  BY KeyAssumption
  <1> HIDE DEF Fits
  <1>6. \A k \in Keys : Fits(redis'[k], k)
    BY <1>1, <1>2, <1>3, UpdateEntries
  <1>7. \A k \in Keys : Fits(fallback'[k], k)
    BY <1>1, <1>2, <1>3, <1>4, UpdateEntries
  <1>8. \A u \in Trades : pc'[u] \in {"write", "expire"} => Fits(cur'[u], KeyOf[u])
    BY <1>1, <1>3, <1>4, <1>5, UpdateEntries
  <1> QED  BY <1>6, <1>7, <1>8 DEF OnlySaved, Fits

LEMMA OnlySavedStep ==
    ASSUME LedgerTypeOK, LedgerTypeOK', OnlySaved, [Next]_vars
    PROVE  OnlySaved'
  <1> DEFINE Fits(e, k) == e.size <= SumOf(size, Saved(k))'
  <1>1. \A k : Fits(NoEntry, k)  BY NothingIsSmall
  <1>2. \A k \in Keys : Fits(redis[k], k) /\ Fits(fallback[k], k)
    BY StoredType, SmallStays DEF OnlySaved, Small
  <1>3. \A u \in Trades : pc[u] \in {"write", "expire"} => Fits(cur[u], KeyOf[u])
    BY SmallStays DEF OnlySaved, Small, LedgerTypeOK
  <1>4. ASSUME \A k \in Keys : redis'[k] \in {redis[k], NoEntry}
                              /\ fallback'[k] \in {fallback[k], NoEntry},
               cur' = cur,
               \A u \in Trades : pc'[u] \in {"write", "expire"} => pc[u] = pc'[u]
        PROVE  OnlySaved'
    BY <1>1, <1>2, <1>3, <1>4 DEF OnlySaved
  <1>5. CASE UNCHANGED vars
    BY <1>4, <1>5 DEF vars, task
  <1>6. CASE \E t \in Trades : Receive(t)
    BY <1>4, <1>6 DEF Receive, Goto, LedgerTypeOK
  <1>7. CASE \E k \in Keys : Forget(k)
    BY <1>4, <1>7 DEF Forget, task, LedgerTypeOK, Stores
  <1>8. CASE Crash
    BY <1>4, <1>8 DEF Crash, Empty
  <1> QED  BY <1>5, <1>6, <1>7, <1>8, OnlySavedUpdate DEF Next

\* None of the trades is counted twice: no entry exceeds what its wallet traded.
THEOREM NoneCountedTwice == Spec => []CountedOnce
  <1>1. Init => LedgerTypeOK /\ OnlySaved
    <2> SUFFICES ASSUME Init PROVE OnlySaved
      BY LedgerTypeInit
    <2>1. \A k : Saved(k) = {}  BY DEF Init, Saved
    <2>2. SumOf(size, {}) = 0  BY SumEmpty
    <2> QED  BY <2>1, <2>2, KeyAssumption DEF Init, OnlySaved, Empty, NoEntry
  <1>2. LedgerTypeOK /\ OnlySaved /\ [Next]_vars => (LedgerTypeOK /\ OnlySaved)'
    BY LedgerTypeStep, OnlySavedStep
  <1>3. LedgerTypeOK /\ OnlySaved => CountedOnce
    <2> SUFFICES ASSUME LedgerTypeOK, OnlySaved, NEW k \in Keys
                 PROVE  redis[k].size <= Volume(k) /\ fallback[k].size <= Volume(k)
      BY DEF CountedOnce
    <2> DEFINE S == {t \in Trades : KeyOf[t] = k /\ pc[t] # "idle"}
    <2>1. IsFiniteSet(S) /\ \A t \in S : size[t] \in Nat
      BY TradesAssumption, FS_Subset, SizeAssumption DEF LedgerTypeOK
    <2>2. Saved(k) \subseteq S  BY DEF Saved
    <2>3. SumOf(size, Saved(k)) <= SumOf(size, S)  BY <2>1, <2>2, SumPart
    <2>4. SumOf(size, S) \in Nat  BY <2>1, SumType
    <2>5. redis[k].size \in Nat /\ fallback[k].size \in Nat
      BY StoredType, EntryParts DEF NoEntry
    <2> QED  BY <2>3, <2>4, <2>5, SavedSums DEF OnlySaved, Volume
  <1> QED  BY <1>1, <1>2, <1>3, PTL DEF Spec
=============================================================================
