---------------------------- MODULE PositionBook ----------------------------
(***************************************************************************)
(* What both halves of the bot promise about their positions, without      *)
(* tasks, locks, snapshots or a database: the positions of one slot (a     *)
(* market and a strategy) are open one at a time, except for those opened  *)
(* without knowing what the slot holds, and a position that was closed     *)
(* stays closed.  PaperTrading, OrderLifecycle implement it; SignalGates   *)
(* is built on it.                                                         *)
(***************************************************************************)
EXTENDS Integers

CONSTANTS Trades, Slots

VARIABLES
    status,     \* status[t]: ABSENT, OPEN or CLOSED
    slot,       \* slot[t]: the slot of the position t opened
    blind       \* the positions opened without knowing what their slot holds

bookVars == <<status, slot, blind>>

NoSlot == <<>>

Init == /\ status = [t \in Trades |-> "ABSENT"]
        /\ slot = [t \in Trades |-> NoSlot]
        /\ blind = {}

Enter(t, s) == /\ status[t] = "ABSENT"
               /\ status' = [status EXCEPT ![t] = "OPEN"]
               /\ slot' = [slot EXCEPT ![t] = s]

Open(t, s) == /\ \A u \in Trades : status[u] = "OPEN" => slot[u] # s
              /\ Enter(t, s)
              /\ UNCHANGED blind

\* the lookup failed: whatever the slot holds
OpenBlind(t, s) == /\ Enter(t, s)
                   /\ blind' = blind \cup {t}

Close(t) == /\ status[t] = "OPEN"
            /\ status' = [status EXCEPT ![t] = "CLOSED"]
            /\ UNCHANGED <<slot, blind>>

Next == \E t \in Trades :
            Close(t) \/ \E s \in Slots : Open(t, s) \/ OpenBlind(t, s)

Spec == Init /\ [][Next]_bookVars
=============================================================================
