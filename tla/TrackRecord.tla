---------------------------- MODULE TrackRecord ----------------------------
(***************************************************************************)
(* The performance report of the simulation: what PerformanceTracker       *)
(* computes from the rows of bot_positions while two jobs close them.  A   *)
(* job takes the time, and commits later: rows may commit in another order *)
(* than their closed_at, and a job with an old snapshot writes to a row    *)
(* that is closed.  Time is an idealised datetime.now(): no two closes     *)
(* fall into one microsecond, and the clock of the host is never set back. *)
(***************************************************************************)
EXTENDS Dollars, Functions, Sequences

CONSTANTS
    Positions, Jobs,
    Markers,                  \* the jobs that write the price they find
    Wallet, Tier, Category,   \* functions of a position
    Start,                    \* settings.SIM_BANKROLL_USDC
    Results,                  \* profits and losses of a close
    Marks,                    \* unrealised ones
    TopN,                     \* wallets a report lists
    MaxClock                  \* bound on the closes decided

ASSUME StartAssumption == Start \in Nat
ASSUME ResultAssumption == Results \subseteq Int /\ Marks \subseteq Int
ASSUME BoundsAssumption == TopN \in Nat /\ MaxClock \in Nat

VARIABLES
    row,     \* bot_positions
    todo,    \* what is left of each job's snapshot
    marked,  \* the position a job has marked and not judged yet
    verdict, \* the close a job is about to commit
    clock    \* closes decided so far; a close takes it as its time

vars == <<row, todo, marked, verdict, clock>>

NoVerdict == [pos |-> {}, realised |-> 0, at |-> 0]
NoRow     == [status |-> "none", realised |-> 0, unrealised |-> 0, at |-> 0]

Init ==
    /\ row = [p \in Positions |-> NoRow]
    /\ todo = [j \in Jobs |-> {}]
    /\ marked = [j \in Jobs |-> {}]
    /\ verdict = [j \in Jobs |-> NoVerdict]
    /\ clock = 0

-----------------------------------------------------------------------------
Having(status) == {p \in Positions : row[p].status = status}
Open   == Having("open")
Closed == Having("closed")

OpenRow(p) ==
    /\ row[p].status = "none"
    /\ row' = [row EXCEPT ![p].status = "open"]
    /\ UNCHANGED <<todo, marked, verdict, clock>>

\* the job is between two positions
Free(j) == marked[j] = {} /\ verdict[j] = NoVerdict

Snapshot(j) ==
    /\ todo[j] = {} /\ Free(j) /\ Open # {}
    /\ todo' = [todo EXCEPT ![j] = Open]
    /\ UNCHANGED <<row, marked, verdict, clock>>

\* no price, a failing read, or no reason to close
Pass(j, p) ==
    /\ p \in todo[j] /\ Free(j)
    /\ todo' = [todo EXCEPT ![j] = @ \ {p}]
    /\ UNCHANGED <<row, marked, verdict, clock>>

\* Mutant: the mark writes the row of the snapshot back
MarkReopens(j, p, u) ==
    row' = [row EXCEPT ![p].unrealised = u, ![p].status = "open"]

MarkRow(j, p, u) == row' = [row EXCEPT ![p].unrealised = u]

\* the commit of a price
Mark(j, p) ==
    /\ j \in Markers /\ p \in todo[j] /\ Free(j)
    /\ \E u \in Marks : MarkRow(j, p, u)
    /\ todo' = [todo EXCEPT ![j] = @ \ {p}]
    /\ marked' = [marked EXCEPT ![j] = {p}]
    /\ UNCHANGED <<verdict, clock>>

\* behind it, and behind Redis or Gamma: no reason to close
Keep(j) ==
    /\ marked[j] # {}
    /\ marked' = [marked EXCEPT ![j] = {}]
    /\ UNCHANGED <<row, todo, verdict, clock>>

\* Mutant: in coarser units
CoarseTime == (clock + 1) \div 2

Time == clock + 1

\* a job that marks has committed its mark; the result is computed and the time
\* taken before the transaction begins
Decide(j, p) ==
    /\ p \in IF j \in Markers THEN marked[j] ELSE todo[j]
    /\ verdict[j] = NoVerdict
    /\ clock < MaxClock
    /\ clock' = clock + 1
    /\ \E r \in Results :
          verdict' = [verdict EXCEPT ![j] =
                         [pos |-> {p}, realised |-> r, at |-> Time]]
    /\ todo' = [todo EXCEPT ![j] = @ \ {p}]
    /\ marked' = [marked EXCEPT ![j] = {}]
    /\ UNCHANGED row

\* by id, whatever the status; a commit may also fail
Commit(j) ==
    /\ verdict[j] # NoVerdict
    /\ \/ row' = [p \in Positions |->
                    IF p \in verdict[j].pos
                    THEN [status |-> "closed", realised |-> verdict[j].realised,
                          unrealised |-> 0, at |-> verdict[j].at]
                    ELSE row[p]]
       \/ UNCHANGED row
    /\ verdict' = [verdict EXCEPT ![j] = NoVerdict]
    /\ UNCHANGED <<todo, marked, clock>>

Next ==
    \/ \E p \in Positions : OpenRow(p)
    \/ \E j \in Jobs : \/ Snapshot(j) \/ Keep(j) \/ Commit(j)
                       \/ \E p \in Positions : Pass(j, p) \/ Mark(j, p) \/ Decide(j, p)

Spec == Init /\ [][Next]_vars

-----------------------------------------------------------------------------
(* The report.  An amount is of the realised P&L of closed rows and of the *)
(* unrealised P&L of open ones; a mark on a closed row does not count.     *)

Realised   == [p \in Positions |-> row[p].realised]
Unrealised == [p \in Positions |-> row[p].unrealised]
TotalRealised   == NetOf(Realised, Closed)
TotalUnrealised == NetOf(Unrealised, Open)

Winners == {p \in Closed : row[p].realised > 0}
Losers  == {p \in Closed : row[p].realised <= 0}

\* the elements of S in the order of their keys
Listings(S) == Bijection(1 .. Cardinality(S), S)
Sorted(key, S) == CHOOSE s \in Listings(S) :
                     \A i, j \in DOMAIN s : i < j => key[s[i]] <= key[s[j]]

\* Mutant: in the order of the table
TableOrder == CHOOSE s \in Listings(Closed) : TRUE

Series == Sorted([p \in Closed |-> row[p].at], Closed)

\* a fall from a peak, as a fraction of it
NoFall == [by |-> 0, of |-> 1]
Deeper(f, g) == f.by * g.of > g.by * f.of
Worse(f, g)  == IF Deeper(g, f) THEN g ELSE f

Accounts == [running : Int, peak : Nat, worst : [by : Nat, of : Nat \ {0}]]

Advance(p) == [acc \in Accounts |->
    LET running == acc.running + row[p].realised
    IN  IF running > acc.peak
        THEN [acc EXCEPT !.running = running, !.peak = running]
        ELSE [acc EXCEPT !.running = running,
                         !.worst = IF acc.peak > 0
                                   THEN Worse(@, [by |-> acc.peak - running,
                                                  of |-> acc.peak])
                                   ELSE @]]

\* walk[n]: after n closes
MaxDrawdown ==
    LET series == Series
        walk[n \in 0 .. Cardinality(Closed)] ==
            IF n = 0 THEN [running |-> Start, peak |-> Start, worst |-> NoFall]
                     ELSE Advance(series[n])[walk[n - 1]]
    IN  walk[Cardinality(Closed)].worst

\* one line of a breakdown
Line(S) == [trades |-> Cardinality(S), wins |-> Cardinality(S \cap Winners),
            pnl |-> NetOf(Realised, S)]

ByTier   == [t \in {Tier[p] : p \in Closed} |->
                Line({p \in Closed : Tier[p] = t})]
ByWallet == [w \in {Wallet[p] : p \in Closed} |->
                Line({p \in Closed : Wallet[p] = w})]

TopWallets ==
    LET lines  == ByWallet
        ranked == Sorted([w \in DOMAIN lines |-> -lines[w].pnl], DOMAIN lines)
    IN  {ranked[i] : i \in {n \in DOMAIN ranked : n <= TopN}}

\* Mutant: the unrealised P&L whatever the status
MarkOnly == Unrealised

Counted == [p \in Positions |-> IF row[p].status = "closed" THEN row[p].realised
                                                            ELSE row[p].unrealised]

ByCategory == [c \in {Category[p] : p \in Closed \cup Open} |->
                  NetOf(Counted, {p \in Closed \cup Open : Category[p] = c})]
=============================================================================
