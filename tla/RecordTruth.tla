---------------------------- MODULE RecordTruth ----------------------------
(***************************************************************************)
(* What the report of TrackRecord says, against its meaning.               *)
(***************************************************************************)
EXTENDS TrackRecord

\* Types, and that no two closes have the same time.
RecordTypeOK ==
    /\ row \in [Positions -> [status : {"none", "open", "closed"},
                              realised : Results \cup {0},
                              unrealised : Marks \cup {0}, at : 0 .. MaxClock]]
    /\ todo \in [Jobs -> SUBSET Positions] /\ marked \in [Jobs -> SUBSET Positions]
    /\ verdict \in [Jobs -> [pos : SUBSET Positions, realised : Results \cup {0},
                             at : 0 .. MaxClock]]
    /\ clock \in 0 .. MaxClock
    /\ \A p, q \in Closed : row[p].at = row[q].at => p = q

\* Why no two have: a close takes a time that no row and no other job has.
RowsInv ==
    /\ IsFiniteSet(Open \cup Closed)
    /\ \A p \in Positions : IF p \in Closed THEN row[p].at \in 1 .. clock
                                            ELSE row[p].at = 0
VerdictInv ==
    \A j \in Jobs : verdict[j] # NoVerdict =>
        /\ \E p \in Positions : verdict[j].pos = {p}
        /\ verdict[j].at \in 1 .. clock
        /\ \A p \in Closed : row[p].at # verdict[j].at
        /\ \A k \in Jobs \ {j} : verdict[k].at # verdict[j].at
RecordInv == RecordTypeOK /\ RowsInv /\ VerdictInv

\* "Compute max drawdown from cumulative P&L series of closed positions": the
\* balance at a time is the start and all that closed by then; it never lies
\* deeper under its highest value so far than the drawdown says, and it did
\* lie that deep, in whatever order the rows were committed.
BalanceAt(t) == Start + NetOf(Realised, {p \in Closed : row[p].at <= t})
PeakAt(t)    == LET balances == {BalanceAt(u) : u \in 0 .. t}
                IN  CHOOSE b \in balances : \A c \in balances : c <= b
Falls == {[by |-> PeakAt(t) - BalanceAt(t), of |-> PeakAt(t)] :
            t \in {u \in 0 .. clock : PeakAt(u) > 0}}
DrawdownIsWorst ==
    LET worst == MaxDrawdown IN
    /\ \A f \in Falls : ~Deeper(f, worst)
    /\ Falls # {} => \E f \in Falls : ~Deeper(worst, f)

\* From one report to the next the drawdown never shrinks, and marks leave it
\* alone, unless a close of an earlier time is committed behind a later one,
\* or a row is closed again.
InOrder ==
    \A p \in Closed' : row'[p].at # row[p].at =>
        row[p].status = "open" /\ \A q \in Closed : row[q].at < row'[p].at
DrawdownNeverShrinks == [][InOrder => ~Deeper(MaxDrawdown, MaxDrawdown')]_row

\* The parts of a report agree with its totals, whatever marks and second
\* closes have come late: every tier and wallet has its closed rows, the
\* categories make up the total P&L, and no wallet that is left out has
\* earned more than one that is listed.
AddUp(lines) ==
    /\ NetOf([k \in DOMAIN lines |-> lines[k].trades], DOMAIN lines) = Cardinality(Closed)
    /\ NetOf([k \in DOMAIN lines |-> lines[k].wins], DOMAIN lines) = Cardinality(Winners)
    /\ NetOf([k \in DOMAIN lines |-> lines[k].pnl], DOMAIN lines) = TotalRealised
BreakdownsAgree ==
    /\ Cardinality(Winners) + Cardinality(Losers) = Cardinality(Closed)
    /\ AddUp(ByTier) /\ AddUp(ByWallet)
    /\ NetOf(ByCategory, DOMAIN ByCategory) = TotalRealised + TotalUnrealised
    /\ LET lines == ByWallet
           top   == TopWallets
       IN  \A w \in DOMAIN lines \ top : \A v \in top : lines[w].pnl <= lines[v].pnl
=============================================================================
