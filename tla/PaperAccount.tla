---------------------------- MODULE PaperAccount ----------------------------
(***************************************************************************)
(* What PaperTrading is for: the books of the paper account.  Invariants,  *)
(* action properties, liveness, and the implementation of PositionBook.    *)
(***************************************************************************)
EXTENDS PaperTrading, Dollars

-----------------------------------------------------------------------------
RowType == [status : {"ABSENT", "OPEN", "CLOSED"}, unrealized : Int, exit : Nat]

\* Types: a balance is never negative, a share count never zero-divided;
\* a job past its quote has a position; a task that was started has a signal
JobBound  == \A j \in Jobs : jpc[j] \notin {"idle", "loop"} => cur[j] \in Trades
SigBound  == \A t \in Trades : pc[t] # "idle" => sig[t] \in Signals

TypeOK ==
    /\ pc \in [Trades -> PcValues]
    /\ sig \in [Trades -> Signals \cup {NoSignal}]
    /\ blind \subseteq Trades
    /\ lock \in [Keys -> Trades \cup {NoTrade}]
    /\ fill \in [Trades -> Nat \ {0}]
    /\ row \in [Trades -> RowType]
    /\ bankroll \in Nat
    /\ peak \in Nat
    /\ jpc \in [Jobs -> JpcValues]
    /\ todo \in [Jobs -> SUBSET Trades]
    /\ cur \in [Jobs -> Trades \cup {NoTrade}]
    /\ quote \in [Jobs -> Nat]
    /\ got \in [Actors -> Nat]
    /\ crashes \in 0 .. MaxCrashes
    /\ hazard \subseteq HazardKinds
    /\ JobBound
    /\ SigBound

-----------------------------------------------------------------------------
\* Positions

\* The per-(market, strategy) lock does its work: of two positions of one
\* strategy open in one market, one was opened by a task whose own duplicate
\* lookup failed.  Tasks that arrive together, crashes, failed writes and the
\* failed lookup of another trade never let it happen.  It stands with what
\* carries it through every step: a task inside the lock's body is the one its
\* key names; a task between a lookup that answered and its insert has its slot
\* for itself; a row exists only for a task that is past its insert; jobs only
\* know positions that exist.
OneOpenPerStrategy ==
    \A t, u \in Trades :
        t # u /\ IsOpen(t) /\ IsOpen(u) /\ Key(t) = Key(u)
            => t \in blind \/ u \in blind
LockHeld  == \A t \in Trades : pc[t] \in Critical => lock[Key(t)] = t
SlotFree  == \A t, u \in Trades :
                pc[t] \in {"cash", "book", "insert"} /\ t \notin blind /\ IsOpen(u)
                    => Key(t) # Key(u)
RowPlaced == \A t \in Trades :
                row[t].status # "ABSENT" =>
                    pc[t] \in {"deductGet", "deductSet", "alert", "done", "dead"}
JobRows   == \A j \in Jobs :
                /\ \A t \in todo[j] : row[t].status # "ABSENT"
                /\ cur[j] \in Trades => row[cur[j]].status # "ABSENT"
SlotInv   == LockHeld /\ SlotFree /\ RowPlaced /\ JobRows /\ OneOpenPerStrategy

\* _get_open_position: "COPY: blocks any open position in the market (prevents
\* YES+NO)".  A COPY position is inserted only while the market has none.
CopyOpensAlone ==
    [][\A t \in Trades :
        ~IsOpen(t) /\ IsOpen(t)' /\ sig[t].strategy = "COPY" =>
            ~\E u \in Trades \ {t} : IsOpen(u) /\ sig[u].market = sig[t].market]_vars

Inserted == {t \in Trades : row[t].status # "ABSENT"}

\* The table behaves as PositionBook says: one open position per slot besides
\* those inserted after a failed lookup, opened once, closed for good.
Book == INSTANCE PositionBook WITH
            Slots  <- Keys,
            status <- [t \in Trades |-> row[t].status],
            slot   <- [t \in Trades |-> IF row[t].status = "ABSENT"
                                        THEN <<>> ELSE Key(t)],
            blind  <- blind \cap Inserted
ImplementsBook == Book!Spec

-----------------------------------------------------------------------------
\* Cash

\* The docstring's accounting: "On position open: bankroll -= size_usdc; on
\* position close: bankroll += exit_price * shares_held".
Closed   == {t \in Trades : row[t].status = "CLOSED"}
Stakes   == [t \in Trades |-> sig[t].size]
Payouts  == [t \in Trades |-> Proceeds(t, row[t].exit)]
BookBalance == Bank - SumOf(Stakes, Inserted) + SumOf(Payouts, Closed)

\* no committed open or close still has its bankroll update to do
Settled == ~PendingUpdate

\* Whenever no update is under way, the balance in Redis is the one the
\* positions in Postgres account for.
BankrollMatchesBook == Settled => bankroll = BookBalance

\* It is, unless one of five things happened: two read-modify-writes of the
\* balance overlapped, a position was closed twice, the cash check was passed
\* by two tasks and the balance clamped at zero, Redis failed, or the process
\* died between a commit and its bankroll update.  Nothing else unbalances it:
\* not a failed insert, a failed lookup, a crash elsewhere or a stale snapshot.
AccountHazards == {"lostUpdate", "doubleClose", "shortfall", "redis",
                   "crashMidUpdate"}
AccountExact == hazard \cap AccountHazards = {} => BankrollMatchesBook

\* Clamping only ever forgives: with no other hazard the account shows at least
\* what the positions account for.
ClampOnlyForgives ==
    Settled /\ hazard \cap AccountHazards \subseteq {"shortfall"}
        => bankroll >= BookBalance

\* sim:peak_bankroll is the highest balance a close produced: a closing job
\* leaves no balance above it, unless restores overlapped or were cut short.
PeakHazards == {"lostUpdate", "stalePeak", "redis", "crashMidUpdate",
                "crashMidPeak"}
PeakSettled == Settled /\ ~\E j \in Jobs : InPeak(j)
PeakCovers  == PeakSettled /\ hazard \cap PeakHazards = {} => peak >= bankroll

\* The peak never falls: a job that compared its balance with an older peak
\* does not write over a higher one.
PeakNeverFalls == [][{"lostUpdate", "stalePeak"} \cap hazard = {}
                        => peak' >= peak]_vars

-----------------------------------------------------------------------------
\* The strengthening of AccountExact, ClampOnlyForgives and PeakCovers

\* Unless a read overlapped an update or failed, one actor is between its read
\* and its write, and what it read is still the balance.
WindowInv ==
    hazard \cap {"lostUpdate", "redis"} = {} =>
        /\ \A a, b \in Actors : Updating(a) /\ Updating(b) => a = b
        /\ \A a \in Actors : Updating(a) => got[a] = bankroll

\* A job that compares its balance with the peak is the only one to raise it:
\* nobody restores meanwhile, and what it holds is no less than the balance.
PeakInv ==
    hazard \cap PeakHazards = {} =>
        /\ \A i, j \in Jobs : InPeak(j) /\ (InPeak(i) \/ jpc[i] = "restoreSet") => i = j
        /\ \A j \in Jobs : jpc[j] = "peakSet" => got[j] > peak
        /\ peak >= bankroll \/ \E j \in Jobs : InPeak(j) /\ got[j] >= bankroll

\* Why the peak never falls: unless a read overlapped, one job is between its
\* read of the balance and its last call, and the peak it read has stayed.
InRaise(j) == jpc[j] = "restoreSet" \/ InPeak(j)
RaiseInv ==
    hazard \cap {"lostUpdate", "stalePeak"} = {} =>
        /\ \A i, j \in Jobs : InRaise(i) /\ InRaise(j) => i = j
        /\ \A j \in Jobs : jpc[j] = "peakSet" => got[j] > peak

\* What has been taken from the balance and what has been paid back: a task or
\* job that has committed and not yet updated the balance is still due.
Due(t)   == pc[t] \in {"deductGet", "deductSet"}
Owes(j)  == jpc[j] \in {"restoreGet", "restoreSet"}
Taken    == {t \in Inserted : ~Due(t)}
Returned == {t \in Closed : ~\E j \in Jobs : Owes(j) /\ cur[j] = t}
Accounted == Bank - SumOf(Stakes, Taken) + SumOf(Payouts, Returned)

\* A position is closed by one job, which pays back at the price of the row.
DueRows   == \A t \in Trades : Due(t) => row[t].status # "ABSENT"
OwedRows  == \A j \in Jobs : Owes(j) => /\ row[cur[j]].status = "CLOSED"
                                         /\ row[cur[j]].exit = quote[j]
OwedOnce  == \A i, j \in Jobs : Owes(i) /\ Owes(j) /\ cur[i] = cur[j] => i = j
AccountInv ==
    hazard \cap (AccountHazards \ {"shortfall"}) = {} =>
        /\ DueRows /\ OwedRows /\ OwedOnce
        /\ bankroll >= Accounted
        /\ "shortfall" \notin hazard => bankroll = Accounted

-----------------------------------------------------------------------------
\* Progress

\* Every trade that waits for its lock gets an answer: no task keeps the lock
\* of its market and strategy on any of its ways out.
TradeAnswered == \A t \in Trades : pc[t] = "acquire" ~> pc[t] \in {"done", "dead"}

\* Every run of a job ends, so the scheduler (max_instances = 1) can start the
\* next one.
JobRunEnds == \A j \in Jobs : jpc[j] # "idle" ~> jpc[j] = "idle"
=============================================================================
