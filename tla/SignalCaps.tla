----------------------------- MODULE SignalCaps -----------------------------
(***************************************************************************)
(* How far the gates of SignalEngine keep the bot within its limits when   *)
(* many pipelines evaluate at once.                                        *)
(***************************************************************************)
EXTENDS SignalGates

-----------------------------------------------------------------------------
OfferType == [market : Markets, strategy : Strategies, size : Nat \ {0},
              bank : 0 .. MaxBank, depth : Nat]

\* Types: a signal never asks for nothing; a task past its screening, and a row,
\* have a signal; only the paper trader gets supplemental ones.
SignalTypeOK ==
    /\ simulated \in BOOLEAN
    /\ pc \in [Trades -> PcValues]
    /\ offer \in [Trades -> OfferType \cup {NoOffer}]
    /\ status \in [Trades -> {"ABSENT", "OPEN", "CLOSED"}]
    /\ slot \in [Trades -> Pairs \cup Trades \cup {<<>>}]
    /\ blind \subseteq Trades
    /\ bankroll \in Bankrolls
    /\ halted \in BOOLEAN
    /\ crowd \in [Markets -> Nat]
    /\ stopped \subseteq Trades
    /\ hazard \subseteq HazardKinds
    /\ \A t \in Trades :
          /\ pc[t] \in PcValues \ {"idle", "done"} => offer[t] # NoOffer
          /\ pc[t] \in {"cap", "breaker", "related"} => IsCopy(t)
          /\ status[t] # "ABSENT" => offer[t] # NoOffer /\ pc[t] = "done"
          /\ ~simulated /\ pc[t] = "execute" => IsCopy(t)
          /\ ~simulated /\ status[t] # "ABSENT" => IsCopy(t)

-----------------------------------------------------------------------------
\* Sizes

\* What the size of a signal promises, whatever rank, book and balance it was
\* computed from: tens of dollars; a COPY takes at most its share of the book and
\* 3 % of the bankroll (so the cap of a market never limits a size); the others
\* stay within their hard caps, or at the $10 they are raised to.
SizeSound(o) ==
    /\ o.size % 10 = 0
    /\ o.strategy = "COPY"    => /\ o.size >= MinCopySize
                                 /\ 100 * o.size <= 3 * o.bank
                                 /\ 100 * o.size <= MaxLiquidityPct * o.depth
    /\ o.strategy = "MICRO"   => o.size <= Most(MicroMaxSize, 10)
    /\ o.strategy = "NO_FLIP" => o.size <= Most(NoFlipMaxSize, 10)
SizesSound == \A t \in Trades : offer[t] # NoOffer => SizeSound(offer[t])

-----------------------------------------------------------------------------
\* Exposure of a market

\* POSITION_CAP compares what is open with the cap and leaves the signal's own
\* size and the pipelines behind it out.  A live market therefore exceeds the cap,
\* but by no more than one position of 3 % per pipeline that was past the gate
\* at once: the excess does not grow with the number of trades.
LiveExposure ==
    ~simulated /\ "exposureUnread" \notin hazard =>
        \A m \in Markets :
            100 * Exposure(m) < MaxExposurePct * MaxBank + crowd[m] * 3 * MaxBank

\* In simulation it is the slots that bound a market, with any number of
\* pipelines and failing reads of the exposure: a strategy holds one position of
\* it, and one more for every position opened on a lookup that failed, each
\* within the strategy's own cap.  A failed lookup of one trade never lets
\* another one in.
Ceiling(s) == CASE s = "COPY"    -> (3 * MaxBank) \div 100
                [] s = "MICRO"   -> Most(MicroMaxSize, 10)
                [] s = "NO_FLIP" -> Most(NoFlipMaxSize, 10)
OpenAt(p)  == {t \in Trades : IsOpen(t) /\ Pair(t) = p}
PaperExposure ==
    simulated => \A p \in Pairs :
        SumOf(Sizes, OpenAt(p))
            <= (1 + Cardinality(OpenAt(p) \cap blind)) * Ceiling(p[2])

\* The inductive strengthening.  Live: a pipeline past the gate has its 3 %
\* reserved.  Paper: of two open positions of a slot one did not know the other.
Reserved(m)  == Cardinality(PastCap(m)) * 3 * MaxBank
LiveReserve  ==
    ~simulated /\ "exposureUnread" \notin hazard =>
        \A m \in Markets :
            100 * Exposure(m) + Reserved(m)
                < MaxExposurePct * MaxBank + crowd[m] * 3 * MaxBank
SlotKnown    ==
    simulated => \A t, u \in Trades :
        t # u /\ IsOpen(t) /\ IsOpen(u) /\ Pair(t) = Pair(u)
            => t \in blind \/ u \in blind
SlotRecorded == \A t \in Trades : IsOpen(t) => slot[t] = SlotOf(t)

ExposureInv == /\ SizesSound /\ LiveExposure /\ PaperExposure
               /\ LiveReserve /\ SlotKnown /\ SlotRecorded

-----------------------------------------------------------------------------
\* Related markets and the breaker

\* CORRELATED_MARKET, "prevent stacking positions on effectively-the-same event":
\* in simulation no two COPY positions of related markets are open, unless a read
\* failed or two pipelines were past the gate at once.
NotStacked ==
    simulated /\ hazard \cap {"relatedUnread", "together"} = {} =>
        \A t, u \in Trades :
            (IsOpen(t) /\ IsOpen(u) /\ IsCopy(t) /\ IsCopy(u))
                => ~AreRelated(offer[t].market, offer[u].market)

\* "Trading halted": a whale's trade that arrives while the breaker is on, and
\* stays on, is never copied.  (Supplemental signals are: they leave before it.)
HaltStopsCopies ==
    "breakerUnread" \notin hazard =>
        \A t \in stopped :
            IsCopy(t) => pc[t] \notin {"related", "execute"} /\ ~IsOpen(t)

\* The strengthening: nobody at the executor is related to an open position, and
\* a halt that some trade arrived under is still on.
Apart ==
    simulated /\ hazard \cap {"relatedUnread", "together"} = {} =>
        \A t, u \in Trades :
            (/\ pc[t] = "execute" /\ IsCopy(t)
             /\ IsCopy(u) /\ (IsOpen(u) \/ pc[u] = "execute"))
                => ~AreRelated(offer[t].market, offer[u].market)
StillHalted == stopped # {} => halted
Screening   == \A t \in stopped : pc[t] # "idle"
GateInv     ==
    NotStacked /\ HaltStopsCopies /\ Apart /\ StillHalted /\ Screening
=============================================================================
