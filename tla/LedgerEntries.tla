--------------------------- MODULE LedgerEntries ---------------------------
(***************************************************************************)
(* What PositionLedger promises for one wallet and one market: the entry   *)
(* that trades leave behind when they are applied one after the other, and *)
(* the class each of them gets.                                            *)
(***************************************************************************)
EXTENDS Naturals

Sides   == {"BUY", "SELL"}
NoEntry == [side |-> "NONE", size |-> 0, count |-> 0]
Entries == [side : Sides, size : Nat \ {0}, count : Nat \ {0}]

\* A trade opens an entry, adds to one of its own side, or takes from one of
\* the other side until nothing is left.
Entry(s, n, c) == [side |-> s, size |-> n, count |-> c]
Opened(s, n)   == Entry(s, n, 1)
Grown(e, n)    == Entry(e.side, e.size + n, e.count + 1)
Reduced(e, n)  == IF n < e.size THEN Entry(e.side, e.size - n, e.count) ELSE NoEntry

Apply(e, s, n) == CASE e = NoEntry -> Opened(s, n)
                    [] e.side = s  -> Grown(e, n)
                    [] OTHER       -> Reduced(e, n)

ClassOf(e, s) == CASE e = NoEntry -> "ENTRY"
                   [] e.side = s  -> "ADD"
                   [] OTHER       -> "EXIT"
=============================================================================
