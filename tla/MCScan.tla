------------------------------- MODULE MCScan -------------------------------
(***************************************************************************)
(* An instance of ScanTruth for TLC.  A block holds a purchase alone, a    *)
(* sale and a purchase of two transactions, or a purchase whose            *)
(* transaction also mints or moves dust: with pages of two, a block may or *)
(* may not straddle two of them, and a full page may be the last one.      *)
(***************************************************************************)
EXTENDS ScanTruth

CONSTANTS w1, w2

Move(n, k) == [tx |-> n, kind |-> k]

MCBlocks == {<<Move(1, "in")>>,
             <<Move(1, "out"), Move(2, "in")>>,
             <<Move(1, "mint"), Move(1, "in")>>,
             <<Move(1, "dust"), Move(1, "in")>>}
=============================================================================
