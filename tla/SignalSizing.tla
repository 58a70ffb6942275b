---------------------------- MODULE SignalSizing ----------------------------
(***************************************************************************)
(* The sizes SignalEngine.evaluate gives its signals.  Money is in whole   *)
(* dollars, a score in whole points, a share in units of 0.5 % where the   *)
(* code has tiers and in % where the settings have caps.  Every size is    *)
(* rounded down to $10, so the dollars lost by \div make no difference.    *)
(***************************************************************************)
EXTENDS Integers

CONSTANTS
    MaxExposurePct,      \* MAX_PER_MARKET_EXPOSURE_PCT
    MaxLiquidityPct,     \* MAX_LIQUIDITY_CONSUMPTION_PCT
    MinCopySize,         \* MIN_COPY_SIZE
    MicroMinDepth, MicroMaxSize,
    NoFlipMaxSize

\* validate_risk_parameters, and the defaults of the others
ASSUME PctAssumption  == /\ MaxExposurePct \in 1 .. 100
                         /\ MaxLiquidityPct \in 1 .. 100
ASSUME SizeAssumption == /\ MinCopySize \in Nat \ {0}
                         /\ MicroMinDepth \in Nat
                         /\ MicroMaxSize \in Nat
                         /\ NoFlipMaxSize \in Nat

Score == 0 .. 100
Rank  == [score : Score, roi : Score, consistency : Score]

Least(a, b) == IF a <= b THEN a ELSE b
Most(a, b)  == IF a <= b THEN b ELSE a

TenDown(n) == 10 * (n \div 10)

\* TIER_PCT in units of 0.5 %
Tier(score) == CASE score \in 55 .. 64  -> 1
                 [] score \in 65 .. 74  -> 2
                 [] score \in 75 .. 84  -> 3
                 [] score \in 85 .. 100 -> 4
                 [] OTHER               -> 0

\* _compute_confidence_multiplier, times 10000
MaxConfidence == 15000
Confidence(roi, consistency) ==
    Least(MaxConfidence, Most(5000, 2 * roi * consistency))

\* the tiers are 1/200 each
RawSize(bank, r) ==
    (bank * Tier(r.score) * Confidence(r.roi, r.consistency)) \div 2000000

DepthCap(depth)     == (depth * MaxLiquidityPct) \div 100
MaxExposure(bank)   == (bank * MaxExposurePct) \div 100

CopySize(bank, r, depth) ==
    TenDown(Least(RawSize(bank, r), Least(MaxExposure(bank), DepthCap(depth))))

\* Mutant: not raised to $10
MicroBare(depth) == TenDown(Least(DepthCap(depth), MicroMaxSize))

\* a book too thin for MIN_COPY_SIZE
MicroSize(depth) == Most(TenDown(Least(DepthCap(depth), MicroMaxSize)), 10)

\* NO_FLIP_SIZE_PCT is 0.5 %
NoFlipSize(bank) == Most(TenDown(Least(bank \div 200, NoFlipMaxSize)), 10)
=============================================================================
