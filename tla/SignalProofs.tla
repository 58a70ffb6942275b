---------------------------- MODULE SignalProofs ----------------------------
(***************************************************************************)
(* Proofs about SignalSizing and SignalGates for any number of trades, any *)
(* markets and settings.                                                   *)
(***************************************************************************)
EXTENDS SignalCaps, DollarSums

-----------------------------------------------------------------------------
\* Sizes

LEMMA ProductMono ==
    ASSUME NEW a \in Nat, NEW b \in Nat, NEW c \in Nat, a <= b
    PROVE  c * a \in Nat /\ c * a <= c * b
<1>1. c * b - c * a = c * (b - a)
  OBVIOUS
<1>2. c * (b - a) >= 0
  OBVIOUS
<1> QED BY <1>1, <1>2

\* Rounding to tens only ever takes away.
LEMMA TenDownBounds ==
    ASSUME NEW n \in Nat
    PROVE  /\ TenDown(n) \in Nat
           /\ TenDown(n) <= n
           /\ TenDown(n) % 10 = 0
BY DEF TenDown

LEMMA TierRange == \A n \in Score : Tier(n) \in 0 .. 4
BY DEF Tier, Score

LEMMA ConfidenceRange ==
    ASSUME NEW a \in Nat, NEW b \in Nat
    PROVE  Confidence(a, b) \in Nat /\ Confidence(a, b) <= MaxConfidence
<1> DEFINE x == 2 * a * b
<1>1. x \in Nat
  BY ProductMono
<1> HIDE DEF x
<1>2. /\ Least(MaxConfidence, Most(5000, x)) \in Nat
      /\ Least(MaxConfidence, Most(5000, x)) <= MaxConfidence
  BY <1>1 DEF Least, Most, MaxConfidence
<1> QED BY <1>2 DEF Confidence, x

LEMMA TierConfidence ==
    ASSUME NEW r \in Rank
    PROVE  /\ Tier(r.score) \in 0 .. 4
           /\ Confidence(r.roi, r.consistency) \in Nat
           /\ Confidence(r.roi, r.consistency) <= MaxConfidence
<1>1. r.score \in Score
  BY DEF Rank
<1>4. r.roi \in Nat /\ r.consistency \in Nat
  BY DEF Rank, Score
<1>2. Tier(r.score) \in 0 .. 4
  BY <1>1, TierRange
<1>3. /\ Confidence(r.roi, r.consistency) \in Nat
      /\ Confidence(r.roi, r.consistency) <= MaxConfidence
  BY <1>4, ConfidenceRange
<1> QED BY <1>2, <1>3

\* The tiers and the confidence multiplier allow at most 2 % times 1.5.
LEMMA RawSizeBounds ==
    ASSUME NEW bank \in Nat, NEW r \in Rank
    PROVE  /\ RawSize(bank, r) \in Nat
           /\ 100 * RawSize(bank, r) <= 3 * bank
<1> DEFINE tier == Tier(r.score)
           conf == Confidence(r.roi, r.consistency)
<1>0. tier \in 0 .. 4 /\ conf \in Nat /\ conf <= MaxConfidence
  BY TierConfidence
<1> HIDE DEF tier, conf
<1>1. tier \in Nat /\ tier <= 4 /\ conf \in Nat /\ conf <= MaxConfidence
  BY <1>0
<1>2. bank * tier \in Nat /\ bank * tier <= bank * 4
  BY <1>1, ProductMono
<1> DEFINE x == bank * tier
<1>m. MaxConfidence = 15000
  BY DEF MaxConfidence
<1>3. x * conf \in Nat /\ x * conf <= x * MaxConfidence
  BY <1>m, <1>1, <1>2, ProductMono
<1> HIDE DEF x
<1>4. x \in Nat /\ x <= bank * 4
  BY <1>2 DEF x
<1> DEFINE y == x * conf
<1>5. y \in Nat /\ y <= 60000 * bank
  BY <1>m, <1>3, <1>4 DEF y
<1> HIDE DEF y
<1>6. RawSize(bank, r) = y \div 2000000
  BY DEF RawSize, y, x, tier, conf
<1>7. y \div 2000000 \in Nat /\ 2000000 * (y \div 2000000) <= y
  BY <1>5
<1> QED BY <1>5, <1>6, <1>7

\* A share of a book is a share of it.
LEMMA DepthCapBounds ==
    ASSUME NEW d \in Nat
    PROVE  DepthCap(d) \in Nat /\ 100 * DepthCap(d) <= MaxLiquidityPct * d
<1> DEFINE y == d * MaxLiquidityPct
<1>1. MaxLiquidityPct \in Nat
  BY PctAssumption
<1>2. y \in Nat /\ y = MaxLiquidityPct * d
  BY <1>1, ProductMono
<1> HIDE DEF y
<1>3. y \div 100 \in Nat /\ 100 * (y \div 100) <= y
  BY <1>2
<1> QED BY <1>2, <1>3 DEF DepthCap, y

LEMMA MaxExposureNat ==
    ASSUME NEW b \in Nat
    PROVE  MaxExposure(b) \in Nat
<1> DEFINE y == b * MaxExposurePct
<1>1. y \in Nat
  BY PctAssumption, ProductMono
<1> HIDE DEF y
<1>2. y \div 100 \in Nat
  BY <1>1
<1> QED BY <1>2 DEF MaxExposure, y

\* What the gates' first caps give every COPY signal, for any settings: tens of
\* dollars within 3 % of the bankroll and within the share of the book.
THEOREM CopySizeBounds ==
    ASSUME NEW bank \in Nat, NEW r \in Rank, NEW d \in Nat
    PROVE  /\ CopySize(bank, r, d) \in Nat
           /\ CopySize(bank, r, d) % 10 = 0
           /\ 100 * CopySize(bank, r, d) <= 3 * bank
           /\ 100 * CopySize(bank, r, d) <= MaxLiquidityPct * d
<1> DEFINE n == Least(RawSize(bank, r), Least(MaxExposure(bank), DepthCap(d)))
<1>1. n \in Nat /\ n <= RawSize(bank, r) /\ n <= DepthCap(d)
  BY RawSizeBounds, DepthCapBounds, MaxExposureNat DEF Least
<1> HIDE DEF n
<1>2. TenDown(n) \in Nat /\ TenDown(n) <= n /\ TenDown(n) % 10 = 0
  BY <1>1, TenDownBounds
<1>3. CopySize(bank, r, d) = TenDown(n)
  BY DEF CopySize, n
<1>4. RawSize(bank, r) \in Nat /\ 100 * RawSize(bank, r) <= 3 * bank
  BY RawSizeBounds
<1>5. DepthCap(d) \in Nat /\ 100 * DepthCap(d) <= MaxLiquidityPct * d
  BY DepthCapBounds
<1>6. MaxLiquidityPct * d \in Int
  BY PctAssumption
<1> QED BY <1>1, <1>2, <1>3, <1>4, <1>5, <1>6

\* A bankroll below 33 times MIN_COPY_SIZE copies nothing: with the defaults
\* BANKROLL_USDC = 1000 and MIN_COPY_SIZE = 50, live mode never opens a position.
COROLLARY SmallBankCopiesNothing ==
    ASSUME NEW bank \in Nat, NEW r \in Rank, NEW d \in Nat,
           3 * bank < 100 * MinCopySize
    PROVE  CopySize(bank, r, d) < MinCopySize
BY CopySizeBounds, SizeAssumption

LEMMA SupplementBounds ==
    ASSUME NEW n \in Nat, NEW cap \in Nat
    PROVE  /\ Most(TenDown(Least(n, cap)), 10) \in Nat \ {0}
           /\ Most(TenDown(Least(n, cap)), 10) % 10 = 0
           /\ Most(TenDown(Least(n, cap)), 10) <= Most(cap, 10)
<1>1. Least(n, cap) \in Nat /\ Least(n, cap) <= cap
  BY DEF Least
<1> DEFINE x == TenDown(Least(n, cap))
<1>2. x \in Nat /\ x <= cap /\ x % 10 = 0
  BY <1>1, TenDownBounds
<1> HIDE DEF x
<1>3. Most(x, 10) \in Nat \ {0} /\ Most(x, 10) % 10 = 0 /\ Most(x, 10) <= Most(cap, 10)
  BY <1>2 DEF Most
<1> QED BY <1>3 DEF x

\* A MICRO is raised to $10 whenever its share of the book is below $20: with the
\* defaults, where the book holds less than MIN_COPY_SIZE = 50, it always is, the
\* cap of 40 is never reached and the share of 20 % always exceeded.
THEOREM MicroIsTen ==
    ASSUME NEW d \in Nat, d * MaxLiquidityPct < 2000
    PROVE  MicroSize(d) = 10
<1>1. DepthCap(d) \in Nat /\ DepthCap(d) < 20
  <2> DEFINE y == d * MaxLiquidityPct
  <2>1. y \in Nat /\ y < 2000
    BY PctAssumption, ProductMono
  <2> HIDE DEF y
  <2>2. y \div 100 \in Nat /\ y \div 100 < 20
    BY <2>1
  <2> QED BY <2>2 DEF DepthCap, y
<1> DEFINE n == Least(DepthCap(d), MicroMaxSize)
<1>2. n \in Nat /\ n < 20
  BY <1>1, SizeAssumption DEF Least
<1> HIDE DEF n
<1>3. n \div 10 <= 1 /\ n \div 10 \in Nat
  BY <1>2
<1>4. TenDown(n) <= 10 /\ TenDown(n) \in Nat
  BY <1>3 DEF TenDown
<1> QED BY <1>4 DEF MicroSize, Most, n

-----------------------------------------------------------------------------
\* What a screening leaves in the task

\* A rank computed from the size of the trade is a rank.
LEMMA SizeRankIn ==
    ASSUME NEW n \in Nat, n >= MinWhaleSize
    PROVE  SizeRank(n) \in Rank
<1> DEFINE x == (n - MinWhaleSize) * 10
           y == 3 * MinWhaleSize
           q == x \div y
<1>1. x \in Nat /\ y \in Nat /\ y > 0
  BY PriceAssumption
<1> HIDE DEF x, y
<1>2. q \in Nat
  BY <1>1
<1>3. SizeScore(n) = Least(85, 55 + q)
  BY DEF SizeScore, x, y
<1> HIDE DEF q
<1>4. SizeScore(n) \in 0 .. 100
  BY <1>2, <1>3 DEF Least
<1> QED BY <1>4 DEF SizeRank, Rank, Score

LEMMA RanksOfIn ==
    ASSUME NEW e \in Events, NEW r \in RanksOf(e), BigEnough(Converted(e))
    PROVE  r \in Rank
<1>1. e \in Event
  BY EventsAssumption
<1>2. e.size \in Nat /\ e.size >= MinWhaleSize
  BY <1>1 DEF Event, BigEnough, Converted
<1>3. SizeRank(e.size) \in Rank
  BY <1>2, SizeRankIn
<1>4. ASSUME NEW q \in Ranks PROVE q \in Rank /\ ScoreOnly(q) \in Rank
  <2>1. q \in Rank /\ 0 \in Score
    BY EventsAssumption DEF Score
  <2>2. [q EXCEPT !.roi = 0] \in Rank
    BY <2>1 DEF Rank
  <2>3. [[q EXCEPT !.roi = 0] EXCEPT !.consistency = 0] \in Rank
    BY <2>1, <2>2 DEF Rank
  <2> QED BY <2>1, <2>3 DEF ScoreOnly
<1> QED BY <1>3, <1>4 DEF RanksOf

\* How a task may leave its screening: with nothing to do, with a COPY signal
\* for the gates, or with a supplemental one for the paper trader.
GoodOffer(o) == o \in OfferType /\ o # NoOffer /\ SizeSound(o)
Leaves(t, to, o) ==
    /\ Screened(t, to, o)
    /\ \/ to = "done" /\ o = NoOffer
       \/ to = "cap" /\ GoodOffer(o) /\ o.strategy = "COPY"
       \/ to = "execute" /\ simulated /\ GoodOffer(o) /\ o.strategy # "COPY"

LEMMA CopyOffer ==
    ASSUME NEW m \in Markets, NEW b \in 0 .. MaxBank, NEW r \in Rank,
           NEW d \in Nat, CopySize(b, r, d) >= MinCopySize
    PROVE  GoodOffer(Offer(m, "COPY", CopySize(b, r, d), b, d))
<1> DEFINE n == CopySize(b, r, d)
<1>1. b \in Nat
  BY BankAssumption
<1>2. /\ n \in Nat /\ n % 10 = 0 /\ n >= MinCopySize
      /\ 100 * n <= 3 * b /\ 100 * n <= MaxLiquidityPct * d
  BY <1>1, CopySizeBounds
<1> HIDE DEF n
<1> DEFINE o == Offer(m, "COPY", n, b, d)
<1>3. n \in Nat \ {0} /\ b # 0
  BY <1>1, <1>2, SizeAssumption
<1>4. o \in OfferType
  BY <1>3 DEF OfferType, Offer, Strategies
<1>5. o.bank = b /\ NoOffer.bank = 0
  BY DEF Offer, NoOffer
<1>6. o # NoOffer
  BY <1>3, <1>5
<1>7. SizeSound(o)
  BY <1>2 DEF SizeSound, Offer
<1> QED BY <1>4, <1>6, <1>7 DEF GoodOffer, n

LEMMA MicroOffer ==
    ASSUME NEW m \in Markets, NEW b \in 0 .. MaxBank, NEW d \in Nat
    PROVE  GoodOffer(Offer(m, "MICRO", MicroSize(d), b, d))
<1> DEFINE n == MicroSize(d)
<1>1. n \in Nat \ {0} /\ n % 10 = 0 /\ n <= Most(MicroMaxSize, 10)
  BY DepthCapBounds, SupplementBounds, SizeAssumption DEF MicroSize
<1> HIDE DEF n
<1> DEFINE o == Offer(m, "MICRO", n, b, d)
<1>2. o \in OfferType
  BY <1>1 DEF OfferType, Offer, Strategies
<1>3. o.strategy = "MICRO" /\ NoOffer.strategy = "COPY"
  BY DEF Offer, NoOffer
<1>4. SizeSound(o)
  BY <1>1 DEF SizeSound, Offer
<1> QED BY <1>2, <1>3, <1>4 DEF GoodOffer, n

LEMMA NoFlipOffer ==
    ASSUME NEW m \in Markets, NEW b \in 0 .. MaxBank
    PROVE  GoodOffer(Offer(m, "NO_FLIP", NoFlipSize(b), b, 0))
<1> DEFINE n == NoFlipSize(b)
<1>0. b \div 200 \in Nat
  BY BankAssumption
<1>1. n \in Nat \ {0} /\ n % 10 = 0 /\ n <= Most(NoFlipMaxSize, 10)
  BY <1>0, SupplementBounds, SizeAssumption DEF NoFlipSize
<1> HIDE DEF n
<1> DEFINE o == Offer(m, "NO_FLIP", n, b, 0)
<1>2. o \in OfferType
  BY <1>1 DEF OfferType, Offer, Strategies
<1>3. o.strategy = "NO_FLIP" /\ NoOffer.strategy = "COPY"
  BY DEF Offer, NoOffer
<1>4. SizeSound(o)
  BY <1>1 DEF SizeSound, Offer
<1> QED BY <1>2, <1>3, <1>4 DEF GoodOffer, n

LEMMA BankReadIn ==
    ASSUME bankroll \in Bankrolls, NEW b \in BankRead
    PROVE  b \in 0 .. MaxBank
BY BankAssumption DEF BankRead

LEMMA ScreeningLeaves ==
    ASSUME bankroll \in Bankrolls, simulated \in BOOLEAN, NEW t \in Trades,
           Refuse(t) \/ Copy(t) \/ Micro(t) \/ NoFlip(t)
    PROVE  \E to, o : Leaves(t, to, o)
<1>1. CASE Refuse(t)
  BY <1>1 DEF Refuse, Leaves
<1>2. CASE Copy(t)
  <2>1. PICK e \in Events, d \in Depths, b \in BankRead :
          \E r \in RanksOf(e) :
            /\ Eligible(Converted(e), r)
            /\ CopySize(b, r, d) >= MinCopySize
            /\ Screened(t, "cap", Offer(e.market, "COPY", CopySize(b, r, d), b, d))
    BY <1>2 DEF Copy
  <2>2. PICK r \in RanksOf(e) :
            /\ Eligible(Converted(e), r)
            /\ CopySize(b, r, d) >= MinCopySize
            /\ Screened(t, "cap", Offer(e.market, "COPY", CopySize(b, r, d), b, d))
    BY <2>1
  <2>3. r \in Rank /\ b \in 0 .. MaxBank /\ d \in Nat /\ e.market \in Markets
    BY <2>2, RanksOfIn, BankReadIn, DepthAssumption, EventsAssumption
       DEF Eligible, Event
  <2> DEFINE o == Offer(e.market, "COPY", CopySize(b, r, d), b, d)
  <2>4. GoodOffer(o)
    BY <2>2, <2>3, CopyOffer
  <2>5. o.strategy = "COPY"
    BY DEF Offer
  <2> HIDE DEF o
  <2>6. Leaves(t, "cap", o)
    BY <2>2, <2>4, <2>5 DEF Leaves, o
  <2> QED BY <2>6
<1>3. CASE Micro(t)
  <2>1. PICK e \in Events, d \in Depths :
            Supplement(t, Offer(e.market, "MICRO", MicroSize(d), 0, d))
    BY <1>3 DEF Micro
  <2>2. 0 \in 0 .. MaxBank /\ d \in Nat /\ e.market \in Markets
    BY <2>1, BankAssumption, DepthAssumption, EventsAssumption DEF Event
  <2> DEFINE o == Offer(e.market, "MICRO", MicroSize(d), 0, d)
  <2>3. GoodOffer(o)
    BY <2>2, MicroOffer
  <2>4. o.strategy # "COPY"
    BY DEF Offer
  <2>5. simulated /\ Screened(t, "execute", o)
    BY <2>1 DEF Supplement
  <2> HIDE DEF o
  <2>6. Leaves(t, "execute", o)
    BY <2>3, <2>4, <2>5 DEF Leaves
  <2> QED BY <2>6
<1>4. CASE NoFlip(t)
  <2>1. PICK e \in Events, b \in BankRead :
            Supplement(t, Offer(e.market, "NO_FLIP", NoFlipSize(b), b, 0))
    BY <1>4 DEF NoFlip
  <2>2. b \in 0 .. MaxBank /\ e.market \in Markets
    BY <2>1, BankReadIn, EventsAssumption DEF Event
  <2> DEFINE o == Offer(e.market, "NO_FLIP", NoFlipSize(b), b, 0)
  <2>3. GoodOffer(o)
    BY <2>2, NoFlipOffer
  <2>4. o.strategy # "COPY"
    BY DEF Offer
  <2>5. simulated /\ Screened(t, "execute", o)
    BY <2>1 DEF Supplement
  <2> HIDE DEF o
  <2>6. Leaves(t, "execute", o)
    BY <2>3, <2>4, <2>5 DEF Leaves
  <2> QED BY <2>6
<1> QED BY <1>1, <1>2, <1>3, <1>4

-----------------------------------------------------------------------------
\* Types

\* A step of Next, with the four screenings as one.
LEMMA NextCases ==
    ASSUME bankroll \in Bankrolls, simulated \in BOOLEAN, [Next]_vars
    PROVE  \/ \E t \in Trades : \E to, o : Leaves(t, to, o)
           \/ \E t \in Trades : CapPasses(t) \/ CapRejects(t)
           \/ \E t \in Trades : BreakerPasses(t) \/ BreakerRejects(t)
           \/ \E t \in Trades : RelatedPasses(t) \/ RelatedRejects(t)
           \/ \E t \in Trades : Open(t) \/ Decline(t)
           \/ \E t \in Trades : Close(t)
           \/ BankrollMoves \/ SetBreaker \/ UNCHANGED vars
BY ScreeningLeaves DEF Next, Pipeline

LEMMA NoOfferFields ==
    /\ NoOffer.strategy = "COPY" /\ NoOffer.size = 10
    /\ NoOffer.bank = 0 /\ NoOffer.market = "none"
BY DEF NoOffer, Offer

LEMMA SlotOfIn ==
    ASSUME NEW t \in Trades, offer[t] \in OfferType
    PROVE  Pair(t) \in Pairs /\ SlotOf(t) \in Pairs \cup Trades
BY DEF OfferType, Pair, Pairs, SlotOf

LEMMA TypeInit == Init => SignalTypeOK
<1> SUFFICES ASSUME Init PROVE SignalTypeOK
  OBVIOUS
<1> QED BY DEF Init, SignalTypeOK, Book!Init, Book!NoSlot, PcValues, HazardKinds

LEMMA TypeStep == SignalTypeOK /\ [Next]_vars => SignalTypeOK'
<1> SUFFICES ASSUME SignalTypeOK, [Next]_vars
             PROVE  SignalTypeOK'
  OBVIOUS
<1> USE DEF SignalTypeOK
<1>1. CASE \E t \in Trades : \E to, o : Leaves(t, to, o)
  <2>0. PICK t \in Trades : \E to, o : Leaves(t, to, o)
    BY <1>1
  <2>1. PICK to, o : Leaves(t, to, o)
    BY <2>0
  <2>2. pc[t] = "idle" /\ status[t] = "ABSENT"
    BY <2>1 DEF Leaves, Screened, PcValues
  <2>3. o \in OfferType \cup {NoOffer} /\ to \in {"cap", "done", "execute"}
    BY <2>1 DEF Leaves, GoodOffer
  <2>4. pc' = [pc EXCEPT ![t] = to] /\ offer' = [offer EXCEPT ![t] = o]
    BY <2>1 DEF Leaves, Screened
  <2>5. /\ UNCHANGED <<simulated, status, slot, blind, bankroll, halted, crowd, hazard>>
        /\ stopped' \subseteq Trades
    BY <2>1 DEF Leaves, Screened, book
  <2>6. pc' \in [Trades -> PcValues] /\ offer' \in [Trades -> OfferType \cup {NoOffer}]
    BY <2>3, <2>4 DEF PcValues, Past
  <2>7. /\ to \in {"cap", "execute"} => o # NoOffer
        /\ to \in {"cap", "breaker", "related"} => o.strategy = "COPY"
        /\ to = "execute" => simulated
    BY <2>1 DEF Leaves, GoodOffer
  <2>8. ASSUME NEW u \in Trades
        PROVE  /\ pc'[u] \in PcValues \ {"idle", "done"} => offer'[u] # NoOffer
               /\ pc'[u] \in {"cap", "breaker", "related"} => IsCopy(u)'
               /\ status'[u] # "ABSENT" => offer'[u] # NoOffer /\ pc'[u] = "done"
               /\ ~simulated' /\ pc'[u] = "execute" => IsCopy(u)'
               /\ ~simulated' /\ status'[u] # "ABSENT" => IsCopy(u)'
    <3>1. CASE u = t
      BY <2>2, <2>3, <2>4, <2>5, <2>7, <3>1 DEF IsCopy
    <3>2. CASE u # t
      BY <2>4, <2>5, <3>2 DEF IsCopy
    <3> QED BY <3>1, <3>2
  <2> QED BY <2>5, <2>6, <2>8
<1>2. ASSUME NEW t \in Trades, CapPasses(t) \/ CapRejects(t)
      PROVE  SignalTypeOK'
  <2>1. crowd' \in [Markets -> Nat]
    <3>1. CASE CapPasses(t)
      <4>1. PastCap(offer[t].market) \subseteq Trades
        BY DEF PastCap
      <4>2. Cardinality(PastCap(offer[t].market)) \in Nat
        BY <4>1, TradesAssumption, FS_Subset, FS_CardinalityType
      <4>3. \A m \in Markets :
              Most(crowd[m], Cardinality(PastCap(offer[t].market)) + 1) \in Nat
        BY <4>2 DEF Most
      <4> QED BY <3>1, <4>3 DEF CapPasses
    <3>2. CASE CapRejects(t)
      BY <3>2 DEF CapRejects
    <3> QED BY <1>2, <3>1, <3>2
  <2>2. hazard' \subseteq HazardKinds
    BY <1>2 DEF CapPasses, CapRejects, Note, HazardKinds
  <2>3. PICK to \in {"breaker", "done"} : Advance(t, "cap", to)
    BY <1>2 DEF CapPasses, CapRejects
  <2> QED BY <2>1, <2>2, <2>3 DEF Advance, book, PcValues, Past, IsCopy
<1>3. ASSUME NEW t \in Trades, BreakerPasses(t) \/ BreakerRejects(t)
      PROVE  SignalTypeOK'
  <2>1. crowd' = crowd /\ hazard' \subseteq HazardKinds
    BY <1>3 DEF BreakerPasses, BreakerRejects, Note, HazardKinds
  <2>2. PICK to \in {"related", "done"} : Advance(t, "breaker", to)
    BY <1>3 DEF BreakerPasses, BreakerRejects
  <2> QED BY <2>1, <2>2 DEF Advance, book, PcValues, Past, IsCopy
<1>4. ASSUME NEW t \in Trades, RelatedPasses(t) \/ RelatedRejects(t)
      PROVE  SignalTypeOK'
  <2>1. crowd' = crowd /\ hazard' \subseteq HazardKinds
    BY <1>4 DEF RelatedPasses, RelatedRejects, Note, HazardKinds
  <2>2. PICK to \in {"execute", "done"} : Advance(t, "related", to)
    BY <1>4 DEF RelatedPasses, RelatedRejects
  <2> QED BY <2>1, <2>2 DEF Advance, book, PcValues, Past, IsCopy
<1>5. ASSUME NEW t \in Trades, Open(t) \/ Decline(t)
      PROVE  SignalTypeOK'
  <2>1. offer[t] \in OfferType /\ offer[t] # NoOffer
    BY <1>5 DEF Open, Decline, PcValues, Past
  <2>2. CASE Open(t)
    <3>1. /\ pc' = [pc EXCEPT ![t] = "done"]
          /\ status' = [status EXCEPT ![t] = "OPEN"]
          /\ slot' = [slot EXCEPT ![t] = SlotOf(t)]
          /\ blind' \subseteq Trades
          /\ UNCHANGED <<simulated, offer, bankroll, halted, crowd, stopped, hazard>>
      BY <2>2 DEF Open, Book!Open, Book!OpenBlind, Book!Enter, history
    <3>2. slot' \in [Trades -> Pairs \cup Trades \cup {<<>>}]
      BY <2>1, <3>1, SlotOfIn
    <3>4. ~simulated => IsCopy(t)
      BY <2>2 DEF Open
    <3> QED BY <2>1, <3>1, <3>2, <3>4 DEF PcValues, IsCopy
  <2>3. CASE Decline(t)
    BY <2>3 DEF Decline, book, history, PcValues, IsCopy
  <2> QED BY <1>5, <2>2, <2>3
<1>6. ASSUME NEW t \in Trades, Close(t)
      PROVE  SignalTypeOK'
  <2>1. /\ status[t] = "OPEN"
        /\ status' = [status EXCEPT ![t] = "CLOSED"]
        /\ UNCHANGED <<simulated, pc, offer, slot, blind, bankroll, halted, crowd,
                       stopped, hazard>>
    BY <1>6 DEF Close, Book!Close, history, task
  <2>2. offer[t] # NoOffer
    BY <2>1
  <2> QED BY <2>1, <2>2 DEF IsCopy
<1>7. CASE BankrollMoves
  BY <1>7 DEF BankrollMoves, task, book, history, IsCopy
<1>8. CASE SetBreaker
  BY <1>8 DEF SetBreaker, task, book, IsCopy
<1>9. CASE UNCHANGED vars
  BY <1>9 DEF vars, task, book, history, IsCopy
<1>10. bankroll \in Bankrolls /\ simulated \in BOOLEAN
  OBVIOUS
<1> HIDE DEF SignalTypeOK
<1> QED BY <1>1, <1>2, <1>3, <1>4, <1>5, <1>6, <1>7, <1>8, <1>9, <1>10, NextCases

\* SignalTypeOK holds for any trades, markets, settings and failures.
THEOREM SignalTypeCorrect == Spec => []SignalTypeOK
BY TypeInit, TypeStep, PTL DEF Spec

-----------------------------------------------------------------------------
\* Related markets and the breaker

\* Being related is mutual.
LEMMA RelatedMutual ==
    \A m, n : AreRelated(m, n) <=> AreRelated(n, m)
<1>1. \A m, n : {m, n} = {n, m}
  OBVIOUS
<1> QED BY <1>1 DEF AreRelated

LEMMA GateInit == Init => GateInv
BY DEF Init, GateInv, NotStacked, HaltStopsCopies, Apart, StillHalted,
       Screening, IsOpen, Book!Init

\* What every step does that takes a task from one gate to a later point, and
\* changes neither the positions nor the breaker.
LEMMA GateAdvance ==
    ASSUME SignalTypeOK, GateInv, NEW t \in Trades, NEW from, NEW to,
           Advance(t, from, to), from # "idle", to # "idle",
           hazard \subseteq hazard',
           to = "execute" =>
               /\ from = "related"
               /\ \/ RelatedOpen(t) = {}
                  \/ "relatedUnread" \in hazard'
               /\ \/ RelatedAhead(t) = {}
                  \/ "together" \in hazard',
           to = "related" =>
               /\ from = "breaker"
               /\ ~halted \/ "breakerUnread" \in hazard'
    PROVE  GateInv'
<1> USE DEF SignalTypeOK, GateInv
<1>1. /\ pc[t] = from /\ pc' = [pc EXCEPT ![t] = to]
      /\ UNCHANGED <<simulated, offer, status, slot, blind, bankroll, halted, stopped>>
  BY DEF Advance, book
<1>2. NotStacked'
  BY <1>1 DEF NotStacked, IsOpen, IsCopy
<1>3. HaltStopsCopies'
  <2> SUFFICES ASSUME "breakerUnread" \notin hazard', NEW u \in stopped', IsCopy(u)'
               PROVE  pc'[u] \notin {"related", "execute"} /\ ~IsOpen(u)'
    BY DEF HaltStopsCopies
  <2>1. /\ u \in stopped /\ u \in Trades /\ IsCopy(u)
        /\ "breakerUnread" \notin hazard
    BY <1>1 DEF IsCopy
  <2>2. pc[u] \notin {"related", "execute"} /\ ~IsOpen(u)
    BY <2>1 DEF HaltStopsCopies
  <2>3. ~IsOpen(u)'
    BY <1>1, <2>2 DEF IsOpen
  <2>4. halted
    BY <2>1 DEF StillHalted
  <2>5. CASE u = t
    BY <1>1, <2>2, <2>3, <2>4, <2>5
  <2>6. CASE u # t
    BY <1>1, <2>1, <2>2, <2>3, <2>6
  <2> QED BY <2>5, <2>6
<1>4. Apart'
  <2> SUFFICES ASSUME simulated',
                      hazard' \cap {"relatedUnread", "together"} = {},
                      NEW u \in Trades, NEW v \in Trades,
                      pc'[u] = "execute", IsCopy(u)',
                      IsCopy(v)', IsOpen(v)' \/ pc'[v] = "execute"
               PROVE  ~AreRelated(offer[u].market, offer[v].market)'
    BY DEF Apart
  <2>1. /\ simulated /\ IsCopy(u) /\ IsCopy(v)
        /\ hazard \cap {"relatedUnread", "together"} = {}
        /\ IsOpen(v)' => IsOpen(v)
    BY <1>1 DEF IsCopy, IsOpen
  <2>2. \A x \in Trades : x # t => pc'[x] = pc[x]
    BY <1>1
  <2>3. CASE u # t /\ v # t
    <3>1. pc[u] = "execute" /\ (IsOpen(v) \/ pc[v] = "execute")
      BY <2>1, <2>2, <2>3
    <3>2. ~AreRelated(offer[u].market, offer[v].market)
      BY <2>1, <3>1 DEF Apart
    <3> QED BY <1>1, <3>2
  <2>4. CASE u = t /\ v = t
    BY <2>4 DEF AreRelated
  <2>5. CASE u = t /\ v # t
    <3>1. to = "execute" /\ RelatedOpen(t) = {} /\ RelatedAhead(t) = {}
      BY <1>1, <2>5
    <3>2. IsOpen(v) \/ pc[v] = "execute"
      BY <2>1, <2>2, <2>5
    <3>3. ~AreRelated(offer[t].market, offer[v].market)
      BY <2>1, <3>1, <3>2 DEF RelatedOpen, RelatedAhead
    <3> QED BY <1>1, <2>5, <3>3
  <2>6. CASE u # t /\ v = t
    <3>1. pc[u] = "execute"
      BY <2>2, <2>6
    <3>2. CASE IsOpen(v)'
      <4>1. IsOpen(v)
        BY <2>1, <3>2
      <4>2. ~AreRelated(offer[u].market, offer[v].market)
        BY <2>1, <3>1, <4>1 DEF Apart
      <4> QED BY <1>1, <4>2
    <3>3. CASE pc'[v] = "execute"
      <4>1. to = "execute" /\ RelatedAhead(t) = {}
        BY <1>1, <2>6, <3>3
      <4>2. ~AreRelated(offer[t].market, offer[u].market)
        BY <2>1, <3>1, <4>1 DEF RelatedAhead
      <4>3. ~AreRelated(offer[u].market, offer[t].market)
        BY <4>2, RelatedMutual
      <4> QED BY <1>1, <2>6, <4>3
    <3> QED BY <3>2, <3>3
  <2> QED BY <2>3, <2>4, <2>5, <2>6
<1>5. StillHalted'
  BY <1>1 DEF StillHalted
<1>6. Screening'
  BY <1>1 DEF Screening
<1> HIDE DEF GateInv
<1> QED BY <1>2, <1>3, <1>4, <1>5, <1>6 DEF GateInv

LEMMA GateStep == SignalTypeOK /\ GateInv /\ [Next]_vars => GateInv'
<1> SUFFICES ASSUME SignalTypeOK, GateInv, [Next]_vars
             PROVE  GateInv'
  OBVIOUS
<1>1. ASSUME NEW t \in Trades, NEW to, NEW o, Leaves(t, to, o)
      PROVE  GateInv'
  <2>1. /\ pc[t] = "idle"
        /\ pc' = [pc EXCEPT ![t] = to] /\ offer' = [offer EXCEPT ![t] = o]
        /\ stopped' = IF halted THEN stopped \cup {t} ELSE stopped
        /\ UNCHANGED <<simulated, status, slot, blind, bankroll, halted, crowd, hazard>>
    BY <1>1 DEF Leaves, Screened, book
  <2>2. ~IsOpen(t) /\ pc'[t] = to /\ offer'[t] = o
    BY <2>1 DEF SignalTypeOK, IsOpen
  <2>3. /\ to # "idle" /\ to # "related"
        /\ to = "execute" => o.strategy # "COPY"
    BY <1>1 DEF Leaves
  <2>4. \A u \in Trades : /\ IsOpen(u)' <=> IsOpen(u)
                          /\ u # t => pc'[u] = pc[u] /\ offer'[u] = offer[u]
    BY <2>1 DEF SignalTypeOK, IsOpen
  <2>5. NotStacked'
    BY <2>1, <2>2, <2>4 DEF GateInv, NotStacked, IsCopy
  <2>6. HaltStopsCopies'
    BY <2>1, <2>2, <2>3, <2>4
       DEF GateInv, HaltStopsCopies, SignalTypeOK, IsCopy
  <2>7. Apart'
    BY <2>1, <2>2, <2>3, <2>4 DEF GateInv, Apart, IsCopy
  <2>8. StillHalted' /\ Screening'
    BY <2>1, <2>2, <2>3, <2>4
       DEF GateInv, StillHalted, Screening, SignalTypeOK
  <2> QED BY <2>5, <2>6, <2>7, <2>8 DEF GateInv
<1>2. ASSUME NEW t \in Trades, CapPasses(t) \/ CapRejects(t)
      PROVE  GateInv'
  <2>1. \E to \in {"breaker", "done"} : Advance(t, "cap", to)
    BY <1>2 DEF CapPasses, CapRejects
  <2>2. hazard \subseteq hazard'
    BY <1>2 DEF CapPasses, CapRejects, Note
  <2> QED BY <2>1, <2>2, GateAdvance
<1>3. ASSUME NEW t \in Trades, BreakerPasses(t) \/ BreakerRejects(t)
      PROVE  GateInv'
  <2>1. CASE BreakerPasses(t)
    <3>1. /\ Advance(t, "breaker", "related") /\ hazard \subseteq hazard'
          /\ ~halted \/ "breakerUnread" \in hazard'
      BY <2>1 DEF BreakerPasses, Note
    <3> QED BY <3>1, GateAdvance
  <2>2. CASE BreakerRejects(t)
    BY <2>2, GateAdvance DEF BreakerRejects
  <2> QED BY <1>3, <2>1, <2>2
<1>4. ASSUME NEW t \in Trades, RelatedPasses(t) \/ RelatedRejects(t)
      PROVE  GateInv'
  <2>1. CASE RelatedPasses(t)
    <3>1. Advance(t, "related", "execute")
      BY <2>1 DEF RelatedPasses
    <3>2. /\ hazard \subseteq hazard'
          /\ RelatedOpen(t) = {} \/ "relatedUnread" \in hazard'
          /\ RelatedAhead(t) = {} \/ "together" \in hazard'
      BY <2>1 DEF RelatedPasses, Note
    <3> QED BY <3>1, <3>2, GateAdvance
  <2>2. CASE RelatedRejects(t)
    BY <2>2, GateAdvance DEF RelatedRejects
  <2> QED BY <1>4, <2>1, <2>2
<1>5. ASSUME NEW t \in Trades, Open(t) \/ Decline(t)
      PROVE  GateInv'
  <2>1. /\ pc[t] = "execute" /\ pc' = [pc EXCEPT ![t] = "done"]
        /\ UNCHANGED <<simulated, offer, bankroll, halted, crowd, stopped, hazard>>
        /\ \A u \in Trades : u # t => (IsOpen(u)' <=> IsOpen(u))
        /\ Decline(t) => (IsOpen(t)' <=> IsOpen(t))
    BY <1>5 DEF Open, Decline, Book!Open, Book!OpenBlind, Book!Enter, book, history,
              SignalTypeOK, IsOpen
  <2>2. \A u \in Trades : pc'[u] = IF u = t THEN "done" ELSE pc[u]
    BY <2>1 DEF SignalTypeOK
  <2>3. NotStacked'
    <3> SUFFICES ASSUME simulated',
                        hazard' \cap {"relatedUnread", "together"} = {},
                        NEW u \in Trades, NEW v \in Trades,
                        IsOpen(u)', IsOpen(v)', IsCopy(u)', IsCopy(v)'
                 PROVE  ~AreRelated(offer[u].market, offer[v].market)'
      BY DEF NotStacked
    <3>1. /\ simulated /\ hazard \cap {"relatedUnread", "together"} = {}
          /\ IsCopy(u) /\ IsCopy(v)
      BY <2>1 DEF IsCopy
    <3>2. CASE u # t /\ v # t
      BY <2>1, <3>1, <3>2 DEF GateInv, NotStacked
    <3>3. CASE u = t /\ v # t
      BY <2>1, <3>1, <3>3 DEF GateInv, Apart
    <3>4. CASE u # t /\ v = t
      <4>1. ~AreRelated(offer[v].market, offer[u].market)
        BY <2>1, <3>1, <3>4 DEF GateInv, Apart
      <4> QED BY <2>1, <4>1, RelatedMutual
    <3>5. CASE u = t /\ v = t
      BY <3>5 DEF AreRelated
    <3> QED BY <3>2, <3>3, <3>4, <3>5
  <2>4. HaltStopsCopies'
    BY <2>1, <2>2 DEF GateInv, HaltStopsCopies, SignalTypeOK, IsCopy
  <2>5. Apart'
    <3> SUFFICES ASSUME simulated',
                        hazard' \cap {"relatedUnread", "together"} = {},
                        NEW u \in Trades, NEW v \in Trades,
                        pc'[u] = "execute", IsCopy(u)',
                        IsCopy(v)', IsOpen(v)' \/ pc'[v] = "execute"
                 PROVE  ~AreRelated(offer[u].market, offer[v].market)'
      BY DEF Apart
    <3>1. /\ simulated /\ hazard \cap {"relatedUnread", "together"} = {}
          /\ IsCopy(u) /\ IsCopy(v)
      BY <2>1 DEF IsCopy
    <3>2. pc[u] = "execute" /\ (IsOpen(v) \/ pc[v] = "execute")
      BY <2>1, <2>2
    <3>3. ~AreRelated(offer[u].market, offer[v].market)
      BY <3>1, <3>2 DEF GateInv, Apart
    <3> QED BY <2>1, <3>3
  <2>6. StillHalted' /\ Screening'
    BY <2>1, <2>2 DEF GateInv, StillHalted, Screening, SignalTypeOK
  <2> QED BY <2>3, <2>4, <2>5, <2>6 DEF GateInv
<1>6. ASSUME NEW t \in Trades, Close(t)
      PROVE  GateInv'
  <2>1. /\ UNCHANGED <<simulated, pc, offer, bankroll, halted, crowd, stopped, hazard>>
        /\ \A u \in Trades : IsOpen(u)' => IsOpen(u)
    BY <1>6 DEF Close, Book!Close, history, task, SignalTypeOK, IsOpen
  <2>2. NotStacked' /\ HaltStopsCopies'
    BY <2>1 DEF GateInv, NotStacked, HaltStopsCopies, SignalTypeOK, IsCopy
  <2>3. Apart' /\ StillHalted' /\ Screening'
    BY <2>1 DEF GateInv, Apart, StillHalted, Screening, SignalTypeOK, IsCopy
  <2> QED BY <2>2, <2>3 DEF GateInv
<1>7. CASE BankrollMoves
  BY <1>7 DEF BankrollMoves, task, book, history, GateInv, NotStacked, IsOpen,
              HaltStopsCopies, Apart, StillHalted, Screening, IsCopy
<1>8. CASE SetBreaker
  <2>1. /\ UNCHANGED <<simulated, pc, offer, status, hazard>>
        /\ halted' = ~halted /\ stopped' = {}
    BY <1>8 DEF SetBreaker, task, book, GateInv, StillHalted
  <2> QED BY <2>1 DEF GateInv, NotStacked, IsOpen, HaltStopsCopies, Apart,
                      StillHalted, Screening, IsCopy
<1>9. CASE UNCHANGED vars
  BY <1>9 DEF vars, task, book, history, GateInv, NotStacked, IsOpen,
              HaltStopsCopies, Apart, StillHalted, Screening, IsCopy
<1>10. bankroll \in Bankrolls /\ simulated \in BOOLEAN
  BY DEF SignalTypeOK
<1> QED BY <1>1, <1>2, <1>3, <1>4, <1>5, <1>6, <1>7, <1>8, <1>9, <1>10, NextCases

\* No two related markets hold COPY positions unless a read failed or two
\* pipelines passed the gate together, and a trade that arrives under a halt is
\* not copied, for any trades, markets and settings.
THEOREM GatesHold == Spec => []GateInv
<1>1. Init => SignalTypeOK /\ GateInv
  BY TypeInit, GateInit
<1>2. (SignalTypeOK /\ GateInv) /\ [Next]_vars => (SignalTypeOK /\ GateInv)'
  BY TypeStep, GateStep
<1> QED BY <1>1, <1>2, PTL DEF Spec

-----------------------------------------------------------------------------
\* Exposure of a market

\* Some of the trades are finitely many.
LEMMA SomeTrades ==
    ASSUME NEW S \in SUBSET Trades
    PROVE  IsFiniteSet(S) /\ Cardinality(S) \in Nat
BY TradesAssumption, FS_Subset, FS_CardinalityType

LEMMA FewerTrades ==
    ASSUME NEW S \in SUBSET Trades, NEW T \in SUBSET Trades, S \subseteq T
    PROVE  Cardinality(S) <= Cardinality(T)
BY SomeTrades, FS_Subset

LEMMA OneMoreTrade ==
    ASSUME NEW S \in SUBSET Trades, NEW t \in Trades, t \notin S
    PROVE  Cardinality(S \cup {t}) = Cardinality(S) + 1
BY SomeTrades, FS_AddElement

\* The reserve of k pipelines grows with k, by 3 % of MaxBank each.
LEMMA ReserveGrows ==
    ASSUME NEW j \in Nat, NEW k \in Nat, j <= k
    PROVE  /\ j * 3 * MaxBank \in Nat /\ j * 3 * MaxBank <= k * 3 * MaxBank
           /\ (j + 1) * 3 * MaxBank = j * 3 * MaxBank + 3 * MaxBank
<1>1. 3 * MaxBank \in Nat /\ MaxBank \in Nat
  BY BankAssumption
<1>2. (3 * MaxBank) * j \in Nat /\ (3 * MaxBank) * j <= (3 * MaxBank) * k
  BY <1>1, ProductMono
<1>3. /\ j * 3 * MaxBank = (3 * MaxBank) * j
      /\ k * 3 * MaxBank = (3 * MaxBank) * k
  BY <1>1
<1>4. (j + 1) * 3 * MaxBank = j * 3 * MaxBank + 3 * MaxBank
  BY <1>1
<1> QED BY <1>2, <1>3, <1>4

LEMMA PastCapIn == \A m : PastCap(m) \in SUBSET Trades
BY DEF PastCap

\* What is open is finitely many positions of natural sizes.
LEMMA SizesNat ==
    ASSUME SignalTypeOK, NEW S \in SUBSET Trades
    PROVE  /\ IsFiniteSet(S) /\ \A t \in S : Sizes[t] = offer[t].size
           /\ \A t \in S : Sizes[t] \in Nat
<1>1. IsFiniteSet(S)
  BY SomeTrades
<1>2. \A t \in Trades : Sizes[t] = offer[t].size
  BY DEF Sizes
<1>3. \A t \in Trades : offer[t].size \in Nat
  BY NoOfferFields DEF SignalTypeOK, OfferType
<1> QED BY <1>1, <1>2, <1>3

LEMMA ExposureNat ==
    ASSUME SignalTypeOK, NEW m \in Markets
    PROVE  Exposure(m) \in Nat
<1>1. Holding(m) \in SUBSET Trades
  BY DEF Holding
<1> HIDE DEF Holding
<1>2. IsFiniteSet(Holding(m)) /\ \A t \in Holding(m) : Sizes[t] \in Nat
  BY <1>1, SizesNat
<1> QED BY <1>2, SumType DEF Exposure

\* The exposure of a market depends on the offers of its open positions only.
LEMMA ExposureStays ==
    ASSUME SignalTypeOK, NEW m \in Markets, status' = status,
           \A u \in Trades : IsOpen(u) => offer'[u] = offer[u]
    PROVE  Exposure(m)' = Exposure(m)
<1>1. Holding(m)' = Holding(m) /\ Holding(m) \subseteq Trades
  BY DEF Holding, IsOpen
<1>2. \A t \in Holding(m) : Sizes'[t] = Sizes[t]
  BY DEF Sizes, Holding
<1> HIDE DEF Holding, Sizes
<1>3. SumOf(Sizes', Holding(m)) = SumOf(Sizes, Holding(m))
  BY <1>2, SumSame
<1> QED BY <1>1, <1>3 DEF Exposure

\* A position that opens adds its size to its market.
LEMMA ExposureRises ==
    ASSUME SignalTypeOK, NEW t \in Trades, ~IsOpen(t), offer' = offer,
           \A u \in Trades : IsOpen(u)' <=> (u = t \/ IsOpen(u)),
           NEW m \in Markets
    PROVE  Exposure(m)' = IF m = offer[t].market THEN Exposure(m) + offer[t].size
                                                 ELSE Exposure(m)
<1>1. /\ Holding(m)' = IF m = offer[t].market THEN Holding(m) \cup {t} ELSE Holding(m)
      /\ Holding(m) \in SUBSET Trades /\ t \notin Holding(m)
  BY DEF Holding
<1>2. Sizes' = Sizes
  BY DEF Sizes
<1> HIDE DEF Holding, Sizes
<1>3. /\ IsFiniteSet(Holding(m)) /\ Sizes[t] = offer[t].size
      /\ \A u \in Holding(m) \cup {t} : Sizes[u] \in Nat
  BY <1>1, SizesNat
<1>4. SumOf(Sizes, Holding(m) \cup {t}) = SumOf(Sizes, Holding(m)) + Sizes[t]
  BY <1>1, <1>3, SumAdd
<1> QED BY <1>1, <1>2, <1>3, <1>4 DEF Exposure

\* One that closes takes it away.
LEMMA ExposureFalls ==
    ASSUME SignalTypeOK, NEW t \in Trades, offer' = offer,
           \A u \in Trades : IsOpen(u)' => IsOpen(u),
           NEW m \in Markets
    PROVE  Exposure(m)' <= Exposure(m)
<1>1. Holding(m)' \subseteq Holding(m) /\ Holding(m) \in SUBSET Trades
  BY DEF Holding
<1>2. Sizes' = Sizes
  BY DEF Sizes
<1> HIDE DEF Holding, Sizes
<1>3. IsFiniteSet(Holding(m)) /\ \A u \in Holding(m) : Sizes[u] \in Nat
  BY <1>1, SizesNat
<1>4. PICK R \in SUBSET Holding(m) : R = Holding(m)'
  BY <1>1
<1>5. SumOf(Sizes, R) <= SumOf(Sizes, Holding(m))
  BY <1>3, SumPart
<1> QED BY <1>2, <1>4, <1>5 DEF Exposure

LEMMA LimitNat ==
    ASSUME SignalTypeOK, NEW m \in Markets
    PROVE  /\ MaxExposurePct * MaxBank \in Nat
           /\ crowd[m] \in Nat /\ crowd[m] * 3 * MaxBank \in Nat
<1>1. MaxExposurePct \in Nat /\ MaxBank \in Nat /\ crowd[m] \in Nat
  BY PctAssumption, BankAssumption DEF SignalTypeOK
<1>2. MaxExposurePct * MaxBank \in Nat
  BY <1>1, ProductMono
<1>3. crowd[m] * 3 * MaxBank \in Nat
  BY <1>1, ReserveGrows
<1> QED BY <1>1, <1>2, <1>3

\* The inductive part: the sizes, the reserve, the slots.
CapsInv == SizesSound /\ LiveReserve /\ SlotKnown /\ SlotRecorded

LEMMA SizesLive ==
    ASSUME SignalTypeOK, SizesSound, NEW t \in Trades, offer[t] # NoOffer
    PROVE  /\ offer[t] \in OfferType
           /\ offer[t].size \in Nat /\ offer[t].size > 0
           /\ offer[t].market \in Markets
           /\ IsCopy(t) => 100 * offer[t].size <= 3 * MaxBank
<1>1. offer[t] \in OfferType
  BY DEF SignalTypeOK
<1>2. /\ offer[t].size \in Nat /\ offer[t].size > 0
      /\ offer[t].market \in Markets /\ offer[t].bank \in 0 .. MaxBank
  BY <1>1 DEF OfferType
<1>3. IsCopy(t) => 100 * offer[t].size <= 3 * offer[t].bank
  BY DEF SizesSound, SizeSound, IsCopy
<1>4. MaxBank \in Nat
  BY BankAssumption
<1> QED BY <1>1, <1>2, <1>3, <1>4

\* Steps that only move tasks forward keep the inductive part, if they reserve
\* nothing new in live mode.
LEMMA CapsQuiet ==
    ASSUME SignalTypeOK, CapsInv,
           UNCHANGED <<simulated, status, slot, blind, crowd>>,
           hazard \subseteq hazard',
           \A u \in Trades : IsOpen(u) => offer'[u] = offer[u],
           SizesSound',
           ~simulated => \A m \in Markets : PastCap(m)' \subseteq PastCap(m)
    PROVE  CapsInv'
<1>1. LiveReserve'
  <2> SUFFICES ASSUME ~simulated, "exposureUnread" \notin hazard, NEW m \in Markets
               PROVE  100 * Exposure(m)' + Reserved(m)'
                        < MaxExposurePct * MaxBank + crowd[m] * 3 * MaxBank
    BY DEF LiveReserve
  <2>1. 100 * Exposure(m) + Reserved(m)
            < MaxExposurePct * MaxBank + crowd[m] * 3 * MaxBank
    BY DEF CapsInv, LiveReserve
  <2>2. Exposure(m)' = Exposure(m) /\ Exposure(m) \in Nat
    BY ExposureStays, ExposureNat
  <2>3. PastCap(m) \in SUBSET Trades /\ PastCap(m)' \in SUBSET Trades
    BY DEF PastCap
  <2> DEFINE j == Cardinality(PastCap(m)')
             k == Cardinality(PastCap(m))
  <2>4. j \in Nat /\ k \in Nat /\ j <= k
    BY <2>3, SomeTrades, FewerTrades
  <2>5. Reserved(m)' = j * 3 * MaxBank /\ Reserved(m) = k * 3 * MaxBank
    BY DEF Reserved
  <2> HIDE DEF j, k
  <2>6. Reserved(m)' \in Nat /\ Reserved(m) \in Nat /\ Reserved(m)' <= Reserved(m)
    BY <2>4, <2>5, ReserveGrows
  <2>7. /\ MaxExposurePct * MaxBank \in Nat /\ crowd[m] \in Nat
        /\ crowd[m] * 3 * MaxBank \in Nat
    BY LimitNat
  <2> QED BY <2>1, <2>2, <2>6, <2>7
<1>2. \A u \in Trades : /\ IsOpen(u)' <=> IsOpen(u)
                        /\ IsOpen(u) => Pair(u)' = Pair(u) /\ SlotOf(u)' = SlotOf(u)
  BY DEF IsOpen, Pair, SlotOf
<1>3. SlotKnown'
  BY <1>2 DEF CapsInv, SlotKnown
<1>4. SlotRecorded'
  BY <1>2 DEF CapsInv, SlotRecorded
<1> QED BY <1>1, <1>3, <1>4 DEF CapsInv

LEMMA CapsInit == Init => CapsInv
<1> SUFFICES ASSUME Init PROVE CapsInv
  OBVIOUS
<1>1. SizesSound /\ SlotKnown /\ SlotRecorded
  BY DEF Init, SizesSound, SlotKnown, SlotRecorded, IsOpen, Book!Init
<1>2. ASSUME NEW m \in Markets
      PROVE  100 * Exposure(m) + Reserved(m)
                < MaxExposurePct * MaxBank + crowd[m] * 3 * MaxBank
  <2>1. Exposure(m) = 0
    <3>1. Holding(m) = {}
      BY DEF Init, Holding, IsOpen, Book!Init
    <3> QED BY <3>1, SumEmpty DEF Exposure
  <2>2. PastCap(m) = {}
    BY DEF PastCap, Past, Init
  <2>3. Reserved(m) = 0 * 3 * MaxBank
    BY <2>2, FS_EmptySet DEF Reserved
  <2>4. MaxBank \in Nat /\ MaxBank > 0 /\ MaxExposurePct \in Nat /\ 1 <= MaxExposurePct
    BY PctAssumption, BankAssumption
  <2>5. MaxBank * MaxExposurePct \in Nat /\ MaxBank * 1 <= MaxBank * MaxExposurePct
    BY <2>4, ProductMono
  <2>6. crowd[m] * 3 * MaxBank = 0
    BY <2>4 DEF Init
  <2>7. MaxExposurePct * MaxBank = MaxBank * MaxExposurePct
    BY <2>4
  <2> QED BY <2>1, <2>3, <2>4, <2>5, <2>6, <2>7
<1> QED BY <1>1, <1>2 DEF CapsInv, LiveReserve

\* The gate lets a pipeline pass only below the cap, so its 3 % can be reserved.
LEMMA CapsPass ==
    ASSUME SignalTypeOK, CapsInv, NEW t \in Trades, CapPasses(t)
    PROVE  CapsInv'
<1>1. /\ pc[t] = "cap" /\ pc' = [pc EXCEPT ![t] = "breaker"]
      /\ UNCHANGED <<simulated, offer, status, slot, blind, bankroll, halted, stopped>>
      /\ IsCopy(t) /\ offer[t] # NoOffer
  BY DEF CapPasses, Advance, book, SignalTypeOK, PcValues, Past
<1>2. /\ offer[t] \in OfferType /\ offer[t].market \in Markets
      /\ offer[t].bank \in 0 .. MaxBank
  BY <1>1 DEF SignalTypeOK, OfferType
<1>n. PICK n \in Markets : n = offer[t].market
  BY <1>2
<1>3. crowd' = [crowd EXCEPT ![n] = Most(@, Cardinality(PastCap(n)) + 1)]
  BY <1>n DEF CapPasses
<1>4. hazard \subseteq hazard'
  BY DEF CapPasses, Note
<1>5. ASSUME "exposureUnread" \notin hazard'
      PROVE  100 * Exposure(n) < MaxExposurePct * offer[t].bank
  BY <1>5, <1>n DEF CapPasses, Note, UnderCap
<1>6. \A m \in Markets : Exposure(m)' = Exposure(m) /\ Exposure(m) \in Nat
  BY <1>1, ExposureStays, ExposureNat
<1>7. /\ PastCap(n)' = PastCap(n) \cup {t} /\ t \notin PastCap(n)
      /\ \A m \in Markets : m # n => PastCap(m)' = PastCap(m)
  BY <1>1, <1>n DEF PastCap, Past, IsCopy, SignalTypeOK
<1>8. LiveReserve'
  <2> SUFFICES ASSUME ~simulated, "exposureUnread" \notin hazard', NEW m \in Markets
               PROVE  100 * Exposure(m)' + Reserved(m)'
                        < MaxExposurePct * MaxBank + crowd'[m] * 3 * MaxBank
    BY <1>1 DEF LiveReserve
  <2>1. CASE m # n
    <3>1. crowd'[m] = crowd[m] /\ Reserved(m)' = Reserved(m)
      BY <1>3, <1>7, <2>1 DEF SignalTypeOK, Reserved
    <3>2. 100 * Exposure(m) + Reserved(m)
            < MaxExposurePct * MaxBank + crowd[m] * 3 * MaxBank
      BY <1>4 DEF CapsInv, LiveReserve
    <3> QED BY <1>6, <3>1, <3>2
  <2>2. CASE m = n
    <3> DEFINE k == Cardinality(PastCap(n)) + 1
               lim == MaxExposurePct * MaxBank
               mine == MaxExposurePct * offer[t].bank
    <3>1. k \in Nat /\ Cardinality(PastCap(n)') = k
      BY <1>7, PastCapIn, SomeTrades, OneMoreTrade
    <3>2. Reserved(m)' = k * 3 * MaxBank
      BY <2>2, <3>1 DEF Reserved
    <3> HIDE DEF k
    <3>3. crowd'[n] = Most(crowd[n], k) /\ crowd[n] \in Nat
      BY <1>2, <1>3 DEF SignalTypeOK, k
    <3>4. k <= crowd'[n] /\ crowd'[n] \in Nat
      BY <3>1, <3>3 DEF Most
    <3>5. /\ k * 3 * MaxBank \in Nat
          /\ k * 3 * MaxBank <= crowd'[n] * 3 * MaxBank
          /\ crowd'[n] * 3 * MaxBank \in Nat
      BY <3>1, <3>4, ReserveGrows
    <3>6. /\ MaxExposurePct \in Nat /\ MaxBank \in Nat
          /\ offer[t].bank \in Nat /\ offer[t].bank <= MaxBank
      BY <1>2, PctAssumption, BankAssumption
    <3>7. mine \in Nat /\ mine <= lim /\ lim \in Nat
      BY <3>6, ProductMono
    <3>8. 100 * Exposure(m) < mine
      BY <1>5, <2>2
    <3> HIDE DEF mine, lim
    <3>9. 100 * Exposure(m)' + Reserved(m)' < lim + crowd'[n] * 3 * MaxBank
      BY <1>6, <3>2, <3>5, <3>7, <3>8
    <3> QED BY <2>2, <3>9 DEF lim
  <2> QED BY <2>1, <2>2
<1>9. SizesSound' /\ SlotKnown' /\ SlotRecorded'
  BY <1>1 DEF CapsInv, SizesSound, SlotKnown, SlotRecorded, IsOpen, Pair, SlotOf
<1> QED BY <1>8, <1>9 DEF CapsInv

\* The position comes out of its pipeline's reserve, and into a slot nobody had,
\* unless its lookup failed.
LEMMA CapsOpen ==
    ASSUME SignalTypeOK, CapsInv, NEW t \in Trades, Open(t)
    PROVE  CapsInv'
<1>1. /\ pc[t] = "execute" /\ pc' = [pc EXCEPT ![t] = "done"]
      /\ status[t] = "ABSENT" /\ status' = [status EXCEPT ![t] = "OPEN"]
      /\ slot' = [slot EXCEPT ![t] = SlotOf(t)]
      /\ blind \subseteq blind'
      /\ (\A u \in Trades : IsOpen(u) => slot[u] # SlotOf(t)) \/ t \in blind'
      /\ UNCHANGED <<simulated, offer, bankroll, halted, crowd, stopped, hazard>>
  BY DEF Open, Book!Open, Book!OpenBlind, Book!Enter, history, IsOpen
<1>2. offer[t] # NoOffer /\ (~simulated => IsCopy(t))
  BY <1>1 DEF SignalTypeOK, PcValues, Past
<1>3. /\ offer[t] \in OfferType /\ offer[t].size \in Nat /\ offer[t].size > 0
      /\ offer[t].market \in Markets
      /\ IsCopy(t) => 100 * offer[t].size <= 3 * MaxBank
  BY <1>2, SizesLive DEF CapsInv
<1>4. \A u \in Trades : IsOpen(u)' <=> (u = t \/ IsOpen(u))
  BY <1>1 DEF SignalTypeOK, IsOpen
<1>5. LiveReserve'
  <2> SUFFICES ASSUME ~simulated, "exposureUnread" \notin hazard, NEW m \in Markets
               PROVE  100 * Exposure(m)' + Reserved(m)'
                        < MaxExposurePct * MaxBank + crowd[m] * 3 * MaxBank
    BY <1>1 DEF LiveReserve
  <2>1. 100 * Exposure(m) + Reserved(m)
            < MaxExposurePct * MaxBank + crowd[m] * 3 * MaxBank
    BY DEF CapsInv, LiveReserve
  <2>2. /\ Exposure(m) \in Nat
        /\ Exposure(m)' = IF m = offer[t].market THEN Exposure(m) + offer[t].size
                                                 ELSE Exposure(m)
    BY <1>1, <1>4, ExposureNat, ExposureRises DEF IsOpen
  <2>3. /\ m = offer[t].market => t \in PastCap(m)
        /\ PastCap(m)' = PastCap(m) \ {t}
    BY <1>1, <1>2 DEF PastCap, Past, IsCopy, SignalTypeOK
  <2> DEFINE j == Cardinality(PastCap(m)')
             k == Cardinality(PastCap(m))
  <2>4. PastCap(m) \in SUBSET Trades /\ PastCap(m)' \in SUBSET Trades
    BY DEF PastCap
  <2>5. j \in Nat /\ k \in Nat /\ j <= k
    BY <2>3, <2>4, SomeTrades, FewerTrades
  <2>6. m = offer[t].market => k = j + 1
    <3> HAVE m = offer[t].market
    <3>1. PastCap(m) = PastCap(m)' \cup {t} /\ t \notin PastCap(m)'
      BY <2>3
    <3> QED BY <2>4, <3>1, OneMoreTrade
  <2>7. Reserved(m)' = j * 3 * MaxBank /\ Reserved(m) = k * 3 * MaxBank
    BY DEF Reserved
  <2> HIDE DEF j, k
  <2>8. /\ Reserved(m)' \in Nat /\ Reserved(m) \in Nat
        /\ Reserved(m)' <= Reserved(m)
        /\ m = offer[t].market => Reserved(m) = Reserved(m)' + 3 * MaxBank
    BY <2>5, <2>6, <2>7, ReserveGrows
  <2>9. /\ MaxExposurePct * MaxBank \in Nat
        /\ crowd[m] * 3 * MaxBank \in Nat /\ MaxBank \in Nat
    BY LimitNat, BankAssumption
  <2> QED BY <1>2, <1>3, <2>1, <2>2, <2>8, <2>9
<1>6. SlotKnown'
  <2> SUFFICES ASSUME simulated, NEW u \in Trades, NEW v \in Trades, u # v,
                      IsOpen(u)', IsOpen(v)', Pair(u)' = Pair(v)'
               PROVE  u \in blind' \/ v \in blind'
    BY <1>1 DEF SlotKnown
  <2>1. Pair(u) = Pair(v)
    BY <1>1 DEF Pair
  <2>2. CASE u # t /\ v # t
    BY <1>1, <1>4, <2>1, <2>2 DEF CapsInv, SlotKnown
  <2>3. ASSUME NEW w \in {u, v}, w # t, IsOpen(w), Pair(w) = Pair(t) PROVE t \in blind'
    <3>1. slot[w] = SlotOf(w) /\ SlotOf(w) = SlotOf(t)
      BY <2>3 DEF CapsInv, SlotRecorded, SlotOf
    <3> QED BY <1>1, <2>3, <3>1
  <2> QED BY <1>4, <2>1, <2>2, <2>3
<1>7. SlotRecorded'
  BY <1>1, <1>4 DEF CapsInv, SlotRecorded, SlotOf, Pair, SignalTypeOK
<1>8. SizesSound'
  BY <1>1 DEF CapsInv, SizesSound
<1> QED BY <1>5, <1>6, <1>7, <1>8 DEF CapsInv

LEMMA CapsClose ==
    ASSUME SignalTypeOK, CapsInv, NEW t \in Trades, Close(t)
    PROVE  CapsInv'
<1>1. /\ status[t] = "OPEN" /\ status' = [status EXCEPT ![t] = "CLOSED"]
      /\ UNCHANGED <<simulated, pc, offer, slot, blind, bankroll, halted, crowd,
                     stopped, hazard>>
  BY DEF Close, Book!Close, history, task
<1>2. offer[t] # NoOffer
  BY <1>1 DEF SignalTypeOK
<1>3. /\ offer[t] \in OfferType /\ offer[t].size \in Nat /\ offer[t].size > 0
      /\ offer[t].market \in Markets
  BY <1>2, SizesLive DEF CapsInv
<1>4. \A u \in Trades : IsOpen(u)' <=> (u # t /\ IsOpen(u))
  BY <1>1 DEF SignalTypeOK, IsOpen
<1>5. LiveReserve'
  <2> SUFFICES ASSUME ~simulated, "exposureUnread" \notin hazard, NEW m \in Markets
               PROVE  100 * Exposure(m)' + Reserved(m)'
                        < MaxExposurePct * MaxBank + crowd[m] * 3 * MaxBank
    BY <1>1 DEF LiveReserve
  <2>1. 100 * Exposure(m) + Reserved(m)
            < MaxExposurePct * MaxBank + crowd[m] * 3 * MaxBank
    BY DEF CapsInv, LiveReserve
  <2>4. /\ Exposure(m) \in Nat /\ Exposure(m)' \in Nat
        /\ Exposure(m)' <= Exposure(m)
    <3>1. Exposure(m) \in Nat /\ Exposure(m)' <= Exposure(m)
      BY <1>1, <1>4, ExposureNat, ExposureFalls
    <3>2. (SignalTypeOK => Exposure(m) \in Nat)'
      BY ExposureNat, PTL
    <3>3. SignalTypeOK'
      BY TypeStep DEF Next
    <3> QED BY <3>1, <3>2, <3>3
  <2>5. PastCap(m)' = PastCap(m)
    BY <1>1 DEF PastCap, IsCopy
  <2>6. Reserved(m)' = Reserved(m) /\ Reserved(m) \in Nat
    <3>1. Cardinality(PastCap(m)) \in Nat
      BY PastCapIn, SomeTrades
    <3> QED BY <2>5, <3>1, ReserveGrows DEF Reserved
  <2>7. /\ MaxExposurePct * MaxBank \in Nat
        /\ crowd[m] * 3 * MaxBank \in Nat
    BY LimitNat
  <2> QED BY <2>1, <2>4, <2>6, <2>7
<1>6. SlotKnown'
  BY <1>1, <1>4 DEF CapsInv, SlotKnown, Pair
<1>7. SlotRecorded'
  BY <1>1, <1>4 DEF CapsInv, SlotRecorded, SlotOf, Pair
<1>8. SizesSound'
  BY <1>1 DEF CapsInv, SizesSound
<1> QED BY <1>5, <1>6, <1>7, <1>8 DEF CapsInv

LEMMA CapsStep == SignalTypeOK /\ CapsInv /\ [Next]_vars => CapsInv'
<1> SUFFICES ASSUME SignalTypeOK, CapsInv, [Next]_vars
             PROVE  CapsInv'
  OBVIOUS
<1>1. ASSUME NEW t \in Trades, NEW to, NEW o, Leaves(t, to, o)
      PROVE  CapsInv'
  <2>1. /\ pc[t] = "idle"
        /\ pc' = [pc EXCEPT ![t] = to] /\ offer' = [offer EXCEPT ![t] = o]
        /\ UNCHANGED <<simulated, status, slot, blind, bankroll, halted, crowd, hazard>>
    BY <1>1 DEF Leaves, Screened, book
  <2>2. \A u \in Trades : IsOpen(u) => offer'[u] = offer[u]
    BY <2>1 DEF SignalTypeOK, IsOpen
  <2>3. o # NoOffer => SizeSound(o)
    BY <1>1 DEF Leaves, GoodOffer
  <2>4. SizesSound'
    BY <2>1, <2>3 DEF CapsInv, SizesSound, SignalTypeOK
  <2>5. to \notin Past \/ simulated
    BY <1>1 DEF Leaves, Past
  <2>6. ~simulated => \A m \in Markets : PastCap(m)' \subseteq PastCap(m)
    BY <2>1, <2>5 DEF PastCap, IsCopy, SignalTypeOK
  <2> QED BY <2>1, <2>2, <2>4, <2>6, CapsQuiet
\* the gates that only let a task go on, or end it
<1>2. ASSUME NEW t \in Trades, NEW from, NEW to, Advance(t, from, to),
             from \in Past \/ to = "done",
             crowd' = crowd, hazard \subseteq hazard'
      PROVE  CapsInv'
  <2>1. /\ pc[t] = from /\ pc' = [pc EXCEPT ![t] = to]
        /\ UNCHANGED <<simulated, offer, status, slot, blind, bankroll, halted, stopped>>
    BY <1>2 DEF Advance, book
  <2>2. SizesSound'
    BY <2>1 DEF CapsInv, SizesSound
  <2>3. \A m \in Markets : PastCap(m)' \subseteq PastCap(m)
    BY <1>2, <2>1 DEF PastCap, IsCopy, SignalTypeOK, Past
  <2> QED BY <1>2, <2>1, <2>2, <2>3, CapsQuiet
<1>3. ASSUME NEW t \in Trades, CapPasses(t) \/ CapRejects(t)
      PROVE  CapsInv'
  <2>1. CASE CapPasses(t)
    BY <2>1, CapsPass
  <2>2. CASE CapRejects(t)
    BY <1>2, <2>2 DEF CapRejects
  <2> QED BY <1>3, <2>1, <2>2
<1>4. ASSUME NEW t \in Trades, BreakerPasses(t) \/ BreakerRejects(t)
      PROVE  CapsInv'
  BY <1>2, <1>4 DEF BreakerPasses, BreakerRejects, Note, Past
<1>5. ASSUME NEW t \in Trades, RelatedPasses(t) \/ RelatedRejects(t)
      PROVE  CapsInv'
  BY <1>2, <1>5 DEF RelatedPasses, RelatedRejects, Note, Past
<1>6. ASSUME NEW t \in Trades, Open(t) \/ Decline(t)
      PROVE  CapsInv'
  <2>1. CASE Open(t)
    BY <2>1, CapsOpen
  <2>2. CASE Decline(t)
    BY <1>2, <2>2 DEF Decline, Advance, history, Past
  <2> QED BY <1>6, <2>1, <2>2
<1>7. ASSUME NEW t \in Trades, Close(t)
      PROVE  CapsInv'
  BY <1>7, CapsClose
<1>8. CASE BankrollMoves \/ SetBreaker \/ UNCHANGED vars
  <2>1. UNCHANGED <<simulated, pc, offer, status, slot, blind, crowd, hazard>>
    BY <1>8 DEF BankrollMoves, SetBreaker, vars, task, book, history
  <2>2. SizesSound' /\ \A m \in Markets : PastCap(m)' = PastCap(m)
    BY <2>1 DEF CapsInv, SizesSound, PastCap, IsCopy
  <2> QED BY <2>1, <2>2, CapsQuiet
<1>10. bankroll \in Bankrolls /\ simulated \in BOOLEAN
  BY DEF SignalTypeOK
<1> QED BY <1>1, <1>3, <1>4, <1>5, <1>6, <1>7, <1>8, <1>10, NextCases

\* The reserve bounds a live market, the slots a simulated one.
LEMMA CapsSuffice == SignalTypeOK /\ CapsInv => ExposureInv
<1> SUFFICES ASSUME SignalTypeOK, CapsInv PROVE ExposureInv
  OBVIOUS
<1>1. LiveExposure
  <2> SUFFICES ASSUME ~simulated, "exposureUnread" \notin hazard, NEW m \in Markets
               PROVE  100 * Exposure(m)
                        < MaxExposurePct * MaxBank + crowd[m] * 3 * MaxBank
    BY DEF LiveExposure
  <2>1. 100 * Exposure(m) + Reserved(m)
            < MaxExposurePct * MaxBank + crowd[m] * 3 * MaxBank
    BY DEF CapsInv, LiveReserve
  <2>2. Cardinality(PastCap(m)) \in Nat
    BY PastCapIn, SomeTrades
  <2>3. Reserved(m) \in Nat
    BY <2>2, ReserveGrows DEF Reserved
  <2> QED BY <2>1, <2>3, LimitNat, ExposureNat
<1>2. PaperExposure
  <2> SUFFICES ASSUME simulated, NEW p \in Pairs
               PROVE  SumOf(Sizes, OpenAt(p))
                        <= (1 + Cardinality(OpenAt(p) \cap blind)) * Ceiling(p[2])
    BY DEF PaperExposure
  <2> DEFINE S == OpenAt(p)
             K == S \cap blind
             c == Ceiling(p[2])
  <2>1. S \in SUBSET Trades /\ K \in SUBSET Trades /\ K \subseteq S
    BY DEF OpenAt
  <2>2. c \in Nat /\ \A t \in S : Sizes[t] <= c
    <3>1. p[2] \in Strategies
      BY DEF Pairs
    <3>2. (3 * MaxBank) \div 100 \in Nat /\ MaxBank \in Nat
      BY BankAssumption
    <3>3. Most(MicroMaxSize, 10) \in Nat /\ Most(NoFlipMaxSize, 10) \in Nat
      BY SizeAssumption DEF Most
    <3>4. ASSUME NEW t \in S PROVE offer[t].size <= c
      <4>1. offer[t] # NoOffer /\ offer[t].strategy = p[2] /\ t \in Trades
        BY DEF OpenAt, SignalTypeOK, IsOpen, Pair
      <4>2. /\ SizeSound(offer[t]) /\ offer[t].size \in Nat
            /\ IsCopy(t) => 100 * offer[t].size <= 3 * MaxBank
        BY <4>1, SizesLive DEF CapsInv, SizesSound
      <4>3. CASE p[2] = "COPY"
        BY <3>2, <4>1, <4>2, <4>3 DEF Ceiling, IsCopy
      <4>4. CASE p[2] = "MICRO"
        BY <4>1, <4>2, <4>4 DEF Ceiling, SizeSound
      <4>5. CASE p[2] = "NO_FLIP"
        BY <4>1, <4>2, <4>5 DEF Ceiling, SizeSound
      <4> QED BY <3>1, <4>3, <4>4, <4>5 DEF Strategies
    <3>5. c \in Nat
      BY <3>1, <3>2, <3>3 DEF Ceiling, Strategies
    <3> QED BY <2>1, <3>4, <3>5, SizesNat
  <2>3. IsFiniteSet(S) /\ \A t \in S : Sizes[t] \in Nat
    BY <2>1, SizesNat
  <2>4. Cardinality(S) \in Nat /\ Cardinality(K) \in Nat
    BY <2>1, SomeTrades
  <2>5. Cardinality(S) <= Cardinality(K) + 1
    <3>1. CASE S \subseteq blind
      <4>1. S = K
        BY <3>1
      <4> QED BY <4>1, <2>4
    <3>2. ASSUME NEW t \in S, t \notin blind
          PROVE  Cardinality(S) = Cardinality(K) + 1
      <4>1. S = K \cup {t} /\ t \notin K
        BY <3>2, <2>1 DEF CapsInv, SlotKnown, OpenAt
      <4> QED BY <4>1, <2>1, OneMoreTrade
    <3> QED BY <3>1, <3>2, <2>4
  <2> HIDE DEF S, K, c
  <2>6. SumOf(Sizes, S) <= Cardinality(S) * c
    BY <2>2, <2>3, SumCapped
  <2>7. c * Cardinality(S) <= c * (1 + Cardinality(K))
    BY <2>2, <2>4, <2>5, ProductMono
  <2>8. SumOf(Sizes, S) \in Nat
    BY <2>3, SumType
  <2>9. SumOf(Sizes, S) <= (1 + Cardinality(K)) * c
    BY <2>2, <2>4, <2>6, <2>7, <2>8
  <2> QED BY <2>9 DEF S, K, c
<1> QED BY <1>1, <1>2 DEF CapsInv, ExposureInv

\* A live market exceeds its cap by at most 3 % of the bankroll per pipeline that
\* was past the gate at once, a simulated one holds one position per strategy and
\* one more per failed lookup, for any trades, markets, settings and failures.
THEOREM ExposureBounded == Spec => []ExposureInv
<1>1. Init => SignalTypeOK /\ CapsInv
  BY TypeInit, CapsInit
<1>2. (SignalTypeOK /\ CapsInv) /\ [Next]_vars => (SignalTypeOK /\ CapsInv)'
  BY TypeStep, CapsStep
<1>3. SignalTypeOK /\ CapsInv => ExposureInv
  BY CapsSuffice
<1> QED BY <1>1, <1>2, <1>3, PTL DEF Spec
=============================================================================
