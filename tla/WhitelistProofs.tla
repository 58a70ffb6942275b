-------------------------- MODULE WhitelistProofs --------------------------
(***************************************************************************)
(* The whitelist, for any wallets, scores and settings: what a score may   *)
(* be, what a scan reads of a history, and whom the list of WhaleBot and   *)
(* its stream hold.                                                        *)
(***************************************************************************)
EXTENDS ListKept, ScanTruth, DollarSums, SequenceTheorems

-----------------------------------------------------------------------------
(* The scorer.                                                             *)

LEMMA DivBounds ==
    ASSUME NEW a \in Int, NEW b \in Nat \ {0}, NEW c \in Int, a <= c * b
    PROVE  a \div b <= c /\ a \div b \in Int
OBVIOUS

LEMMA DivNat == ASSUME NEW a \in Nat, NEW b \in Nat \ {0} PROVE a \div b \in Nat
OBVIOUS

\* A share of a whole, in percent.
LEMMA Percent ==
    ASSUME NEW a \in Nat, NEW b \in Nat \ {0}, a <= b
    PROVE  (a * 100) \div b \in 0 .. 100
<1>1. a * 100 \in Nat /\ a * 100 <= 100 * b
  OBVIOUS
<1> QED
  BY <1>1, DivBounds, DivNat

-----------------------------------------------------------------------------
\* Components

LEMMA RoiBounds ==
    ASSUME NEW h \in Histories
    PROVE  Roi(h) \in 0 .. 100 /\ (h.payout <= h.cost => Roi(h) = 0)
<1>1. h.cost \in Nat /\ h.payout \in Nat
  BY DEF Histories, Sums
<1>2. CASE h.cost = 0
  BY <1>2 DEF Roi
<1>3. CASE h.cost # 0
  <2> DEFINE d == ((h.payout - h.cost) * 200) \div h.cost
  <2>1. d \in Int /\ (h.payout <= h.cost => d <= 0)
    <3>1. (h.payout - h.cost) * 200 \in Int
      BY <1>1
    <3>2. d \in Int
      BY <1>1, <1>3, <3>1
    <3>3. ASSUME h.payout <= h.cost
          PROVE  d <= 0
      <4>1. (h.payout - h.cost) * 200 <= 0 * h.cost
        BY <1>1, <3>3
      <4> QED
        BY <1>1, <1>3, <3>1, <4>1, DivBounds
    <3> QED
      BY <3>2, <3>3
  <2>2. Roi(h) = AtMost100(AtLeast0(d))
    BY <1>3 DEF Roi
  <2> HIDE DEF d
  <2> QED
    BY <2>1, <2>2 DEF AtMost100, AtLeast0
<1> QED
  BY <1>2, <1>3

LEMMA ConsistencyBounds ==
    ASSUME NEW h \in Histories
    PROVE  Consistency(h) \in 0 .. 100
<1>1. h.wins \in Nat /\ h.resolved \in Nat /\ h.wins <= h.resolved
  BY DEF Histories, Sums
<1>2. h.wins + 15 \in Nat /\ h.resolved + 30 \in Nat \ {0} /\ h.wins + 15 <= h.resolved + 30
  BY <1>1
<1> QED
  BY <1>2, Percent DEF Consistency

LEMMA SizingBounds ==
    ASSUME NEW h \in Histories, NEW p \in Nat \ {0}
    PROVE  Sizing(h, p) \in 0 .. 100
<1>1. h.median * 100 \in Nat
  BY DEF Histories, Sums
<1>2. (h.median * 100) \div p \in Nat
  BY <1>1, DivNat
<1> QED
  BY <1>2 DEF Sizing, AtMost100

LEMMA SpecializationBounds ==
    ASSUME NEW h \in Histories
    PROVE  Specialization(h) \in 0 .. 100
<1> DEFINE F == Frequent(h)
           T == {100 - Rate(k) : k \in F}
<1>1. \A k \in F : Rate(k) \in 0 .. 100
  <2> SUFFICES ASSUME NEW k \in F
               PROVE  Rate(k) \in 0 .. 100
    OBVIOUS
  <2>1. k.wins \in Nat /\ k.total \in Nat \ {0} /\ k.wins <= k.total
    BY DEF Frequent, Histories, Sums
  <2> QED
    BY <2>1, Percent DEF Rate
<1>2. CASE F = {}
  BY <1>2 DEF Specialization
<1>3. CASE F # {}
  <2>1. T \in SUBSET Nat /\ T # {}
    BY <1>1, <1>3
  <2> HIDE DEF T
  <2>2. PICK n \in T : \A m \in T : n <= m
    BY <2>1, LeastOf
  <2>3. PICK k \in F : n = 100 - Rate(k)
    BY <2>2 DEF T
  <2>4. \A l \in F : Rate(k) >= Rate(l)
    <3> SUFFICES ASSUME NEW l \in F
                 PROVE  Rate(k) >= Rate(l)
      OBVIOUS
    <3>1. n <= 100 - Rate(l)
      BY <2>2 DEF T
    <3> QED
      BY <1>1, <2>3, <3>1
  <2>5. (CHOOSE c \in F : \A l \in F : Rate(c) >= Rate(l)) \in F
    BY <2>4
  <2> HIDE DEF F
  <2>6. Specialization(h) = Rate(CHOOSE c \in F : \A l \in F : Rate(c) >= Rate(l))
    BY <1>3 DEF Specialization, F
  <2> QED
    BY <1>1, <2>5, <2>6
<1> QED
  BY <1>2, <1>3

LEMMA RecencyBounds ==
    ASSUME NEW h \in Histories
    PROVE  /\ Recency(h) \in Int /\ Recency(h) <= 100
           /\ h.payout <= h.cost => Recency(h) = 0
<1>1. h.cost \in Nat /\ h.payout \in Nat /\ h.decayed * 100 \in Int
  BY DEF Histories, Sums
<1>2. CASE h.payout <= h.cost
  BY <1>2 DEF Recency
<1>3. CASE ~(h.payout <= h.cost)
  <2>1. h.payout - h.cost \in Nat \ {0}
    BY <1>1, <1>3
  <2>2. (h.decayed * 100) \div (h.payout - h.cost) \in Int
    BY <1>1, <2>1
  <2> QED
    BY <1>3, <2>2 DEF Recency, AtMost100
<1> QED
  BY <1>2, <1>3

-----------------------------------------------------------------------------
\* Scores

\* The clamped, weighted sum: typed, and no more than what its parts allow.
LEMMA Weighted ==
    ASSUME NEW r \in 0 .. 100, NEW c \in 0 .. 100, NEW s \in 0 .. 100, NEW k \in 0 .. 100,
           NEW d \in Int, d <= 100
    PROVE  LET w == AtMost100(AtLeast0(
                        (35 * r + 25 * c + 20 * s + 10 * k + 10 * d) \div 100))
           IN  w \in 0 .. 100 /\ (s <= 10 => w <= 82)
BY DEF AtMost100, AtLeast0

LEMMA Unpaid ==
    ASSUME NEW c \in 0 .. 100, NEW s \in 0 .. 100, NEW k \in 0 .. 100
    PROVE  AtMost100(AtLeast0(
               (35 * 0 + 25 * c + 20 * s + 10 * k + 10 * 0) \div 100)) <= 55
BY DEF AtMost100, AtLeast0

\* score_wallet: a score is between 0 and 100.
THEOREM ScoreBounded ==
    ASSUME NEW h \in Histories, NEW p \in Nat \ {0}
    PROVE  Score(h, p) \in 0 .. 100
BY Weighted, RoiBounds, ConsistencyBounds, SizingBounds, SpecializationBounds, RecencyBounds
DEF Score

\* A wallet whose resolved trades lost money has no ROI and no recency, and scores at
\* most 55: it is below WHALE_SCORE_FLOOR (65), however often it won and however large
\* its trades.
THEOREM LosersUnlisted ==
    ASSUME NEW h \in Histories, NEW p \in Nat \ {0}, h.payout <= h.cost
    PROVE  Score(h, p) <= 55
<1>1. Roi(h) = 0 /\ Recency(h) = 0
  BY RoiBounds, RecencyBounds
<1>2. /\ Consistency(h) \in 0 .. 100
      /\ Sizing(h, p) \in 0 .. 100
      /\ Specialization(h) \in 0 .. 100
  BY ConsistencyBounds, SizingBounds, SpecializationBounds
<1> QED
  BY <1>1, <1>2, Unpaid DEF Score

\* _build_historical_trades sets no resolution: with MIN_RESOLVED_MARKETS above zero no
\* wallet can be scored, and without that minimum the score is at most 32.  Whatever the
\* settings, the wallets on the list owe their place to their rank among the candidates.
THEOREM FetchedUnlisted ==
    ASSUME NEW h \in Fetched, NEW p \in Nat \ {0}
    PROVE  /\ MinResolved \in Nat \ {0} => ~Scorable(h)
           /\ Score(h, p) <= 32
<1>1. h \in Histories /\ h.resolved = 0 /\ h.cost = 0 /\ h.payout = 0 /\ h.kinds = {}
  BY DEF Fetched
<1>2. MinResolved \in Nat \ {0} => ~Scorable(h)
  BY <1>1 DEF Scorable
<1>3. Roi(h) = 0 /\ Recency(h) = 0 /\ Specialization(h) = 0
  BY <1>1 DEF Roi, Recency, Specialization, Frequent
<1>4. Consistency(h) = 50
  <2>1. h.wins = 0
    BY <1>1 DEF Histories, Sums
  <2> QED
    BY <1>1, <2>1 DEF Consistency
<1>5. ASSUME NEW s \in 0 .. 100
      PROVE  AtMost100(AtLeast0((35 * 0 + 25 * 50 + 20 * s + 10 * 0 + 10 * 0) \div 100)) <= 32
  BY DEF AtMost100, AtLeast0
<1>6. Sizing(h, p) \in 0 .. 100
  BY <1>1, SizingBounds
<1> QED
  BY <1>2, <1>3, <1>4, <1>5, <1>6 DEF Score

\* _update_p90_cache takes the P90 of wallet volumes, and _compute_sizing_score divides a
\* trade size by it: a wallet of no larger volume gets at most 10 points of size for its
\* 20 trades or more, and at most 82 in all.
THEOREM VolumesDwarfTrades ==
    ASSUME NEW h \in Histories, NEW p \in Nat \ {0}, h.volume <= p, h.trades >= 20
    PROVE  Sizing(h, p) <= 10 /\ Score(h, p) <= 82
<1>1. /\ h.median \in Nat /\ h.trades \in Nat /\ h.volume \in Nat
      /\ h.median * h.trades <= 2 * h.volume
  BY DEF Histories, Sums
<1>2. h.median * 20 <= h.median * h.trades
  BY <1>1
<1>3. h.median * 100 \in Int /\ h.median * 100 <= 10 * p
  BY <1>1, <1>2
<1>4. Sizing(h, p) <= 10
  <2> DEFINE q == (h.median * 100) \div p
  <2>1. q \in Int /\ q <= 10
    BY <1>3, DivBounds
  <2>2. Sizing(h, p) = AtMost100(q)
    BY <1>1 DEF Sizing
  <2> HIDE DEF q
  <2> QED
    BY <2>1, <2>2 DEF AtMost100
<1> QED
  BY <1>4, Weighted, RoiBounds, ConsistencyBounds, SizingBounds, SpecializationBounds,
     RecencyBounds
  DEF Score

\* _update_p90_cache: the cached value is the volume of a scored wallet, hence at least
\* MIN_TOTAL_VOLUME_USDC, and the fallback of 2000 holds only while there is no key.
THEOREM CachedIsVolume ==
    ASSUME NEW v \in Seq(Nat), v # <<>>, \A i \in 1 .. Len(v) : v[i] >= MinVolume
    PROVE  NewP90(v) >= MinVolume
<1> DEFINE i == (Len(v) * 9) \div 10
           j == (IF i <= Len(v) - 1 THEN i ELSE Len(v) - 1) + 1
<1>1. Len(v) \in Nat \ {0}
  OBVIOUS
<1>2. j \in 1 .. Len(v)
  BY <1>1
<1>3. NewP90(v) = v[j]
  BY DEF NewP90
<1> QED
  BY <1>2, <1>3

-----------------------------------------------------------------------------
\* Where the parts of a list of sequences lie when they are joined

Sizes(s)     == [i \in DOMAIN s |-> Len(s[i])]
Offset(s, i) == SumOf(Sizes(s), 1 .. i)

LEMMA SizesType ==
    ASSUME NEW S, NEW s \in Seq(Seq(S))
    PROVE  /\ Len(s) \in Nat /\ DOMAIN s = 1 .. Len(s)
           /\ \A i \in 1 .. Len(s) : /\ s[i] \in Seq(S)
                                     /\ Sizes(s)[i] = Len(s[i]) /\ Len(s[i]) \in Nat
<1>1. Len(s) \in Nat /\ DOMAIN s = 1 .. Len(s)
  BY LenProperties
<1>2. ASSUME NEW i \in 1 .. Len(s)
      PROVE  s[i] \in Seq(S) /\ Sizes(s)[i] = Len(s[i]) /\ Len(s[i]) \in Nat
  <2>1. s[i] \in Seq(S)
    BY ElementOfSeq
  <2> QED
    BY <1>1, <2>1, LenProperties DEF Sizes
<1> QED
  BY <1>1, <1>2

LEMMA OffsetZero ==
    ASSUME NEW s
    PROVE  Offset(s, 0) = 0
<1>1. 1 .. 0 = {}
  OBVIOUS
<1> QED
  BY <1>1, SumEmpty DEF Offset

LEMMA OffsetType ==
    ASSUME NEW S, NEW s \in Seq(Seq(S)), NEW i \in 0 .. Len(s)
    PROVE  Offset(s, i) \in Nat
<1>1. IsFiniteSet(1 .. i)
  BY SizesType, FS_Interval
<1>2. \A j \in 1 .. i : Sizes(s)[j] \in Nat
  BY SizesType
<1> QED
  BY <1>1, <1>2, SumType DEF Offset

LEMMA OffsetStep ==
    ASSUME NEW S, NEW s \in Seq(Seq(S)), NEW i \in 1 .. Len(s)
    PROVE  Offset(s, i) = Offset(s, i - 1) + Len(s[i])
<1>1. Len(s) \in Nat /\ \A j \in 1 .. Len(s) : Sizes(s)[j] = Len(s[j]) /\ Len(s[j]) \in Nat
  BY SizesType
<1>0. i \in Nat /\ i - 1 \in Nat /\ i <= Len(s)
  BY <1>1
<1>5. 1 .. i = (1 .. i - 1) \cup {i} /\ i \notin 1 .. i - 1
  BY <1>0
<1>6. \A j \in 1 .. i : j \in 1 .. Len(s)
  BY <1>0, <1>1
<1>2. \A j \in (1 .. i - 1) \cup {i} : Sizes(s)[j] \in Nat
  BY <1>1, <1>5, <1>6
<1>4. IsFiniteSet(1 .. i - 1)
  BY <1>0, FS_Interval
<1>3. SumOf(Sizes(s), (1 .. i - 1) \cup {i}) = SumOf(Sizes(s), 1 .. i - 1) + Sizes(s)[i]
  BY <1>2, <1>4, <1>5, SumAdd
<1> QED
  BY <1>1, <1>3, <1>5 DEF Offset

LEMMA OffsetMono ==
    ASSUME NEW S, NEW s \in Seq(Seq(S)), NEW j \in 0 .. Len(s), NEW i \in 0 .. j
    PROVE  Offset(s, i) <= Offset(s, j)
<1>1. Len(s) \in Nat /\ \A k \in 1 .. Len(s) : Sizes(s)[k] \in Nat
  BY SizesType
<1>2. 1 .. i \subseteq 1 .. j /\ \A k \in 1 .. j : Sizes(s)[k] \in Nat
  BY <1>1
<1>3. IsFiniteSet(1 .. j)
  BY <1>1, FS_Interval
<1> QED
  BY <1>2, <1>3, SumPart DEF Offset

\* Every place lies in one part, ...
LEMMA OffsetCovers ==
    ASSUME NEW S, NEW s \in Seq(Seq(S)), NEW n \in 1 .. Offset(s, Len(s))
    PROVE  \E i \in 1 .. Len(s) : Offset(s, i - 1) < n /\ n <= Offset(s, i)
<1> DEFINE T == {i \in 0 .. Len(s) : n <= Offset(s, i)}
<1>1. Len(s) \in Nat /\ \A i \in 0 .. Len(s) : Offset(s, i) \in Nat
  BY SizesType, OffsetType
<1>2. T \in SUBSET Nat /\ Len(s) \in T
  BY <1>1
<1> HIDE DEF T
<1>3. PICK i \in T : \A m \in T : i <= m
  BY <1>2, LeastOf
<1>4. i \in 0 .. Len(s) /\ n <= Offset(s, i) /\ \A m \in 0 .. Len(s) : n <= Offset(s, m) => i <= m
  BY <1>3 DEF T
<1>5. i # 0
  BY <1>1, <1>4, OffsetZero
<1>6. i \in 1 .. Len(s) /\ i - 1 \in 0 .. Len(s)
  BY <1>1, <1>4, <1>5
<1>7. ~(n <= Offset(s, i - 1))
  BY <1>1, <1>4, <1>6
<1>8. n \in Nat /\ Offset(s, i - 1) \in Nat
  BY <1>1, <1>6
<1> QED
  BY <1>4, <1>6, <1>7, <1>8

\* ... and in no other.
LEMMA OffsetOne ==
    ASSUME NEW S, NEW s \in Seq(Seq(S)), NEW n \in Nat,
           NEW i \in 1 .. Len(s), Offset(s, i - 1) < n, n <= Offset(s, i),
           NEW j \in 1 .. Len(s), Offset(s, j - 1) < n, n <= Offset(s, j)
    PROVE  i = j
<1>1. Len(s) \in Nat /\ \A k \in 0 .. Len(s) : Offset(s, k) \in Nat
  BY SizesType, OffsetType
<1>2. ~(i <= j - 1)
  <2>1. ASSUME i <= j - 1 PROVE Offset(s, i) <= Offset(s, j - 1)
    <3>1. j - 1 \in 0 .. Len(s) /\ i \in 0 .. j - 1
      BY <1>1, <2>1
    <3> QED
      BY <3>1, OffsetMono
  <2>2. Offset(s, i) \in Nat /\ Offset(s, j - 1) \in Nat
    BY <1>1
  <2> QED
    BY <2>1, <2>2
<1>3. ~(j <= i - 1)
  <2>1. ASSUME j <= i - 1 PROVE Offset(s, j) <= Offset(s, i - 1)
    <3>1. i - 1 \in 0 .. Len(s) /\ j \in 0 .. i - 1
      BY <1>1, <2>1
    <3> QED
      BY <3>1, OffsetMono
  <2>2. Offset(s, j) \in Nat /\ Offset(s, i - 1) \in Nat
    BY <1>1
  <2> QED
    BY <2>1, <2>2
<1> QED
  BY <1>1, <1>2, <1>3

LEMMA OffsetSame ==
    ASSUME NEW s, NEW t, NEW i,
           \A j \in 1 .. i : Sizes(s)[j] = Sizes(t)[j]
    PROVE  Offset(s, i) = Offset(t, i)
  BY SumSame DEF Offset

-----------------------------------------------------------------------------
\* FlattenSeq: its parts one after the other

Joined(s, f, n) == f = [i \in 1 .. n |-> IF i = 1 THEN s[i] ELSE f[i - 1] \o s[i]]

LEMMA JoinExists ==
    ASSUME NEW s, NEW n \in Nat
    PROVE  \E f : Joined(s, f, n)
<1> DEFINE T == {m \in Nat : ~\E f : Joined(s, f, m)}
<1>1. SUFFICES ASSUME T # {} PROVE FALSE
  OBVIOUS
<1>2. T \in SUBSET Nat
  OBVIOUS
<1>3. PICK m \in T : \A k \in T : m <= k
  <2> HIDE DEF T
  <2> QED
    BY <1>1, <1>2, LeastOf
<1>4. m \in Nat /\ ~\E f : Joined(s, f, m)
  BY <1>3
<1>5. CASE m = 0
  <2> DEFINE f == [i \in 1 .. 0 |-> s]
  <2>1. f = [i \in 1 .. 0 |-> IF i = 1 THEN s[i] ELSE f[i - 1] \o s[i]]
    OBVIOUS
  <2>2. Joined(s, f, m)
    BY <1>5, <2>1 DEF Joined
  <2> QED
    BY <1>4, <2>2
<1>6. CASE m # 0
  <2>1. m - 1 \in Nat /\ m - 1 \notin T
    BY <1>3, <1>4, <1>6
  <2>2. PICK f : Joined(s, f, m - 1)
    BY <2>1
  <2> DEFINE g == [i \in 1 .. m |->
                      IF i = m THEN (IF i = 1 THEN s[i] ELSE f[i - 1] \o s[i]) ELSE f[i]]
  <2>3. ASSUME NEW i \in 1 .. m
        PROVE  g[i] = IF i = 1 THEN s[i] ELSE g[i - 1] \o s[i]
    <3>1. CASE i = m
      <4>1. i # 1 => i - 1 \in 1 .. m /\ i - 1 # m
        BY <1>4, <3>1
      <4>2. i # 1 => g[i - 1] = f[i - 1]
        BY <4>1
      <4> QED
        BY <3>1, <4>2
    <3>2. CASE i # m
      <4>1. i \in 1 .. m - 1 /\ (i # 1 => i - 1 \in 1 .. m /\ i - 1 # m)
        BY <1>4, <3>2
      <4>2. f[i] = IF i = 1 THEN s[i] ELSE f[i - 1] \o s[i]
        BY <2>2, <4>1 DEF Joined
      <4>3. g[i] = f[i] /\ (i # 1 => g[i - 1] = f[i - 1])
        BY <3>2, <4>1
      <4> QED
        BY <4>2, <4>3
    <3> QED
      BY <3>1, <3>2
  <2>4. Joined(s, g, m)
    <3> DEFINE h == [i \in 1 .. m |-> IF i = 1 THEN s[i] ELSE g[i - 1] \o s[i]]
    <3>1. DOMAIN g = 1 .. m /\ g = [i \in 1 .. m |-> g[i]]
      OBVIOUS
    <3> HIDE DEF g
    <3>2. g = h
      BY <2>3, <3>1
    <3> QED
      BY <3>2 DEF Joined
  <2> QED
    BY <1>4, <2>4
<1> QED
  BY <1>5, <1>6

LEMMA FlattenIsJoin ==
    ASSUME NEW s, Len(s) \in Nat \ {0}
    PROVE  \E f : Joined(s, f, Len(s)) /\ FlattenSeq(s) = f[Len(s)]
<1> DEFINE flatten == CHOOSE f : Joined(s, f, Len(s))
<1>1. Joined(s, flatten, Len(s))
  BY JoinExists
<1>2. FlattenSeq(s) = flatten[Len(s)]
  BY DEF FlattenSeq, Joined
<1> QED
  BY <1>1, <1>2

Laid(s, t, n) == \A i \in 1 .. n : \A k \in 1 .. Len(s[i]) :
                    /\ Offset(s, i - 1) + k \in 1 .. Len(t)
                    /\ t[Offset(s, i - 1) + k] = s[i][k]

\* One more part behind the parts that are laid.
LEMMA LaidStep ==
    ASSUME NEW S, NEW s \in Seq(Seq(S)), NEW n \in 1 .. Len(s), NEW t \in Seq(S),
           Len(t) = Offset(s, n - 1), Laid(s, t, n - 1)
    PROVE  /\ t \o s[n] \in Seq(S) /\ Len(t \o s[n]) = Offset(s, n)
           /\ Laid(s, t \o s[n], n)
<1>1. /\ Len(s) \in Nat /\ n \in Nat /\ n - 1 \in Nat /\ s[n] \in Seq(S)
      /\ Len(t) \in Nat /\ Len(s[n]) \in Nat /\ Offset(s, n) = Offset(s, n - 1) + Len(s[n])
  BY SizesType, LenProperties, OffsetStep
<1>2. /\ t \o s[n] \in Seq(S) /\ Len(t \o s[n]) = Len(t) + Len(s[n])
      /\ \A i \in 1 .. Len(t) + Len(s[n]) :
            (t \o s[n])[i] = IF i <= Len(t) THEN t[i] ELSE s[n][i - Len(t)]
  BY <1>1, ConcatProperties
<1>3. ASSUME NEW i \in 1 .. n, NEW k \in 1 .. Len(s[i])
      PROVE  /\ Offset(s, i - 1) + k \in 1 .. Len(t \o s[n])
             /\ (t \o s[n])[Offset(s, i - 1) + k] = s[i][k]
  <2>1. CASE i = n
    <3>1. k \in 1 .. Len(s[n]) /\ Offset(s, i - 1) = Len(t)
      BY <2>1
    <3>2. Len(t) + k \in 1 .. Len(t) + Len(s[n]) /\ ~(Len(t) + k <= Len(t))
          /\ Len(t) + k - Len(t) = k
      BY <1>1, <3>1
    <3> QED
      BY <1>2, <2>1, <3>1, <3>2
  <2>2. CASE i # n
    <3>1. i \in 1 .. n - 1
      BY <1>1, <2>2
    <3>2. /\ Offset(s, i - 1) + k \in 1 .. Len(t)
          /\ t[Offset(s, i - 1) + k] = s[i][k]
      BY <3>1 DEF Laid
    <3>3. /\ Offset(s, i - 1) + k \in 1 .. Len(t) + Len(s[n])
          /\ Offset(s, i - 1) + k <= Len(t)
      BY <1>1, <3>2
    <3> QED
      BY <1>2, <3>2, <3>3
  <2> QED
    BY <2>1, <2>2
<1>4. Laid(s, t \o s[n], n)
  BY <1>3 DEF Laid
<1> QED
  BY <1>1, <1>2, <1>4

LEMMA JoinLays ==
    ASSUME NEW S, NEW s \in Seq(Seq(S)), NEW f, Joined(s, f, Len(s)), NEW n \in 1 .. Len(s)
    PROVE  f[n] \in Seq(S) /\ Len(f[n]) = Offset(s, n) /\ Laid(s, f[n], n)
<1> DEFINE Good(m) == f[m] \in Seq(S) /\ Len(f[m]) = Offset(s, m) /\ Laid(s, f[m], m)
           T == {m \in 1 .. Len(s) : ~Good(m)}
<1>1. SUFFICES ASSUME T # {} PROVE FALSE
  OBVIOUS
<1>2. T \in SUBSET Nat /\ Len(s) \in Nat
  BY SizesType
<1>3. PICK m \in T : \A k \in T : m <= k
  <2> HIDE DEF T
  <2> QED
    BY <1>1, <1>2, LeastOf
<1>4. m \in 1 .. Len(s) /\ ~Good(m) /\ f[m] = IF m = 1 THEN s[m] ELSE f[m - 1] \o s[m]
  BY <1>3 DEF Joined
<1>5. CASE m = 1
  <2>1. s[1] \in Seq(S) /\ Len(s[1]) \in Nat
    BY <1>4, <1>5, SizesType
  <2>2. 1 - 1 = 0 /\ Offset(s, 0) = 0 /\ Offset(s, 1) = Offset(s, 1 - 1) + Len(s[1])
    BY <1>4, <1>5, OffsetZero, OffsetStep
  <2>3. \A k \in 1 .. Len(s[1]) : Offset(s, 1 - 1) + k = k
    BY <2>1, <2>2
  <2>4. \A i \in 1 .. 1 : i = 1
    OBVIOUS
  <2>5. Laid(s, s[1], 1)
    BY <2>3, <2>4 DEF Laid
  <2>6. Len(s[1]) = Offset(s, 1)
    BY <2>1, <2>2
  <2> QED
    BY <1>4, <1>5, <2>1, <2>5, <2>6
<1>6. CASE m # 1
  <2>1. m - 1 \in 1 .. Len(s) /\ ~(m <= m - 1)
    BY <1>2, <1>4, <1>6
  <2>2. Good(m - 1)
    BY <1>3, <2>1
  <2>3. f[m - 1] \in Seq(S) /\ Len(f[m - 1]) = Offset(s, m - 1) /\ Laid(s, f[m - 1], m - 1)
    BY <2>2
  <2>4. f[m] = f[m - 1] \o s[m]
    BY <1>4, <1>6
  <2>5. /\ f[m - 1] \o s[m] \in Seq(S) /\ Len(f[m - 1] \o s[m]) = Offset(s, m)
        /\ Laid(s, f[m - 1] \o s[m], m)
    BY <1>4, <2>3, LaidStep
  <2>6. Good(m)
    BY <2>4, <2>5
  <2> QED
    BY <1>4, <2>6
<1> QED
  BY <1>5, <1>6

\* A list of sequences in one: as long as all of them, and each at its offset.
LEMMA FlattenLays ==
    ASSUME NEW S, NEW s \in Seq(Seq(S))
    PROVE  /\ FlattenSeq(s) \in Seq(S) /\ Len(FlattenSeq(s)) = Offset(s, Len(s))
           /\ Laid(s, FlattenSeq(s), Len(s))
<1>1. Len(s) \in Nat
  BY SizesType
<1>2. CASE Len(s) = 0
  <2>1. s = <<>>
    BY <1>2, EmptySeq
  <2>2. FlattenSeq(s) = s
    BY <1>2 DEF FlattenSeq
  <2>3. <<>> \in Seq(S) /\ Len(<<>>) = 0
    BY EmptySeq
  <2>4. Laid(s, s, Len(s))
    BY <1>2 DEF Laid
  <2> QED
    BY <1>2, <2>1, <2>2, <2>3, <2>4, OffsetZero
<1>3. CASE Len(s) # 0
  <2>1. PICK f : Joined(s, f, Len(s)) /\ FlattenSeq(s) = f[Len(s)]
    BY <1>1, <1>3, FlattenIsJoin
  <2>2. Len(s) \in 1 .. Len(s)
    BY <1>1, <1>3
  <2> QED
    BY <2>1, <2>2, JoinLays
<1> QED
  BY <1>2, <1>3

-----------------------------------------------------------------------------
\* The chain, and the lists of its transfers

LEMMA ChainType ==
    ASSUME chain \in Chains
    PROVE  /\ chain \in Seq(Blocks) /\ chain \in Seq(Seq(Transfers))
           /\ Len(chain) \in 0 .. MaxBlocks /\ DOMAIN chain = 1 .. Len(chain)
           /\ \A i \in DOMAIN chain : /\ chain[i] \in Seq(Transfers) /\ Len(chain[i]) \in Nat
                                      /\ DOMAIN chain[i] = 1 .. Len(chain[i])
<1>1. PICK m \in 0 .. MaxBlocks : chain \in [1 .. m -> Blocks]
  BY DEF Chains, BoundedSeq, SeqOf
<1>2. m \in Nat
  BY <1>1, BoundsAssumption
<1>3. chain \in Seq(Blocks)
  BY <1>1, <1>2, SeqDef
<1>4. Len(chain) = m /\ DOMAIN chain = 1 .. m
  BY <1>1, <1>2, <1>3, LenProperties
<1>5. chain \in Seq(Seq(Transfers))
  BY <1>3, BlockAssumption, SeqMonotonic
<1>6. ASSUME NEW i \in DOMAIN chain
      PROVE  /\ chain[i] \in Seq(Transfers) /\ Len(chain[i]) \in Nat
             /\ DOMAIN chain[i] = 1 .. Len(chain[i])
  <2>1. chain[i] \in Seq(Transfers)
    BY <1>1, <1>4, BlockAssumption
  <2> QED
    BY <2>1, LenProperties
<1> QED
  BY <1>1, <1>3, <1>4, <1>5, <1>6

LEMMA ChainSeq ==
    ASSUME NEW c, NEW n \in Nat
    PROVE  c \in BoundedSeq(Blocks, n) <=> c \in Seq(Blocks) /\ Len(c) <= n
<1>1. ASSUME c \in BoundedSeq(Blocks, n) PROVE c \in Seq(Blocks) /\ Len(c) <= n
  <2>1. PICK m \in 0 .. n : c \in [1 .. m -> Blocks]
    BY <1>1 DEF BoundedSeq, SeqOf
  <2>2. c \in Seq(Blocks)
    BY <2>1, SeqDef
  <2>3. Len(c) = m
    BY <2>1, <2>2, LenProperties
  <2> QED
    BY <2>1, <2>2, <2>3
<1>2. ASSUME c \in Seq(Blocks), Len(c) <= n PROVE c \in BoundedSeq(Blocks, n)
  <2>1. Len(c) \in 0 .. n /\ c \in [1 .. Len(c) -> Blocks]
    BY <1>2, LenProperties
  <2> QED
    BY <2>1 DEF BoundedSeq, SeqOf
<1> QED
  BY <1>1, <1>2

\* Before counts what the blocks before the i-th hold.
LEMMA BeforeIsOffset ==
    ASSUME NEW i
    PROVE  Before(i) = Offset(chain, i - 1)
  BY DEF Before, Offset, Lengths, Sizes

LEMMA BeforeNext ==
    ASSUME chain \in Chains, NEW i \in DOMAIN chain
    PROVE  /\ Before(i) \in Nat /\ Before(Len(chain) + 1) \in Nat
           /\ Before(i + 1) = Before(i) + Len(chain[i])
           /\ Before(i + 1) <= Before(Len(chain) + 1)
<1>1. /\ chain \in Seq(Seq(Transfers)) /\ Len(chain) \in Nat /\ i \in 1 .. Len(chain)
      /\ Len(chain[i]) \in Nat
  BY ChainType
<1>2. /\ i - 1 \in 0 .. Len(chain) /\ i \in 0 .. Len(chain) /\ Len(chain) \in 0 .. Len(chain)
      /\ i + 1 - 1 = i /\ Len(chain) + 1 - 1 = Len(chain)
  BY <1>1
<1>3. Offset(chain, i - 1) \in Nat /\ Offset(chain, Len(chain)) \in Nat
  BY <1>1, <1>2, OffsetType
<1>4. Offset(chain, i) = Offset(chain, i - 1) + Len(chain[i])
  BY <1>1, OffsetStep
<1>5. Offset(chain, i) <= Offset(chain, Len(chain))
  BY <1>1, <1>2, OffsetMono
<1>6. /\ Before(i) = Offset(chain, i - 1) /\ Before(i + 1) = Offset(chain, i)
      /\ Before(Len(chain) + 1) = Offset(chain, Len(chain))
  BY <1>2, BeforeIsOffset
<1> QED
  BY <1>3, <1>4, <1>5, <1>6

\* Each place of the list is one block's, ...
LEMMA BlockOf ==
    ASSUME chain \in Chains, NEW n \in 1 .. Before(Len(chain) + 1)
    PROVE  \E i \in DOMAIN chain : Before(i) < n /\ n <= Before(i) + Len(chain[i])
<1>1. chain \in Seq(Seq(Transfers)) /\ Len(chain) \in Nat /\ DOMAIN chain = 1 .. Len(chain)
  BY ChainType
<1>2. Before(Len(chain) + 1) = Offset(chain, Len(chain))
  <2>1. Len(chain) + 1 - 1 = Len(chain)
    BY <1>1
  <2> QED
    BY <2>1, BeforeIsOffset
<1>3. PICK i \in 1 .. Len(chain) : Offset(chain, i - 1) < n /\ n <= Offset(chain, i)
  BY <1>1, <1>2, OffsetCovers
<1>4. Offset(chain, i) = Offset(chain, i - 1) + Len(chain[i])
  BY <1>1, OffsetStep
<1> QED
  BY <1>1, <1>3, <1>4, BeforeIsOffset

\* ... and of that block only.
LEMMA BlockOne ==
    ASSUME chain \in Chains, NEW n \in Nat,
           NEW i \in DOMAIN chain, Before(i) < n, n <= Before(i) + Len(chain[i]),
           NEW j \in DOMAIN chain, Before(j) < n, n <= Before(j) + Len(chain[j])
    PROVE  i = j
<1>1. chain \in Seq(Seq(Transfers)) /\ i \in 1 .. Len(chain) /\ j \in 1 .. Len(chain)
  BY ChainType
<1>2. /\ Offset(chain, i) = Offset(chain, i - 1) + Len(chain[i])
      /\ Offset(chain, j) = Offset(chain, j - 1) + Len(chain[j])
  BY <1>1, OffsetStep
<1> QED
  BY <1>1, <1>2, BeforeIsOffset, OffsetOne

LEMMA OrderType ==
    ASSUME chain \in Chains, NEW i \in DOMAIN chain, NEW o \in Orders(i)
    PROVE  /\ o \in Seq(Places) /\ Len(o) = Len(chain[i]) /\ DOMAIN o = 1 .. Len(chain[i])
           /\ \A k \in DOMAIN o : o[k][1] = i
<1>1. Len(chain[i]) \in Nat /\ DOMAIN chain[i] = 1 .. Len(chain[i])
  BY ChainType
<1>2. PICK p \in Bijection(DOMAIN chain[i], DOMAIN chain[i]) :
               o = [k \in DOMAIN chain[i] |-> <<i, p[k]>>]
  BY DEF Orders
<1>3. p \in [DOMAIN chain[i] -> DOMAIN chain[i]]
  BY DEF Bijection, Injection
<1>4. o \in [1 .. Len(chain[i]) -> Places]
  BY <1>1, <1>2, <1>3 DEF Places
<1>5. o \in Seq(Places)
  BY <1>1, <1>4, SeqDef
<1>6. Len(o) = Len(chain[i]) /\ DOMAIN o = 1 .. Len(chain[i])
  BY <1>1, <1>4, <1>5, LenProperties
<1>7. \A k \in DOMAIN o : o[k][1] = i
  BY <1>1, <1>2, <1>6
<1> QED
  BY <1>5, <1>6, <1>7

LEMMA OrderExists ==
    ASSUME chain \in Chains, NEW i \in DOMAIN chain
    PROVE  \E o : o \in Orders(i)
<1> DEFINE D == DOMAIN chain[i]
           p == [k \in D |-> k]
<1>1. p \in Bijection(D, D)
  BY DEF Bijection, Injection, Surjection, IsInjective
<1>2. [k \in DOMAIN chain[i] |-> <<i, p[k]>>] \in Orders(i)
  BY <1>1 DEF Orders
<1> QED
  BY <1>2

\* What the service answers from: block after block, each in one of its orders.
LEMMA ListingLays ==
    ASSUME chain \in Chains, NEW o \in Shuffles
    PROVE  /\ FlattenSeq(o) \in Seq(Places)
           /\ Len(FlattenSeq(o)) = Before(Len(chain) + 1)
           /\ \A i \in DOMAIN chain : \A k \in 1 .. Len(chain[i]) :
                 FlattenSeq(o)[Before(i) + k] = o[i][k]
<1>1. Len(chain) \in Nat /\ DOMAIN chain = 1 .. Len(chain)
  BY ChainType
<1>2. DOMAIN o = 1 .. Len(chain) /\ \A i \in DOMAIN chain : o[i] \in Orders(i)
  BY <1>1 DEF Shuffles
<1>3. \A i \in DOMAIN chain : /\ o[i] \in Seq(Places) /\ Len(o[i]) = Len(chain[i])
  BY <1>2, OrderType
<1>4. o = [i \in 1 .. Len(chain) |-> o[i]]
  BY <1>2 DEF Shuffles
<1>5. o \in [1 .. Len(chain) -> Seq(Places)]
  BY <1>1, <1>3, <1>4
<1>6. o \in Seq(Seq(Places))
  BY <1>1, <1>5, SeqDef
<1>7. Len(o) = Len(chain)
  BY <1>1, <1>2, <1>6, LenProperties
<1>8. /\ FlattenSeq(o) \in Seq(Places) /\ Len(FlattenSeq(o)) = Offset(o, Len(o))
      /\ Laid(o, FlattenSeq(o), Len(o))
  BY <1>6, FlattenLays
<1>9. \A i \in 1 .. Len(chain) : Sizes(o)[i] = Sizes(chain)[i]
  BY <1>1, <1>2, <1>3 DEF Sizes
<1>10. ASSUME NEW j \in 0 .. Len(chain) PROVE Offset(o, j) = Offset(chain, j)
  BY <1>1, <1>9, OffsetSame
<1>11. Offset(o, Len(o)) = Before(Len(chain) + 1)
  <2>1. Len(chain) \in 0 .. Len(chain) /\ Len(chain) + 1 - 1 = Len(chain)
    BY <1>1
  <2> QED
    BY <1>7, <1>10, <2>1, BeforeIsOffset
<1>12. ASSUME NEW i \in DOMAIN chain, NEW k \in 1 .. Len(chain[i])
       PROVE  FlattenSeq(o)[Before(i) + k] = o[i][k]
  <2>1. i \in 1 .. Len(o) /\ k \in 1 .. Len(o[i]) /\ i - 1 \in 0 .. Len(chain)
    BY <1>1, <1>3, <1>7
  <2>2. FlattenSeq(o)[Offset(o, i - 1) + k] = o[i][k]
    BY <1>8, <2>1 DEF Laid
  <2> QED
    BY <1>10, <2>1, <2>2, BeforeIsOffset
<1> QED
  BY <1>8, <1>11, <1>12

\* A page, and what it is to the pages before it.
LEMMA PageLays ==
    ASSUME NEW S, got \in Seq(S), NEW all \in Seq(S), Len(got) <= Len(all)
    PROVE  LET hi == IF Len(got) + PageSize <= Len(all) THEN Len(got) + PageSize
                                                          ELSE Len(all)
           IN  /\ Page(all) \in Seq(S) /\ Len(Page(all)) = hi - Len(got)
               /\ got \o Page(all) \in Seq(S) /\ Len(got \o Page(all)) = hi
               /\ \A n \in 1 .. Len(got) : (got \o Page(all))[n] = got[n]
               /\ \A n \in Len(got) + 1 .. hi : (got \o Page(all))[n] = all[n]
<1> DEFINE L  == Len(got)
           hi == IF L + PageSize <= Len(all) THEN L + PageSize ELSE Len(all)
<1>1. L \in Nat /\ Len(all) \in Nat /\ PageSize \in Nat \ {0}
  BY LenProperties, PageAssumption
<1>2. /\ hi \in Nat /\ L <= hi /\ hi <= Len(all) /\ hi - L \in Nat
      /\ L + 1 \in Int /\ hi \in Int /\ hi - (L + 1) + 1 = hi - L
      /\ (L + 1 <= hi => hi - L = hi - (L + 1) + 1) /\ (~(L + 1 <= hi) => hi - L = 0)
  BY <1>1
<1>3. \A i \in L + 1 .. hi : i \in 1 .. Len(all)
  BY <1>1, <1>2
<1>4. \A i \in L + 1 .. hi : all[i] \in S
  BY <1>3, ElementOfSeq
<1>5. Page(all) = SubSeq(all, L + 1, hi)
  BY DEF Page
<1> HIDE DEF hi
<1>6. /\ Page(all) \in Seq(S)
      /\ Len(Page(all)) = IF L + 1 <= hi THEN hi - (L + 1) + 1 ELSE 0
      /\ \A i \in 1 .. hi - (L + 1) + 1 : Page(all)[i] = all[L + 1 + i - 1]
  BY <1>2, <1>4, <1>5, SubSeqProperties
<1>7. Len(Page(all)) = hi - L
  BY <1>2, <1>6
<1>8. /\ got \o Page(all) \in Seq(S) /\ Len(got \o Page(all)) = L + Len(Page(all))
      /\ \A i \in 1 .. L + Len(Page(all)) :
            (got \o Page(all))[i] = IF i <= L THEN got[i] ELSE Page(all)[i - L]
  BY <1>6, ConcatProperties
<1>9. L + Len(Page(all)) = hi
  BY <1>1, <1>2, <1>7
<1>10. \A n \in 1 .. L : n \in 1 .. hi /\ n <= L
  BY <1>1, <1>2
<1>11. \A n \in 1 .. L : (got \o Page(all))[n] = got[n]
  BY <1>8, <1>9, <1>10
<1>12. ASSUME NEW n \in L + 1 .. hi PROVE (got \o Page(all))[n] = all[n]
  <2>1. n \in 1 .. hi /\ ~(n <= L) /\ n - L \in 1 .. hi - (L + 1) + 1 /\ L + 1 + (n - L) - 1 = n
    BY <1>1, <1>2
  <2>2. (got \o Page(all))[n] = Page(all)[n - L]
    BY <1>8, <1>9, <2>1
  <2>3. Page(all)[n - L] = all[L + 1 + (n - L) - 1]
    BY <1>6, <2>1
  <2> QED
    BY <2>1, <2>2, <2>3
<1> QED
  BY <1>6, <1>7, <1>8, <1>9, <1>11, <1>12 DEF hi

-----------------------------------------------------------------------------
\* The trades of a block are built from the block's own places.

Own(i) == \A n \in DOMAIN got : got[n][1] = i <=> Before(i) < n /\ n <= Before(i) + Len(chain[i])

\* at finds the places of r, all of block i, among those of s
Finds(at, r, s, i) ==
    /\ \A k \in DOMAIN r : at[k] \in DOMAIN s /\ s[at[k]] = r[k] /\ r[k][1] = i
    /\ \A n \in DOMAIN s : s[n][1] = i => \E k \in DOMAIN r : at[k] = n
    /\ \A k, l \in DOMAIN r : k <= l <=> at[k] <= at[l]

LEMMA SameTrades ==
    ASSUME NEW s, NEW r, NEW i, NEW at, Finds(at, r, s, i)
    PROVE  \A t : t \in TradesOf(r) <=> t \in TradesOf(s) /\ t.tx[1] = i
<1>1. \A k \in DOMAIN r : k \in Moves(r) <=> at[k] \in Moves(s)
  BY DEF Moves, Finds
<1>2. \A k \in DOMAIN r : TxOf(r, k) = TxOf(s, at[k])
  BY DEF TxOf, Finds
<1>3. ASSUME NEW k \in Moves(r) PROVE Decides(r, k) <=> Decides(s, at[k])
  <2>0. k \in DOMAIN r
    BY DEF Moves
  <2>1. ASSUME Decides(r, k), NEW m \in Moves(s), TxOf(s, m) = TxOf(s, at[k])
        PROVE  m <= at[k]
    <3>1. m \in DOMAIN s /\ s[m][1] = s[at[k]][1] /\ s[at[k]][1] = i
      BY <2>0, <2>1 DEF Moves, TxOf, Finds
    <3>2. PICK l \in DOMAIN r : at[l] = m
      BY <3>1 DEF Finds
    <3>3. l \in Moves(r) /\ TxOf(r, l) = TxOf(r, k)
      BY <1>1, <1>2, <2>0, <2>1, <3>2
    <3>4. l <= k
      BY <2>1, <3>3 DEF Decides
    <3> QED
      BY <2>0, <3>2, <3>4 DEF Finds
  <2>2. ASSUME Decides(s, at[k]), NEW l \in Moves(r), TxOf(r, l) = TxOf(r, k)
        PROVE  l <= k
    <3>1. l \in DOMAIN r /\ at[l] \in Moves(s) /\ TxOf(s, at[l]) = TxOf(s, at[k])
      BY <1>1, <1>2, <2>0, <2>2 DEF Moves
    <3>2. at[l] <= at[k]
      BY <2>2, <3>1 DEF Decides
    <3> QED
      BY <2>0, <3>1, <3>2 DEF Finds
  <2> QED
    BY <2>1, <2>2 DEF Decides
<1> DEFINE Trade(q, n) == [tx |-> TxOf(q, n), side |-> chain[q[n][1]][q[n][2]].kind]
<1>4. \A k \in DOMAIN r : Trade(r, k) = Trade(s, at[k])
  BY <1>2 DEF Finds
<1>5. \A q, t : t \in TradesOf(q) <=>
         \E n \in Moves(q) : Decides(q, n) /\ t = Trade(q, n) /\ t.side # "dust"
  BY DEF TradesOf
<1>6. ASSUME NEW t \in TradesOf(s), t.tx[1] = i PROVE t \in TradesOf(r)
  <2>1. PICK n \in Moves(s) : Decides(s, n) /\ t = Trade(s, n) /\ t.side # "dust"
    BY <1>5
  <2>2. n \in DOMAIN s /\ s[n][1] = i
    BY <1>6, <2>1 DEF Moves, TxOf
  <2>3. PICK k \in DOMAIN r : at[k] = n
    BY <2>2 DEF Finds
  <2>4. k \in Moves(r) /\ Decides(r, k)
    BY <1>1, <1>3, <2>1, <2>3
  <2> QED
    BY <1>4, <1>5, <2>1, <2>3, <2>4
<1>7. ASSUME NEW t \in TradesOf(r) PROVE t \in TradesOf(s) /\ t.tx[1] = i
  <2>1. PICK k \in Moves(r) : Decides(r, k) /\ t = Trade(r, k) /\ t.side # "dust"
    BY <1>5
  <2>2. k \in DOMAIN r /\ r[k][1] = i
    BY <2>1 DEF Moves, Finds
  <2>3. at[k] \in Moves(s) /\ Decides(s, at[k]) /\ t = Trade(s, at[k])
    BY <1>1, <1>3, <1>4, <2>1, <2>2
  <2>4. t.tx[1] = i
    BY <2>1, <2>2 DEF TxOf
  <2> QED
    BY <1>5, <2>1, <2>3, <2>4
<1> QED
  BY <1>6, <1>7

\* A block whose places are all there, in an order of its own, is whole.
LEMMA ListedIsWhole ==
    ASSUME chain \in Chains, got \in Seq(Places), NEW i \in DOMAIN chain,
           Complete(i), Own(i)
    PROVE  Whole(i)
<1>1. PICK o \in Orders(i) : \A k \in DOMAIN o :
                Before(i) + k \in DOMAIN got /\ got[Before(i) + k] = o[k]
  BY DEF Complete
<1>2. /\ DOMAIN o = 1 .. Len(chain[i]) /\ Len(chain[i]) \in Nat /\ Before(i) \in Nat
      /\ \A k \in DOMAIN o : o[k][1] = i
  BY OrderType, ChainType, BeforeNext
<1>3. Len(got) \in Nat /\ DOMAIN got = 1 .. Len(got)
  BY LenProperties
<1> DEFINE at == [k \in DOMAIN o |-> Before(i) + k]
<1>4. \A k \in DOMAIN o : at[k] \in DOMAIN got /\ got[at[k]] = o[k] /\ o[k][1] = i
  BY <1>1, <1>2
<1>5. ASSUME NEW n \in DOMAIN got, got[n][1] = i PROVE \E k \in DOMAIN o : at[k] = n
  <2>1. Before(i) < n /\ n <= Before(i) + Len(chain[i]) /\ n \in Nat
    BY <1>3, <1>5 DEF Own
  <2>2. n - Before(i) \in DOMAIN o /\ Before(i) + (n - Before(i)) = n
    BY <1>2, <2>1
  <2> QED
    BY <2>2
<1>6. \A k, l \in DOMAIN o : k <= l <=> at[k] <= at[l]
  BY <1>2
<1> HIDE DEF at
<1>7. \A t : t \in TradesOf(o) <=> t \in TradesOf(got) /\ t.tx[1] = i
  <2>1. Finds(at, o, got, i)
    BY <1>4, <1>5, <1>6 DEF Finds
  <2> QED
    BY <2>1, SameTrades
<1>8. {t \in TradesOf(got) : t.tx[1] = i} = TradesOf(o)
  BY <1>7
<1> QED
  BY <1>8 DEF Whole

-----------------------------------------------------------------------------
\* Types

LEMMA NoRequestType ==
    ASSUME NEW c \in Chains, NEW w, NewRequest(w, c)
    PROVE  who' = w /\ attempt' = 0 /\ chain' = c /\ got' = <<>> /\ got' \in Seq(Places') /\ ~cut'
  BY EmptySeq DEF NewRequest

LEMMA EmptyChain == <<>> \in Chains
<1> DEFINE c == <<>>
<1>1. c \in Seq(Blocks) /\ Len(c) = 0
  BY EmptySeq
<1> HIDE DEF c
<1>2. MaxBlocks \in Nat /\ Len(c) <= MaxBlocks
  BY <1>1, BoundsAssumption
<1>3. c \in Chains
  BY <1>1, <1>2, ChainSeq DEF Chains
<1> QED
  BY <1>3 DEF c

\* Transfers of the blocks that were there keep their places.
LEMMA GrownPlaces ==
    ASSUME chain \in Chains, Len(chain) < MaxBlocks, NEW b \in Blocks, chain' = Append(chain, b)
    PROVE  /\ chain' \in Chains' /\ Len(chain') = Len(chain) + 1
           /\ DOMAIN chain' = 1 .. Len(chain) + 1
           /\ \A i \in DOMAIN chain : i \in DOMAIN chain' /\ chain'[i] = chain[i]
           /\ Places \subseteq Places'
<1>1. chain \in Seq(Blocks) /\ Len(chain) \in Nat /\ DOMAIN chain = 1 .. Len(chain)
  BY ChainType
<1>2. /\ chain' \in Seq(Blocks) /\ Len(chain') = Len(chain) + 1
      /\ \A i \in 1 .. Len(chain) : chain'[i] = chain[i]
  BY <1>1, AppendProperties
<1>3. Len(chain') <= MaxBlocks
  BY <1>1, <1>2, BoundsAssumption
<1>4. chain' \in Chains'
  BY <1>2, <1>3, ChainSeq, BoundsAssumption DEF Chains
<1>5. DOMAIN chain' = 1 .. Len(chain) + 1
  BY <1>2, LenProperties
<1>6. \A i \in DOMAIN chain : i \in DOMAIN chain' /\ chain'[i] = chain[i]
  BY <1>1, <1>2, <1>5
<1>7. Places \subseteq Places'
  BY <1>6 DEF Places
<1> QED
  BY <1>2, <1>4, <1>5, <1>6, <1>7

LEMMA ScanStartsTyped == ScanInit => ScanTypeOK
<1> SUFFICES ASSUME ScanInit PROVE ScanTypeOK
  OBVIOUS
<1>1. 0 \in 0 .. MaxRetries
  BY BoundsAssumption
<1>2. got \in Seq(Places) /\ chain \in Chains
  BY EmptySeq, EmptyChain DEF ScanInit
<1>3. attempt \in 0 .. MaxRetries
  BY <1>1 DEF ScanInit
<1> QED
  BY <1>2, <1>3 DEF ScanInit, ScanTypeOK

LEMMA PageTyped ==
    ASSUME ScanTypeOK, PagesInv, who # Discovery, pc = "post", NEW o \in Shuffles
    PROVE  LET all == FlattenSeq(o)
               hi == IF Len(got) + PageSize <= Len(all) THEN Len(got) + PageSize
                                                          ELSE Len(all)
           IN  /\ all \in Seq(Places) /\ Len(got) \in Nat /\ Len(all) \in Nat
               /\ Len(got) <= Len(all) /\ Len(all) = Before(Len(chain) + 1)
               /\ Len(Page(all)) = hi - Len(got)
               /\ got \o Page(all) \in Seq(Places) /\ Len(got \o Page(all)) = hi
               /\ \A n \in 1 .. Len(got) : (got \o Page(all))[n] = got[n]
               /\ \A n \in Len(got) + 1 .. hi : (got \o Page(all))[n] = all[n]
<1>1. chain \in Chains /\ got \in Seq(Places) /\ Len(got) <= Before(Len(chain) + 1)
  BY DEF ScanTypeOK, PagesInv
<1>2. FlattenSeq(o) \in Seq(Places) /\ Len(FlattenSeq(o)) = Before(Len(chain) + 1)
  BY <1>1, ListingLays
<1>3. Len(got) \in Nat /\ Len(FlattenSeq(o)) \in Nat
  BY <1>1, <1>2, LenProperties
<1> QED
  BY <1>1, <1>2, <1>3, PageLays

LEMMA NextTyped ==
    ASSUME ScanTypeOK, PagesInv, TurnInv, [ScanNext]_scanVars
    PROVE  ScanTypeOK'
<1> USE DEF ScanTypeOK
<1>1. Chains' = Chains /\ <<>> \in Chains
  BY EmptyChain DEF Chains
<1>2. NoRequest => /\ who' = Discovery /\ attempt' \in 0 .. MaxRetries /\ chain' \in Chains'
                   /\ got' \in Seq(Places') /\ cut' \in BOOLEAN
  <2> SUFFICES ASSUME NoRequest
               PROVE  /\ who' = Discovery /\ attempt' \in 0 .. MaxRetries /\ chain' \in Chains'
                      /\ got' \in Seq(Places') /\ cut' \in BOOLEAN
    OBVIOUS
  <2>1. NewRequest(Discovery, <<>>)
    BY DEF NoRequest
  <2>2. /\ who' = Discovery /\ attempt' = 0 /\ chain' = <<>>
        /\ got' \in Seq(Places') /\ ~cut'
    BY <1>1, <2>1, NoRequestType
  <2>3. cut' \in BOOLEAN
    BY <2>1 DEF NewRequest
  <2>4. attempt' \in 0 .. MaxRetries
    BY <2>2, BoundsAssumption
  <2> QED
    BY <1>1, <2>2, <2>3, <2>4
<1>3. UNCHANGED <<chain, got>> => chain' \in Chains' /\ got' \in Seq(Places')
  BY DEF Places, Chains
<1>4. CASE ReadTable
  BY <1>3, <1>4 DEF ReadTable, request
<1>5. CASE TableFails
  BY <1>3, <1>5 DEF TableFails, request
<1>6. CASE Discovered
  BY <1>2, <1>6 DEF Discovered
<1>7. ASSUME NEW w \in Candidates, Scan(w) PROVE ScanTypeOK'
  <2>1. PICK c \in Chains : NewRequest(w, c)
    BY <1>7 DEF Scan
  <2>2. /\ who' = w /\ attempt' = 0 /\ chain' \in Chains'
        /\ got' \in Seq(Places') /\ ~cut' /\ cut' \in BOOLEAN
    BY <1>1, <2>1, NoRequestType DEF NewRequest
  <2>3. attempt' \in 0 .. MaxRetries
    BY <2>2, BoundsAssumption
  <2> QED
    BY <1>7, <2>2, <2>3 DEF Scan
<1>8. CASE TakePage
  <2>1. PICK o \in Shuffles : /\ got' = got \o Page(FlattenSeq(o))
                              /\ pc' \in {"post", "judge"}
    BY <1>8 DEF TakePage, Listings
  <2>2. got \o Page(FlattenSeq(o)) \in Seq(Places)
    BY <1>8, <2>1, PageTyped DEF TakePage
  <2>3. got' \in Seq(Places') /\ chain' \in Chains'
    BY <1>8, <2>1, <2>2 DEF TakePage, Places, Chains
  <2> QED
    BY <1>8, <2>1, <2>3, BoundsAssumption DEF TakePage
<1>9. CASE NoData
  BY <1>2, <1>3, <1>9 DEF NoData, NoneDiscovered
<1>10. CASE Retry
  <2>1. attempt' \in 0 .. MaxRetries
    BY <1>10, BoundsAssumption DEF Retry, MayRetry
  <2> QED
    BY <1>3, <1>10, <2>1 DEF Retry
<1>11. CASE Raises
  BY <1>2, <1>11 DEF Raises, NoneDiscovered, Skip
<1>12. CASE Judge
  <2>1. who \in Candidates
    BY <1>12 DEF Judge, TurnInv
  <2>2. scored' \subseteq Candidates
    BY <1>12, <2>1 DEF Judge
  <2> QED
    BY <1>2, <1>12, <2>2 DEF Judge
<1>13. CASE Finish
  BY <1>3, <1>13 DEF Finish, request
<1>14. CASE Grow
  <2>1. PICK b \in Blocks : chain' = Append(chain, b)
    BY <1>14 DEF Grow
  <2>2. chain' \in Chains' /\ Places \subseteq Places'
    BY <1>14, <2>1, GrownPlaces DEF Grow
  <2>3. got' \in Seq(Places')
    BY <1>14, <2>2, SeqMonotonic DEF Grow
  <2> QED
    BY <1>14, <2>2, <2>3 DEF Grow
<1>15. CASE UNCHANGED scanVars
  BY <1>3, <1>15 DEF scanVars, request
<1> QED
  BY <1>4, <1>5, <1>6, <1>7, <1>8, <1>9, <1>10, <1>11, <1>12, <1>13, <1>14, <1>15
     DEF ScanNext, Client, GiveUp, Unparsable

-----------------------------------------------------------------------------
\* The turns

LEMMA NextTurns ==
    ASSUME ScanTypeOK, TurnInv, [ScanNext]_scanVars
    PROVE  TurnInv'
<1> USE DEF TurnInv
<1>1. ASSUME NoRequest PROVE who' = Discovery
  BY <1>1 DEF NoRequest, NewRequest
<1>2. CASE ReadTable
  BY <1>2 DEF ReadTable, request
<1>3. CASE TableFails
  BY <1>3 DEF TableFails, request
<1>4. CASE Discovered
  BY <1>1, <1>4 DEF Discovered
<1>5. ASSUME NEW w \in Candidates, Scan(w) PROVE TurnInv'
  BY <1>5, QueryAssumption DEF Scan, NewRequest
<1>6. CASE TakePage
  BY <1>6 DEF TakePage
<1>7. CASE NoData
  BY <1>1, <1>7 DEF NoData, NoneDiscovered
<1>8. CASE Retry
  BY <1>8 DEF Retry
<1>9. CASE Raises /\ pc = "post"
  BY <1>1, <1>9 DEF Raises, NoneDiscovered, Skip
<1>10. CASE Judge
  BY <1>1, <1>10 DEF Judge
<1>11. CASE Finish
  BY <1>11 DEF Finish, request
<1>12. CASE Grow
  BY <1>12 DEF Grow
<1>13. CASE UNCHANGED scanVars
  BY <1>13 DEF scanVars, request
<1> QED
  BY <1>2, <1>3, <1>4, <1>5, <1>6, <1>7, <1>8, <1>9, <1>10, <1>11, <1>12, <1>13
     DEF ScanNext, Client, GiveUp, Unparsable

LEMMA NextFull ==
    ASSUME ScanTypeOK, TurnInv, RaisedNotScored, [ScanNext]_scanVars
    PROVE  RaisedNotScored'
<1> USE DEF TurnInv, RaisedNotScored
<1>2. CASE ReadTable
  BY <1>2 DEF ReadTable, request
<1>3. CASE TableFails
  BY <1>3 DEF TableFails, request
<1>4. CASE Discovered
  BY <1>4 DEF Discovered
<1>5. ASSUME NEW w \in Candidates, Scan(w) PROVE RaisedNotScored'
  BY <1>5 DEF Scan
<1>6. CASE TakePage
  BY <1>6 DEF TakePage
<1>7. CASE NoData
  BY <1>7 DEF NoData, NoneDiscovered
<1>8. CASE Retry
  BY <1>8 DEF Retry
<1>9. CASE Raises /\ pc = "post"
  BY <1>9 DEF Raises, NoneDiscovered, Skip
<1>10. CASE Judge
  BY <1>10 DEF Judge
<1>11. CASE Finish
  BY <1>11 DEF Finish, request
<1>12. CASE Grow
  BY <1>12 DEF Grow
<1>13. CASE UNCHANGED scanVars
  BY <1>13 DEF scanVars, request
<1> QED
  BY <1>2, <1>3, <1>4, <1>5, <1>6, <1>7, <1>8, <1>9, <1>10, <1>11, <1>12, <1>13
     DEF ScanNext, Client, GiveUp, Unparsable

-----------------------------------------------------------------------------
\* The pages

LEMMA NextPageEnd ==
    ASSUME NEW n \in Nat, PageEnd(n)
    PROVE  PageEnd(n + PageSize)
<1>1. PICK m \in 0 .. n : n = m * PageSize
  BY DEF PageEnd
<1>2. PageSize \in Nat /\ PageSize >= 1 /\ m \in Nat /\ m <= n
  BY <1>1, PageAssumption
<1>3. (m + 1) * PageSize = m * PageSize + PageSize
  BY <1>2
<1>4. m + 1 \in 0 .. n + PageSize
  BY <1>2
<1> QED
  BY <1>1, <1>3, <1>4 DEF PageEnd

\* A wallet whose request has not begun has no pages.
LEMMA StartsClean == got = <<>> /\ chain \in Chains /\ pc # "judge" => PagesInv
<1> SUFFICES ASSUME got = <<>>, chain \in Chains, pc # "judge" PROVE PagesInv
  OBVIOUS
<1>1. Len(got) = 0 /\ DOMAIN got = {}
  <2>1. got \in Seq(Places) /\ Len(got) = 0
    BY EmptySeq
  <2>2. DOMAIN got = 1 .. Len(got)
    BY <2>1, LenProperties
  <2> QED
    BY <2>1, <2>2
<1>2. PageEnd(0)
  BY PageAssumption DEF PageEnd
<1>3. \A i \in DOMAIN chain : Before(i) \in Nat
  BY BeforeNext
<1>4. Before(Len(chain) + 1) \in Nat
  <2>1. chain \in Seq(Seq(Transfers)) /\ Len(chain) \in Nat
    BY ChainType
  <2>2. Len(chain) \in 0 .. Len(chain) /\ Len(chain) + 1 - 1 = Len(chain)
    BY <2>1
  <2> QED
    BY <2>1, <2>2, OffsetType, BeforeIsOffset
<1>5. \A i \in DOMAIN chain : Len(got) <= Before(i)
  BY <1>1, <1>3
<1> QED
  BY <1>1, <1>2, <1>4, <1>5 DEF PagesInv

LEMMA TakePagePages ==
    ASSUME ScanTypeOK, PagesInv, TakePage
    PROVE  PagesInv'
<1>1. PICK o \in Shuffles : /\ got' = got \o Page(FlattenSeq(o))
                            /\ pc' = IF More(Page(FlattenSeq(o))) THEN "post" ELSE "judge"
  BY DEF TakePage, Listings
<1> DEFINE all   == FlattenSeq(o)
           L     == Len(got)
           total == Before(Len(chain) + 1)
           hi    == IF L + PageSize <= total THEN L + PageSize ELSE total
<1>2. pc = "post" /\ who # Discovery /\ UNCHANGED <<who, chain, cut>>
  BY DEF TakePage
<1>3. /\ chain \in Chains /\ got \in Seq(Places)
      /\ o \in Shuffles /\ \A i \in DOMAIN chain : o[i] \in Orders(i)
  BY DEF ScanTypeOK, Shuffles
<1>4. /\ all \in Seq(Places) /\ L \in Nat /\ total \in Nat /\ L <= total
      /\ Len(Page(all)) = hi - L
      /\ got' \in Seq(Places) /\ Len(got') = hi
      /\ \A n \in 1 .. L : got'[n] = got[n]
      /\ \A n \in L + 1 .. hi : got'[n] = all[n]
  BY <1>1, <1>2, PageTyped
<1>5. \A i \in DOMAIN chain : \A k \in 1 .. Len(chain[i]) : all[Before(i) + k] = o[i][k]
  BY <1>3, ListingLays
<1> HIDE DEF all
<1>6. PageSize \in Nat \ {0} /\ PageEnd(L)
  BY <1>2, PageAssumption DEF PagesInv
<1>7. hi \in Nat /\ L <= hi /\ hi <= total /\ (hi = L + PageSize \/ hi = total)
  BY <1>4, <1>6
<1>8. /\ \A i \in DOMAIN chain : Before(i)' = Before(i)
      /\ \A i \in DOMAIN chain : Straddles(i)' = Straddles(i)
      /\ \A i \in DOMAIN chain : Orders(i)' = Orders(i)
      /\ total' = total /\ DOMAIN chain' = DOMAIN chain
  BY <1>2 DEF Before, Lengths, Straddles, PageEnd, Orders
<1>9. ASSUME hi = L + PageSize PROVE PageEnd(hi)
  BY <1>4, <1>6, <1>9, NextPageEnd
<1>10. pc' = "post" => PageEnd(hi)
  <2>1. ASSUME More(Page(all)) PROVE hi = L + PageSize
    <3>1. hi - L = PageSize
      BY <1>4, <2>1 DEF More
    <3> QED
      BY <1>4, <1>6, <1>7, <3>1
  <2> QED
    BY <1>1, <1>9, <2>1 DEF all
<1>11. pc' = "judge" => hi = total
  <2>1. ASSUME ~More(Page(all)) PROVE hi # L + PageSize
    <3>1. hi - L # PageSize
      BY <1>4, <2>1 DEF More
    <3> QED
      BY <1>4, <1>6, <1>7, <3>1
  <2> QED
    BY <1>1, <1>7, <2>1 DEF all
<1> HIDE DEF hi
<1>12. ASSUME NEW i \in DOMAIN chain, NEW n \in 1 .. hi,
              Before(i) < n, n <= Before(i) + Len(chain[i])
       PROVE  got'[n][1] = i
  <2>1. CASE n \in 1 .. L
    <3>1. n \in DOMAIN got
      BY <1>3, <2>1, LenProperties
    <3>2. got[n][1] = i
      BY <1>2, <1>12, <3>1 DEF PagesInv
    <3> QED
      BY <1>4, <2>1, <3>2
  <2>2. CASE n \in L + 1 .. hi
    <3>1. Before(i) \in Nat /\ Len(chain[i]) \in Nat
      BY <1>3, BeforeNext, ChainType
    <3>2. n - Before(i) \in 1 .. Len(chain[i]) /\ Before(i) + (n - Before(i)) = n
      BY <1>7, <1>12, <3>1
    <3>3. all[n] = o[i][n - Before(i)]
      BY <1>5, <3>2
    <3>4. o[i][n - Before(i)][1] = i
      BY <1>3, <3>2, OrderType
    <3> QED
      BY <1>4, <2>2, <3>3, <3>4
  <2> QED
    BY <1>4, <1>7, <2>1, <2>2
<1>13. ASSUME NEW i \in DOMAIN chain, ~Straddles(i), ~(hi <= Before(i))
       PROVE  \E q \in Orders(i) : \A k \in DOMAIN q :
                 Before(i) + k \in 1 .. hi /\ got'[Before(i) + k] = q[k]
  <2>0. /\ Before(i) \in Nat /\ Len(chain[i]) \in Nat /\ Before(i) + Len(chain[i]) <= total
        /\ DOMAIN o[i] = 1 .. Len(chain[i])
    BY <1>3, BeforeNext, ChainType, OrderType
  <2>1. CASE L <= Before(i)
    <3>1. Before(i) + Len(chain[i]) <= hi
      <4>1. CASE hi = total
        BY <2>0, <4>1
      <4>2. CASE hi = L + PageSize
        <5>1. ~(hi \in Before(i) + 1 .. Before(i) + Len(chain[i]) - 1)
          BY <1>9, <1>13, <4>2 DEF Straddles
        <5> QED
          BY <1>7, <1>13, <2>0, <5>1
      <4> QED
        BY <1>7, <4>1, <4>2
    <3>2. ASSUME NEW k \in DOMAIN o[i]
          PROVE  Before(i) + k \in 1 .. hi /\ got'[Before(i) + k] = o[i][k]
      <4>1. Before(i) + k \in L + 1 .. hi /\ Before(i) + k \in 1 .. hi
        BY <1>4, <1>7, <2>0, <2>1, <3>1
      <4>2. all[Before(i) + k] = o[i][k]
        BY <1>5, <2>0
      <4> QED
        BY <1>4, <4>1, <4>2
    <3> QED
      BY <1>3, <3>2
  <2>2. CASE ~(L <= Before(i))
    <3>1. Complete(i)
      BY <1>2, <1>13, <2>2 DEF PagesInv
    <3>2. PICK q \in Orders(i) : \A k \in DOMAIN q :
                   Before(i) + k \in DOMAIN got /\ got[Before(i) + k] = q[k]
      BY <3>1 DEF Complete
    <3>3. DOMAIN got = 1 .. L
      BY <1>3, LenProperties
    <3>4. \A n \in 1 .. L : n \in 1 .. hi
      BY <1>4, <1>7
    <3>5. \A k \in DOMAIN q : Before(i) + k \in 1 .. hi /\ got'[Before(i) + k] = q[k]
      BY <1>4, <3>2, <3>3, <3>4
    <3> QED
      BY <3>5
  <2> QED
    BY <2>1, <2>2
<1>14. DOMAIN got' = 1 .. hi
  BY <1>4, LenProperties
<1>15. ASSUME NEW i \in DOMAIN chain
       PROVE  (Straddles(i) \/ Len(got) <= Before(i) \/ Complete(i))'
  <2>1. CASE Straddles(i) \/ hi <= Before(i)
    BY <1>4, <1>8, <2>1
  <2>2. CASE ~Straddles(i) /\ ~(hi <= Before(i))
    <3>1. Complete(i)'
      BY <1>8, <1>13, <1>14, <2>2 DEF Complete
    <3> QED
      BY <3>1
  <2> QED
    BY <2>1, <2>2
<1>16. \A i \in DOMAIN chain : \A n \in DOMAIN got' :
          Before(i) < n /\ n <= Before(i) + Len(chain[i]) => got'[n][1] = i
  BY <1>12, <1>14
<1>17. \A i \in DOMAIN chain' : \A n \in DOMAIN got' :
          (Before(i) < n /\ n <= Before(i) + Len(chain[i]) => got[n][1] = i)'
  BY <1>2, <1>8, <1>16
<1> QED
  BY <1>4, <1>7, <1>8, <1>10, <1>11, <1>15, <1>17 DEF PagesInv

LEMMA GrowPages ==
    ASSUME ScanTypeOK, PagesInv, Grow
    PROVE  PagesInv'
<1>1. PICK b \in Blocks : chain' = Append(chain, b)
  BY DEF Grow
<1>2. pc = "post" /\ who # Discovery /\ UNCHANGED <<pc, who, got, cut>> /\ Len(chain) < MaxBlocks
  BY DEF Grow
<1>3. /\ chain \in Chains /\ Len(chain) \in Nat /\ DOMAIN chain = 1 .. Len(chain)
      /\ got \in Seq(Places) /\ Len(got) \in Nat /\ DOMAIN got = 1 .. Len(got)
  BY ChainType, LenProperties DEF ScanTypeOK
<1>4. PICK last \in Nat : last = Len(chain)
  BY <1>3
<1>5. /\ chain' \in Chains' /\ Len(chain') = last + 1
      /\ DOMAIN chain' = 1 .. last + 1
      /\ \A i \in 1 .. last : chain'[i] = chain[i]
  BY <1>1, <1>2, <1>3, <1>4, GrownPlaces
<1>6. ASSUME NEW i \in 1 .. last + 1 PROVE Before(i)' = Before(i)
  <2>1. \A j \in 1 .. i - 1 : j \in DOMAIN chain /\ j \in DOMAIN chain'
    BY <1>3, <1>4, <1>5
  <2>2. \A j \in 1 .. i - 1 : Lengths'[j] = Lengths[j]
    BY <1>3, <1>4, <1>5, <2>1 DEF Lengths
  <2> QED
    BY <2>2, SumSame DEF Before
<1>7. Before(last + 1) = Before(last + 1)' /\ Before(last + 1) \in Nat
      /\ Before(last + 2)' \in Nat /\ Before(last + 1)' <= Before(last + 2)'
  <2>1. chain' \in Seq(Seq(Transfers))
    <3>1. chain' \in Seq(Blocks)
      BY <1>5, ChainSeq, BoundsAssumption DEF Chains
    <3> QED
      BY <3>1, BlockAssumption, SeqMonotonic
  <2>2. /\ last \in 0 .. Len(chain') /\ last + 1 \in 0 .. Len(chain') /\ last \in 0 .. last + 1
        /\ last + 1 - 1 = last /\ last + 2 - 1 = last + 1 /\ last + 1 \in 1 .. last + 1
    BY <1>4, <1>5
  <2>3. /\ Offset(chain', last) \in Nat /\ Offset(chain', last + 1) \in Nat
        /\ Offset(chain', last) <= Offset(chain', last + 1)
    BY <2>1, <2>2, OffsetType, OffsetMono
  <2>4. /\ Before(last + 1)' = Offset(chain', last)
        /\ Before(last + 2)' = Offset(chain', last + 1)
    BY <2>2 DEF Before, Lengths, Offset, Sizes
  <2> QED
    BY <1>6, <2>2, <2>3, <2>4
<1>8. Len(got) <= Before(last + 1) /\ PageEnd(Len(got))
  BY <1>2, <1>4 DEF PagesInv
<1>9. (Len(got) <= Before(Len(chain) + 1))'
  <2>1. Before(Len(chain) + 1)' = Before(last + 2)'
    <3>1. Len(chain') + 1 = last + 2
      BY <1>4, <1>5
    <3> QED
      BY <3>1 DEF Before, Lengths
  <2>2. Len(got') = Len(got)
    BY <1>2
  <2> QED
    BY <1>3, <1>7, <1>8, <2>1, <2>2
<1>10. PageEnd(Len(got))'
  BY <1>2, <1>8 DEF PageEnd
<1>11. ASSUME NEW i \in 1 .. last
       PROVE  /\ \A n \in DOMAIN got :
                    (Before(i) < n /\ n <= Before(i) + Len(chain[i]) => got[n][1] = i)'
              /\ (Straddles(i) \/ Len(got) <= Before(i) \/ Complete(i))'
  <2>1. i \in DOMAIN chain /\ chain'[i] = chain[i] /\ i \in 1 .. last + 1
    BY <1>3, <1>4, <1>5
  <2>2. Before(i)' = Before(i)
    BY <1>6, <2>1
  <2>3. /\ \A n \in DOMAIN got :
              Before(i) < n /\ n <= Before(i) + Len(chain[i]) => got[n][1] = i
        /\ Straddles(i) \/ Len(got) <= Before(i) \/ Complete(i)
    BY <1>2, <2>1 DEF PagesInv
  <2>4. Straddles(i)' = Straddles(i) /\ Orders(i)' = Orders(i)
    BY <2>1, <2>2 DEF Straddles, PageEnd, Orders
  <2>5. Complete(i) => Complete(i)'
    BY <1>2, <2>2, <2>4 DEF Complete
  <2> QED
    BY <1>2, <2>1, <2>2, <2>3, <2>4, <2>5
<1>12. PICK i \in {last + 1} : TRUE
  OBVIOUS
<1>13. /\ \A n \in DOMAIN got :
             (Before(i) < n /\ n <= Before(i) + Len(chain[i]) => got[n][1] = i)'
       /\ (Straddles(i) \/ Len(got) <= Before(i) \/ Complete(i))'
  <2>1. i = last + 1 /\ Len(got) <= Before(i)' /\ Before(i)' \in Nat
    BY <1>7, <1>8, <1>12
  <2>2. \A n \in DOMAIN got : ~(Before(i)' < n)
    BY <1>3, <2>1
  <2>3. (Len(got) <= Before(i))'
    BY <1>2, <2>1
  <2> QED
    BY <2>2, <2>3
<1>14. ASSUME NEW j \in DOMAIN chain'
       PROVE  /\ \A n \in DOMAIN got' :
                    (Before(j) < n /\ n <= Before(j) + Len(chain[j]) => got[n][1] = j)'
              /\ (Straddles(j) \/ Len(got) <= Before(j) \/ Complete(j))'
  <2>1. j \in 1 .. last \/ j = i
    BY <1>4, <1>5, <1>12
  <2>2. DOMAIN got' = DOMAIN got
    BY <1>2
  <2> QED
    BY <1>11, <1>13, <2>1, <2>2
<1> QED
  BY <1>2, <1>9, <1>10, <1>14 DEF PagesInv

LEMMA SamePages ==
    ASSUME PagesInv, UNCHANGED <<who, chain, got>>,
           pc' \in {"post", "judge"} => pc = pc' \/ (pc = "post" /\ pc' = "judge" /\ cut'),
           pc' = pc => cut' = cut
    PROVE  PagesInv'
<1> SUFFICES ASSUME pc' \in {"post", "judge"}, who' # Discovery PROVE PagesInv'
  BY DEF PagesInv
<1>1. pc \in {"post", "judge"} /\ who # Discovery
  OBVIOUS
<1>2. /\ \A i \in DOMAIN chain : /\ Before(i)' = Before(i) /\ Straddles(i)' = Straddles(i)
                                 /\ Complete(i)' = Complete(i)
      /\ Before(Len(chain) + 1)' = Before(Len(chain) + 1)
      /\ PageEnd(Len(got))' = PageEnd(Len(got))
  BY DEF Before, Lengths, Straddles, PageEnd, Complete, Orders
<1> QED
  BY <1>1, <1>2 DEF PagesInv

LEMMA NextPages ==
    ASSUME ScanTypeOK, ScanTypeOK', TurnInv, PagesInv, [ScanNext]_scanVars
    PROVE  PagesInv'
<1>1. (got = <<>> /\ chain \in Chains /\ pc # "judge" => PagesInv)'
  BY StartsClean, PTL
<1>2. ASSUME NEW w, NEW c, NewRequest(w, c), pc' # "judge" PROVE PagesInv'
  BY <1>1, <1>2 DEF NewRequest, ScanTypeOK
<1>3. ASSUME NoRequest, pc' # "judge" PROVE PagesInv'
  BY <1>2, <1>3 DEF NoRequest
<1>4. CASE ReadTable
  <2>1. who' = Discovery
    BY <1>4 DEF ReadTable, request, TurnInv
  <2> QED
    BY <2>1 DEF PagesInv
<1>5. CASE TableFails
  BY <1>5, SamePages DEF TableFails, request
<1>6. CASE Discovered
  BY <1>3, <1>6 DEF Discovered
<1>7. ASSUME NEW w \in Candidates, Scan(w) PROVE PagesInv'
  BY <1>2, <1>7 DEF Scan
<1>8. CASE TakePage
  BY <1>8, TakePagePages
<1>9. CASE NoData
  BY <1>3, <1>9, SamePages DEF NoData, NoneDiscovered
<1>10. CASE Retry
  BY <1>10, SamePages DEF Retry
<1>11. CASE Raises
  BY <1>3, <1>11 DEF Raises, NoneDiscovered, Skip
<1>12. CASE Judge
  BY <1>3, <1>12 DEF Judge
<1>13. CASE Finish
  BY <1>13, SamePages DEF Finish, request
<1>14. CASE Grow
  BY <1>14, GrowPages
<1>15. CASE UNCHANGED scanVars
  BY <1>15, SamePages DEF scanVars, request
<1> QED
  BY <1>4, <1>5, <1>6, <1>7, <1>8, <1>9, <1>10, <1>11, <1>12, <1>13, <1>14, <1>15
     DEF ScanNext, Client, GiveUp, Unparsable

-----------------------------------------------------------------------------
\* A history read to its end is whole.
LEMMA PagesMakeWhole ==
    ASSUME ScanTypeOK, TurnInv, PagesInv
    PROVE  HistoryWhole
<1> SUFFICES ASSUME pc = "judge", ~cut, NEW i \in DOMAIN chain, ~Straddles(i)
             PROVE  Whole(i)
  BY DEF HistoryWhole
<1>1. chain \in Chains /\ got \in Seq(Places) /\ Len(got) \in Nat /\ DOMAIN got = 1 .. Len(got)
  BY LenProperties DEF ScanTypeOK
<1>2. /\ Len(got) = Before(Len(chain) + 1)
      /\ Len(got) <= Before(i) \/ Complete(i)
      /\ \A j \in DOMAIN chain : \A n \in DOMAIN got :
            Before(j) < n /\ n <= Before(j) + Len(chain[j]) => got[n][1] = j
  BY DEF PagesInv, TurnInv
<1>3. Complete(i)
  <2>1. ASSUME Len(got) <= Before(i) PROVE Complete(i)
    <3>1. PICK o : o \in Orders(i)
      BY <1>1, OrderExists
    <3>2. /\ Before(i) \in Nat /\ Len(chain[i]) \in Nat /\ DOMAIN o = 1 .. Len(chain[i])
          /\ Before(i) + Len(chain[i]) <= Before(Len(chain) + 1)
      BY <1>1, <3>1, BeforeNext, ChainType, OrderType
    <3>3. DOMAIN o = {}
      BY <1>1, <1>2, <2>1, <3>2
    <3> QED
      BY <3>1, <3>3 DEF Complete
  <2> QED
    BY <1>2, <2>1
<1>4. Own(i)
  <2>1. ASSUME NEW n \in DOMAIN got, got[n][1] = i
        PROVE  Before(i) < n /\ n <= Before(i) + Len(chain[i])
    <3>1. n \in 1 .. Before(Len(chain) + 1)
      BY <1>1, <1>2
    <3>2. PICK j \in DOMAIN chain : Before(j) < n /\ n <= Before(j) + Len(chain[j])
      BY <1>1, <3>1, BlockOf
    <3>3. j = i
      BY <1>2, <2>1, <3>2
    <3> QED
      BY <3>2, <3>3
  <2> QED
    BY <1>2, <2>1 DEF Own
<1> QED
  BY <1>1, <1>3, <1>4, ListedIsWhole

\* The types are inductive together with the turns and the pages.
LEMMA ScanInductive == ScanSpec => [](ScanTypeOK /\ TurnInv /\ PagesInv)
<1>1. ScanInit => ScanTypeOK /\ TurnInv /\ PagesInv
  BY ScanStartsTyped DEF ScanInit, TurnInv, PagesInv
<1>2. ScanTypeOK /\ TurnInv /\ PagesInv /\ [ScanNext]_scanVars
      => (ScanTypeOK /\ TurnInv /\ PagesInv)'
  BY NextTyped, NextTurns, NextPages
<1> QED
  BY <1>1, <1>2, PTL DEF ScanSpec

\* The scan's state stays typed: whatever fails, attempts within their limit and
\* places within the chain.
THEOREM ScanTyped == ScanSpec => []ScanTypeOK
  BY ScanInductive, PTL

\* "Fetch all conditional token trades for a wallet": unless an answer had no
\* data, every block that no page end straddles is read whole.
THEOREM ScanWhole == ScanSpec => []HistoryWhole
  BY ScanInductive, PagesMakeWhole, PTL

\* A wallet whose scan raised is not scored by the pages it got, and none loses its
\* turn.
THEOREM TurnsKept == ScanSpec => []RaisedNotScored
<1>1. ScanInit => RaisedNotScored
  BY DEF ScanInit, RaisedNotScored
<1>2. ScanTypeOK /\ TurnInv /\ RaisedNotScored /\ [ScanNext]_scanVars => RaisedNotScored'
  BY NextFull
<1> QED
  BY <1>1, <1>2, ScanInductive, PTL DEF ScanSpec

-----------------------------------------------------------------------------
(* The list and the stream.                                               *)

\* What ListInv lacks to be inductive: the refresh that replaced the map last, when it
\* is still writing, writes that map.
OwnerHolds == rpc[owner] \in Writing => work[owner] = map

ListIInv == WatchTypeOK /\ ListInv /\ OwnerHolds

-----------------------------------------------------------------------------
\* Scores

\* A score is a number, be it a rank's or the scorer's.
LEMMA ScoresTyped ==
    ASSUME NEW c \in SUBSET Wallets, NEW s \in ScoresOf(c)
    PROVE  s \in [Wallets -> Nat]
<1>1. ASSUME NEW o
      PROVE  [w \in Wallets |-> IF w \in c /\ o[w] <= MaxSize
                                THEN RankScore(o[w]) ELSE 0] \in [Wallets -> Nat]
  <2>1. \A i : RankScore(i) \in Nat
    BY DEF RankScore
  <2> QED
    BY <2>1
<1>2. CASE s \in ByRank(c)
  BY <1>1, <1>2 DEF ByRank
<1>3. CASE s \in ByHistory(c)
  <2>1. s \in [Wallets -> Scores \cup {0}]
    BY <1>3 DEF ByHistory
  <2>2. Scores \cup {0} \subseteq Nat
    BY WalletsAssumption
  <2> QED
    BY <2>1, <2>2
<1> QED
  BY <1>2, <1>3 DEF ScoresOf

\* What a refresh puts into the map: typed, above the floor, and with every wallet it
\* read as protected that was there before.
LEMMA NewMapKeeps ==
    ASSUME ListIInv, NEW r \in Refreshes, NEW c \in SUBSET Wallets,
           NEW s \in ScoresOf(c), NEW top \in Tops(s)
    PROVE  LET new == NewMap(r, s, top) IN
           /\ new \in [Wallets -> Nat]
           /\ \A w \in Wallets : new[w] = 0 \/ new[w] >= Floor
           /\ \A w \in shield[r] : map[w] # 0 => new[w] # 0
<1> DEFINE new == NewMap(r, s, top)
<1>1. s \in [Wallets -> Nat]
  BY ScoresTyped
<1>2. top \subseteq Wallets /\ \A w \in top : s[w] >= Floor
  BY DEF Tops, Eligible
<1>3. map \in [Wallets -> Nat] /\ shield[r] \subseteq Wallets
  BY DEF ListIInv, WatchTypeOK, ListTyped
<1>4. \A w \in Wallets : map[w] = 0 \/ map[w] >= Floor
  BY DEF ListIInv, ListInv, ListedAboveFloor
<1>5. new \in [Wallets -> Nat]
  BY <1>1, <1>3 DEF NewMap
<1>6. \A w \in Wallets : new[w] = IF w \in top THEN s[w]
                                  ELSE IF w \in Retained(r, top) THEN map[w] ELSE 0
  BY DEF NewMap
<1>7. \A w \in Wallets : new[w] = 0 \/ new[w] >= Floor
  BY <1>2, <1>4, <1>6
<1>8. \A w \in shield[r] : map[w] # 0 => new[w] # 0
  <2> SUFFICES ASSUME NEW w \in shield[r], map[w] # 0
               PROVE  new[w] # 0
    OBVIOUS
  <2>1. CASE w \in top
    BY <1>1, <1>2, <1>3, <1>6, <2>1, FloorAssumption
  <2>2. CASE w \notin top
    BY <1>3, <1>6, <2>2 DEF Retained, In
  <2> QED
    BY <2>1, <2>2
<1> QED
  BY <1>5, <1>7, <1>8

\* What refresh r replaces the map by.
LEMMA SwapMap ==
    ASSUME ListIInv, NEW r \in Refreshes, Swap(r)
    PROVE  /\ map' \in [Wallets -> Nat]
           /\ work' = [work EXCEPT ![r] = map']
           /\ exposed' = {x \in exposed \cup (copied \ shield[r]) : map'[x] = 0}
           /\ \A w \in Wallets : map'[w] = 0 \/ map'[w] >= Floor
           /\ \A w \in shield[r] : map[w] # 0 => map'[w] # 0
<1>1. PICK c \in SUBSET Wallets : \E s \in ScoresOf(c) : \E top \in Tops(s) :
         LET new == NewMap(r, s, top) IN
            /\ map' = new
            /\ work' = [work EXCEPT ![r] = new]
            /\ exposed' = {x \in exposed \cup (copied \ shield[r]) : new[x] = 0}
  BY DEF Swap
<1>2. PICK s \in ScoresOf(c) : \E top \in Tops(s) :
         LET new == NewMap(r, s, top) IN
            /\ map' = new
            /\ work' = [work EXCEPT ![r] = new]
            /\ exposed' = {x \in exposed \cup (copied \ shield[r]) : new[x] = 0}
  BY <1>1
<1>3. PICK top \in Tops(s) :
         LET new == NewMap(r, s, top) IN
            /\ map' = new
            /\ work' = [work EXCEPT ![r] = new]
            /\ exposed' = {x \in exposed \cup (copied \ shield[r]) : new[x] = 0}
  BY <1>2
<1> QED
  BY <1>3, NewMapKeeps

-----------------------------------------------------------------------------
\* Types

LEMMA InitTyped == ASSUME Init PROVE ListIInv
<1> USE DEF Init, InitList, InitStream, NoScores
<1>1. ListTyped
  BY DEF ListTyped, RefreshPc, Refreshes
<1>2. StreamTyped
  <2>1. 1 \in 1 .. MaxBackoff
    BY BackoffAssumption
  <2>2. "off" \in Conns /\ FALSE \in BOOLEAN
    BY DEF Conns
  <2> QED
    BY <2>1, <2>2 DEF StreamTyped
<1>3. RunTyped
  BY DEF RunTyped, Phases, Stages, NoTrades
<1>4. PositionsProtect /\ RedisMirrors
  BY DEF PositionsProtect, RedisMirrors
<1>5. WriterOwns /\ OwnerHolds
  BY DEF WriterOwns, OwnerHolds, Writing, Refreshes
<1>6. ListedAboveFloor
  BY DEF ListedAboveFloor, Refreshes
<1> QED
  BY <1>1, <1>2, <1>3, <1>4, <1>5, <1>6 DEF ListIInv, WatchTypeOK, ListInv

\* The parts an action leaves alone.
LEMMA QuietTyped ==
    /\ ListTyped /\ UNCHANGED list => ListTyped'
    /\ StreamTyped /\ UNCHANGED stream => StreamTyped'
    /\ RunTyped /\ UNCHANGED <<run, pipe>> => RunTyped'
BY DEF ListTyped, StreamTyped, RunTyped, list, refresh, history, stream, run

\* What may happen to the list.
RefreshMove(r) == Begin(r) \/ RefreshStep(r) \/ Settle(r)

ListMove == \/ \E r \in Refreshes : RefreshMove(r)
            \/ \E w \in Wallets : OpenCopy(w) \/ CloseCopies(w)
            \/ LoseList

\* It keeps the types of the list.
LEMMA ListStepTyped == ASSUME ListIInv, ListMove PROVE ListTyped'
<1> SUFFICES ASSUME NEW r \in Refreshes, NEW w,
                    \/ RefreshMove(r)
                    \/ w \in Wallets /\ (OpenCopy(w) \/ CloseCopies(w))
                    \/ LoseList
             PROVE  ListTyped'
  <2>1. "startup" \in Refreshes
    BY DEF Refreshes
  <2> QED
    BY <2>1 DEF ListMove
<1>0. ListTyped
  BY DEF ListIInv, WatchTypeOK
<1>3. CASE Swap(r)
  <2>1. /\ rpc' = [rpc EXCEPT ![r] = "persist"]
        /\ shield' = [shield EXCEPT ![r] = {}]
        /\ owner' = r /\ stale' = (stale \/ OthersWrite(r))
        /\ zset' = zset /\ copied' = copied
    BY <1>3 DEF Swap
  <2>2. /\ map' \in [Wallets -> Nat]
        /\ work' = [work EXCEPT ![r] = map']
        /\ exposed' \subseteq exposed \cup (copied \ shield[r])
    BY <1>3, SwapMap
  <2>3. stale' \in BOOLEAN
    BY <2>1 DEF OthersWrite
  <2> QED
    BY <1>0, <2>1, <2>2, <2>3 DEF ListTyped, RefreshPc, Writing
<1> USE <1>0 DEF ListTyped, RefreshPc, Writing
<1>1. CASE Begin(r)
  BY <1>1 DEF Begin, history
<1>2. CASE ReadShield(r)
  BY <1>2 DEF ReadShield, history
<1>4. CASE Persist(r)
  BY <1>4 DEF Persist, history
<1>5. CASE Mirror(r)
  BY <1>5 DEF Mirror, Ended, NoScores, NewZset
<1>6. CASE MirrorFails(r)
  BY <1>6 DEF MirrorFails, Ended, NoScores, NewZset
<1>7. CASE RefreshRaises(r)
  BY <1>7 DEF RefreshRaises, Ended, NoScores
<1>8. CASE Settle(r)
  BY <1>8 DEF Settle, Ended, NoScores, history
<1>9. CASE w \in Wallets /\ OpenCopy(w)
  BY <1>9 DEF OpenCopy, refresh
<1>10. CASE w \in Wallets /\ CloseCopies(w)
  BY <1>10 DEF CloseCopies, refresh
<1>11. CASE LoseList
  BY <1>11 DEF LoseList, NoScores
<1> QED
  BY <1>1, <1>2, <1>3, <1>4, <1>5, <1>6, <1>7, <1>8, <1>9, <1>10, <1>11
  DEF RefreshMove, RefreshStep

-----------------------------------------------------------------------------
\* The list

\* A refresh keeps protection, mirror and floor.
LEMMA RefreshKeeps ==
    ASSUME ListIInv, NEW r \in Refreshes, RefreshMove(r)
    PROVE  (ListInv /\ OwnerHolds)'
<1>1. ListTyped /\ ListInv /\ OwnerHolds
  BY DEF ListIInv, WatchTypeOK
<1>2. CASE Swap(r)
  <2>1. /\ rpc' = [rpc EXCEPT ![r] = "persist"]
        /\ owner' = r /\ stale' = (stale \/ OthersWrite(r))
        /\ zset' = zset /\ copied' = copied
    BY <1>2 DEF Swap
  <2>2. /\ map' \in [Wallets -> Nat]
        /\ work' = [work EXCEPT ![r] = map']
        /\ exposed' = {x \in exposed \cup (copied \ shield[r]) : map'[x] = 0}
        /\ \A w \in Wallets : map'[w] = 0 \/ map'[w] >= Floor
        /\ \A w \in shield[r] : map[w] # 0 => map'[w] # 0
    BY <1>2, SwapMap
  <2>3. PositionsProtect'
    BY <1>1, <2>1, <2>2 DEF ListInv, PositionsProtect, ListTyped
  <2>4. rpc'[r] \in Writing
    BY <1>1, <2>1 DEF ListTyped, Writing
  <2>5. RedisMirrors'
    BY <2>4 DEF RedisMirrors
  <2>6. WriterOwns'
    BY <1>1, <2>1, <2>2 DEF ListInv, WriterOwns, ListTyped, OthersWrite
  <2>7. OwnerHolds'
    BY <1>1, <2>1, <2>2 DEF OwnerHolds, ListTyped
  <2>8. ListedAboveFloor'
    BY <1>1, <2>1, <2>2 DEF ListInv, ListedAboveFloor, ListTyped, Refreshes
  <2> QED
    BY <2>3, <2>5, <2>6, <2>7, <2>8 DEF ListInv
<1>3. CASE Begin(r) \/ ReadShield(r) \/ Settle(r) \/ Persist(r)
  <2>1. /\ map' = map /\ zset' = zset /\ copied' = copied /\ exposed' = exposed
        /\ owner' = owner /\ stale' = stale
        /\ rpc' = [rpc EXCEPT ![r] = rpc'[r]]
        /\ rpc'[r] \in Writing <=> rpc[r] \in Writing
        /\ \/ work' = work
           \/ work' = [work EXCEPT ![r] = NoScores] /\ rpc[r] \notin Writing
    BY <1>1, <1>3
    DEF Begin, ReadShield, Settle, Persist, Ended, history, ListTyped, Writing
  <2>2. \A q \in Refreshes : /\ rpc'[q] \in Writing <=> rpc[q] \in Writing
                             /\ rpc[q] \in Writing => work'[q] = work[q]
    BY <1>1, <2>1 DEF ListTyped
  <2>3. (PositionsProtect /\ RedisMirrors /\ WriterOwns /\ OwnerHolds)'
    BY <1>1, <2>1, <2>2
    DEF ListInv, PositionsProtect, RedisMirrors, WriterOwns, OwnerHolds, ListTyped
  <2>4. ListedAboveFloor'
    BY <1>1, <2>1 DEF ListInv, ListedAboveFloor, ListTyped, NoScores, Refreshes
  <2> QED
    BY <2>3, <2>4 DEF ListInv
<1>4. CASE Mirror(r) \/ MirrorFails(r) \/ RefreshRaises(r)
  <2>1. /\ map' = map /\ copied' = copied /\ exposed' = exposed /\ owner' = owner
        /\ rpc' = [rpc EXCEPT ![r] = rpc'[r]]
        /\ rpc'[r] \notin Writing
        /\ work' = [work EXCEPT ![r] = NoScores]
        /\ zset' \in {zset, work[r]}
    BY <1>1, <1>4
    DEF Mirror, MirrorFails, RefreshRaises, Ended, NewZset, ListTyped, Writing
  <2>2. \A q \in Refreshes : rpc'[q] \in Writing =>
            rpc[q] \in Writing /\ work'[q] = work[q]
    BY <1>1, <2>1 DEF ListTyped
  <2>3. stale => stale' \/ (Mirror(r) /\ r = owner /\ ~OthersWrite(r))
    BY <1>4 DEF Mirror, MirrorFails, RefreshRaises
  <2>4. PositionsProtect' /\ OwnerHolds'
    BY <1>1, <2>1, <2>2 DEF ListInv, PositionsProtect, OwnerHolds, ListTyped
  <2>5. WriterOwns'
    <3> SUFFICES ASSUME NEW q \in Refreshes, ~stale', rpc'[q] \in Writing
                 PROVE  work'[q] = map'
      BY DEF WriterOwns
    <3>1. q # r /\ rpc[q] \in Writing
      BY <2>1, <2>2
    <3>2. ~stale
      BY <2>3, <3>1 DEF OthersWrite
    <3> QED
      BY <1>1, <2>1, <2>2, <3>1, <3>2 DEF ListInv, WriterOwns
  <2>6. RedisMirrors'
    <3> SUFFICES ASSUME ~stale', \A q \in Refreshes : rpc'[q] \notin Writing
                 PROVE  zset' = map'
      BY DEF RedisMirrors
    <3>1. CASE Mirror(r)
      <4>1. rpc[r] \in Writing /\ zset' = work[r]
        BY <3>1 DEF Mirror, Writing, NewZset
      <4>2. CASE stale
        BY <1>1, <2>1, <2>3, <4>1, <4>2 DEF OwnerHolds
      <4>3. CASE ~stale
        BY <1>1, <2>1, <4>1, <4>3 DEF ListInv, WriterOwns
      <4> QED
        BY <4>2, <4>3
    <3>2. CASE RefreshRaises(r)
      <4>1. ~stale /\ rpc[r] \notin Writing /\ zset' = zset
        BY <3>2 DEF RefreshRaises, Writing
      <4>2. \A q \in Refreshes : rpc[q] \notin Writing
        BY <1>1, <2>1, <4>1 DEF ListTyped
      <4> QED
        BY <1>1, <2>1, <4>1, <4>2 DEF ListInv, RedisMirrors
    <3>3. CASE MirrorFails(r)
      BY <3>3 DEF MirrorFails
    <3> QED
      BY <1>4, <3>1, <3>2, <3>3
  <2>7. ListedAboveFloor'
    BY <1>1, <2>1 DEF ListInv, ListedAboveFloor, ListTyped, NoScores, Refreshes
  <2> QED
    BY <2>4, <2>5, <2>6, <2>7 DEF ListInv
<1> QED
  BY <1>2, <1>3, <1>4 DEF RefreshMove, RefreshStep

LEMMA ListKeeps ==
    ASSUME ListIInv, ListMove
    PROVE  (ListInv /\ OwnerHolds)'
<1>1. ListTyped /\ ListInv /\ OwnerHolds
  BY DEF ListIInv, WatchTypeOK
<1>2. ASSUME NEW w \in Wallets, OpenCopy(w) \/ CloseCopies(w)
      PROVE  (ListInv /\ OwnerHolds)'
  <2>1. /\ map' = map /\ zset' = zset /\ rpc' = rpc /\ work' = work
        /\ owner' = owner /\ stale' = stale
    BY <1>2 DEF OpenCopy, CloseCopies, refresh
  <2>2. PositionsProtect'
    BY <1>1, <1>2, <2>1 DEF OpenCopy, CloseCopies, ListInv, PositionsProtect, ListTyped
  <2> QED
    BY <1>1, <2>1, <2>2
    DEF ListInv, OwnerHolds, RedisMirrors, WriterOwns, ListedAboveFloor
<1>3. CASE LoseList
  <2>1. /\ map' = NoScores /\ zset' = zset /\ stale' = TRUE /\ copied' = copied
        /\ exposed' = copied /\ owner' = owner
        /\ rpc' = [r \in Refreshes |-> "idle"]
        /\ work' = [r \in Refreshes |-> NoScores]
    BY <1>3 DEF LoseList
  <2>2. (PositionsProtect /\ RedisMirrors /\ WriterOwns /\ OwnerHolds)'
    BY <1>1, <2>1
    DEF PositionsProtect, RedisMirrors, WriterOwns, OwnerHolds, Writing, ListTyped
  <2>3. ListedAboveFloor'
    BY <1>1, <2>1 DEF ListInv, ListedAboveFloor, NoScores, Refreshes
  <2> QED
    BY <2>2, <2>3 DEF ListInv
<1> QED
  BY <1>2, <1>3, RefreshKeeps DEF ListMove

\* Every step of the bot either leaves the list alone or is one of its moves.
LEMMA StepsMoveList == ASSUME [Next]_vars PROVE UNCHANGED list \/ ListMove
<1>1. CASE Boot \/ NightlyBegins \/ NightlyFails
  <2>1. "startup" \in Refreshes /\ "nightly" \in Refreshes
    BY DEF Refreshes
  <2> QED
    BY <1>1, <2>1 DEF Boot, NightlyBegins, NightlyFails, ListMove, RefreshMove
<1>2. CASE Wire \/ Fatal \/ Stop \/ Signal \/ Cancel \/ Streaming \/ BadMessage
  BY <1>2 DEF Wire, Fatal, Stop, Signal, Cancel, Streaming, BadMessage
<1>3. CASE Exit \/ Crash
  BY <1>3 DEF Exit, Crash, ProcessEnds, ListMove
<1>4. ASSUME NEW r \in Refreshes, Refreshing(r)
      PROVE  ListMove
  BY <1>4 DEF Refreshing, ListMove, RefreshMove
<1>5. ASSUME NEW w \in Wallets, Receive(w) \/ Pipeline(w) \/ Closed(w)
      PROVE  UNCHANGED list \/ ListMove
  BY <1>5 DEF Receive, Pipeline, LookUp, AskRedis, Rejected, Placed, Closed, ListMove
<1>6. CASE UNCHANGED vars
  BY <1>6 DEF vars
<1> QED
  BY <1>1, <1>2, <1>3, <1>4, <1>5, <1>6 DEF Next

-----------------------------------------------------------------------------
\* The stream and run()

\* A step of the stream's task keeps its types.
LEMMA StreamStepTyped ==
    ASSUME StreamTyped,
           StreamStep \/ Malformed \/ StartStream \/ (UNCHANGED shutdown /\ CancelStream)
    PROVE  StreamTyped'
<1> USE BackoffAssumption
    DEF StreamTyped, Conns, Alive, LoopTop, AfterConnection
<1>1. CASE Connect
  BY <1>1 DEF Connect
<1>2. CASE Subscribe \/ Drop \/ Notice \/ Malformed
  BY <1>2 DEF Subscribe, Drop, Notice, Malformed
<1>3. CASE WaitOver
  <2>1. NextBackoff(backoff) \in 1 .. MaxBackoff
    BY DEF NextBackoff
  <2> QED
    BY <1>3, <2>1 DEF WaitOver
<1>4. CASE StartStream
  BY <1>4 DEF StartStream
<1>5. CASE UNCHANGED shutdown /\ CancelStream
  BY <1>5 DEF CancelStream
<1> QED
  BY <1>1, <1>2, <1>3, <1>4, <1>5 DEF StreamStep

\* Every step keeps the types of the stream.
LEMMA StreamKeepsTypes == ASSUME StreamTyped, [Next]_vars PROVE StreamTyped'
<1>1. CASE Boot \/ NightlyBegins \/ NightlyFails \/ UNCHANGED vars
  BY <1>1, QuietTyped DEF Boot, NightlyBegins, NightlyFails, vars
<1>2. CASE Wire
  <2>1. CASE StartStream
    BY <2>1, StreamStepTyped
  <2>2. CASE conn' = "ended" /\ UNCHANGED <<backoff, shutdown>>
    BY <2>2 DEF StreamTyped, Conns
  <2> QED
    BY <1>2, <2>1, <2>2 DEF Wire
<1>3. CASE Cancel
  BY <1>3, StreamStepTyped DEF Cancel
<1>4. CASE Fatal \/ Stop \/ Signal
  BY <1>4 DEF Fatal, Stop, Shutdown, Signal, StreamTyped
<1>5. CASE Exit \/ Crash
  <2>1. conn' = "off" /\ backoff' = 1 /\ shutdown' = FALSE
    BY <1>5 DEF Exit, Crash, ProcessEnds
  <2>2. 1 \in 1 .. MaxBackoff
    BY BackoffAssumption
  <2> QED
    BY <2>1, <2>2 DEF StreamTyped, Conns
<1>6. CASE Streaming \/ BadMessage
  BY <1>6, StreamStepTyped DEF Streaming, BadMessage
<1>7. ASSUME NEW r \in Refreshes, Refreshing(r)
      PROVE  StreamTyped'
  BY <1>7, QuietTyped DEF Refreshing
<1>8. ASSUME NEW w \in Wallets, Receive(w) \/ Pipeline(w) \/ Closed(w)
      PROVE  StreamTyped'
  BY <1>8, QuietTyped
  DEF Receive, Pipeline, LookUp, AskRedis, Rejected, Placed, Closed
<1> QED
  BY <1>1, <1>2, <1>3, <1>4, <1>5, <1>6, <1>7, <1>8 DEF Next

\* Every step keeps the types of run() and its pipelines.
LEMMA RunKeepsTypes == ASSUME WatchTypeOK, [Next]_vars PROVE RunTyped'
<1> USE DEF RunTyped, Phases, Stages
<1>0. RunTyped /\ ListTyped
  BY DEF WatchTypeOK
<1>1. CASE Boot \/ Fatal \/ Stop \/ Cancel \/ Exit \/ Crash
  BY <1>0, <1>1 DEF Boot, Fatal, Stop, Shutdown, Cancel, Exit, Crash, ProcessEnds, NoTrades
<1>2. CASE Wire
  <2>1. following' \subseteq Wallets
    BY <1>0, <1>2 DEF Wire, Listed, In
  <2>2. phase' = "running" /\ sim' = sim /\ pipe' = pipe
    BY <1>2 DEF Wire
  <2> QED
    BY <1>0, <2>1, <2>2
<1>3. CASE Signal \/ Streaming \/ BadMessage \/ NightlyBegins \/ NightlyFails
           \/ UNCHANGED vars
  BY <1>0, <1>3
  DEF Signal, Streaming, BadMessage, NightlyBegins, NightlyFails, run, vars
<1>4. ASSUME NEW r \in Refreshes, Refreshing(r)
      PROVE  RunTyped'
  BY <1>0, <1>4 DEF Refreshing, run
<1>5. ASSUME NEW w \in Wallets, Receive(w) \/ Pipeline(w) \/ Closed(w)
      PROVE  RunTyped'
  BY <1>0, <1>5
  DEF Receive, Pipeline, LookUp, AskRedis, Rejected, Placed, Closed, At, run
<1> QED
  BY <1>1, <1>2, <1>3, <1>4, <1>5 DEF Next

\* Every step keeps the stream running while run() waits.
LEMMA StreamKeeps == ASSUME WatchTypeOK, StreamKept, [Next]_vars PROVE StreamKept'
<1> USE DEF StreamKept
<1>1. CASE Boot
  BY <1>1 DEF Boot
<1>2. CASE Wire
  BY <1>2 DEF Wire, StartStream, LoopTop, Alive
<1>3. CASE Fatal \/ Stop \/ Cancel
  BY <1>3 DEF Fatal, Stop, Shutdown, Cancel
<1>4. CASE Signal
  BY <1>4 DEF Signal, run
<1>5. CASE Exit \/ Crash
  BY <1>5 DEF Exit, Crash, ProcessEnds
<1>6. CASE Streaming \/ BadMessage
  <2>1. /\ conn \in Alive
        /\ ~shutdown => conn' \in Alive \cup {"died"}
        /\ shutdown' = shutdown
    BY <1>6
    DEF Streaming, BadMessage, StreamStep, Connect, Subscribe, Drop, Notice, Malformed,
        WaitOver, Alive, LoopTop, AfterConnection
  <2>2. phase' = phase
    BY <1>6 DEF Streaming, BadMessage, run
  <2> QED
    BY <2>1, <2>2
<1>7. CASE NightlyBegins \/ NightlyFails \/ UNCHANGED vars
  BY <1>7 DEF NightlyBegins, NightlyFails, vars, stream, run
<1>8. ASSUME NEW r \in Refreshes, Refreshing(r)
      PROVE  StreamKept'
  BY <1>8 DEF Refreshing, stream, run
<1>9. ASSUME NEW w \in Wallets, Receive(w) \/ Pipeline(w) \/ Closed(w)
      PROVE  StreamKept'
  BY <1>9
  DEF Receive, Pipeline, LookUp, AskRedis, Rejected, Placed, Closed, stream, run
<1> QED
  BY <1>1, <1>2, <1>3, <1>4, <1>5, <1>6, <1>7, <1>8, <1>9 DEF Next

-----------------------------------------------------------------------------
\* Theorems

\* The inductive invariant: types, list, and the owner of the map.
LEMMA ListInductive == Spec => []ListIInv
<1>1. ASSUME ListIInv, [Next]_vars
      PROVE  ListIInv'
  <2>1. CASE UNCHANGED list
    <3>1. ListTyped'
      BY <1>1, <2>1, QuietTyped DEF ListIInv, WatchTypeOK
    <3>2. (ListInv /\ OwnerHolds)'
      BY <1>1, <2>1
      DEF ListIInv, ListInv, PositionsProtect, RedisMirrors, WriterOwns, ListedAboveFloor,
          OwnerHolds, list, refresh, history
    <3> QED
      BY <1>1, <3>1, <3>2, StreamKeepsTypes, RunKeepsTypes DEF ListIInv, WatchTypeOK
  <2>2. CASE ListMove
    <3>1. ListTyped' /\ (ListInv /\ OwnerHolds)'
      BY <1>1, <2>2, ListStepTyped, ListKeeps
    <3> QED
      BY <1>1, <3>1, StreamKeepsTypes, RunKeepsTypes DEF ListIInv, WatchTypeOK
  <2> QED
    BY <1>1, <2>1, <2>2, StepsMoveList
<1> QED
  BY InitTyped, <1>1, PTL DEF Spec

\* Types; the wait between two attempts to connect stays within its bound, and an
\* unprotected wallet is one that has an open position.
THEOREM WatchTypeCorrect == Spec => []WatchTypeOK
BY ListInductive, PTL DEF ListIInv

\* refresh_whitelist keeps wallets with open positions that were listed, Redis follows
\* the map, and nobody below the floor is listed, for any two overlapping refreshes.
THEOREM ListHolds == Spec => []ListInv
BY ListInductive, PTL DEF ListIInv

\* stream_trades stays in its loop for as long as run() waits and nothing asked it to
\* leave, whatever the connection does, but for the two ends nobody repairs.
THEOREM StreamHolds == Spec => []StreamKept
<1>1. Init => StreamKept
  BY DEF Init, InitStream, StreamKept
<1>2. WatchTypeOK /\ StreamKept /\ [Next]_vars => StreamKept'
  BY StreamKeeps
<1> QED
  BY <1>1, <1>2, WatchTypeCorrect, PTL DEF Spec

\* get_whale_score lets a trade of an evicted wallet pass only while Redis is behind.
THEOREM EvictedRejected == Spec => EvictedNotCopied
<1> DEFINE A == \A w \in Wallets :
                   (pipe[w] # "pass" /\ pipe'[w] = "pass" /\ map[w] = 0)
                      => (stale \/ \E r \in Refreshes : rpc[r] \in Writing)
<1>1. ASSUME ListIInv, [Next]_vars
      PROVE  [A]_vars
  <2> SUFFICES ASSUME NEW w \in Wallets,
                      pipe[w] # "pass", pipe'[w] = "pass", map[w] = 0, Next
               PROVE  stale \/ \E r \in Refreshes : rpc[r] \in Writing
    BY <1>1
  <2>1. pipe \in [Wallets -> Stages] /\ ListInv
    BY <1>1 DEF ListIInv, WatchTypeOK, RunTyped
  <2>2. pipe' # pipe /\ pipe' # NoTrades
    BY DEF NoTrades
  <2>3. PICK v \in Wallets : Receive(v) \/ Pipeline(v) \/ Closed(v)
    BY <2>2
    DEF Next, Boot, Wire, Fatal, Stop, Shutdown, Signal, Cancel, Exit, Crash, ProcessEnds,
        NightlyBegins, NightlyFails, Refreshing, Streaming, BadMessage
  <2>4. v = w /\ (LookUp(w) \/ AskRedis(w))
    BY <2>1, <2>3
    DEF Receive, Pipeline, LookUp, AskRedis, Rejected, Placed, Closed, At
  <2>5. AskRedis(w) /\ zset[w] >= Floor
    BY <2>1, <2>4 DEF LookUp, AskRedis, At, Enough
  <2>6. zset # map
    BY <2>5, FloorAssumption
  <2> QED
    BY <2>1, <2>6 DEF ListInv, RedisMirrors
<1>2. Spec => [][A]_vars
  BY <1>1, ListInductive, PTL DEF Spec
<1> QED
  BY <1>2 DEF EvictedNotCopied
=============================================================================
