---------------------------- MODULE RecordProofs ----------------------------
(***************************************************************************)
(* The report of TrackRecord means what RecordTruth says, whatever the     *)
(* positions, the jobs, the results and the number of closes.              *)
(***************************************************************************)
EXTENDS RecordTruth, DollarSums

USE StartAssumption, ResultAssumption, BoundsAssumption

LEMMA RecordStart == Init => RecordInv
<1> SUFFICES ASSUME Init PROVE RecordInv
  OBVIOUS
<1> USE DEF Init
<1>1. Open = {} /\ Closed = {} /\ IsFiniteSet({})
  BY FS_EmptySet DEF Open, Closed, Having, NoRow
<1>2. RecordTypeOK
  BY <1>1 DEF RecordTypeOK, NoRow, NoVerdict
<1>3. RowsInv
  BY <1>1 DEF RowsInv, NoRow
<1>4. VerdictInv
  BY DEF VerdictInv
<1> QED BY <1>2, <1>3, <1>4 DEF RecordInv

RowsStay == \A p \in Positions : /\ row'[p].status = row[p].status
                                 /\ row'[p].at = row[p].at
                                 /\ row'[p].realised = row[p].realised

\* A mark leaves all but the unrealised P&L.
LEMMA MarkLeaves ==
  ASSUME RecordTypeOK, NEW j \in Jobs, NEW p \in Positions, NEW u \in Marks, MarkRow(j, p, u)
  PROVE  /\ row' \in [Positions -> [status : {"none", "open", "closed"},
                                    realised : Results \cup {0},
                                    unrealised : Marks \cup {0}, at : 0 .. MaxClock]]
         /\ RowsStay
  BY DEF RecordTypeOK, MarkRow, RowsStay

LEMMA MarkedRows ==
  ASSUME RecordTypeOK, RowsInv, RowsStay
  PROVE  Open' = Open /\ Closed' = Closed
  BY DEF RowsStay, Open, Closed, Having

LEMMA RecordStep == RecordInv /\ [Next]_vars => RecordInv'
<1> SUFFICES ASSUME RecordInv, [Next]_vars PROVE RecordInv'
  OBVIOUS
<1> USE DEF RecordInv
<1>1. ASSUME NEW p \in Positions, OpenRow(p) PROVE RecordInv'
  <2>1. /\ row' \in [Positions -> [status : {"none", "open", "closed"},
                                   realised : Results \cup {0},
                                   unrealised : Marks \cup {0}, at : 0 .. MaxClock]]
        /\ Closed' = Closed /\ Open' = Open \cup {p} /\ p \notin Closed
        /\ \A q \in Positions : row'[q].at = row[q].at
    <3>1. row' = [row EXCEPT ![p].status = "open"] /\ row[p].status = "none"
      BY <1>1 DEF OpenRow
    <3>2. row' \in [Positions -> [status : {"none", "open", "closed"},
                                  realised : Results \cup {0},
                                  unrealised : Marks \cup {0}, at : 0 .. MaxClock]]
      BY <3>1 DEF RecordTypeOK
    <3>3. /\ \A q \in Positions \ {p} : row'[q] = row[q]
          /\ row'[p].status = "open" /\ row'[p].at = row[p].at
      BY <3>1 DEF RecordTypeOK
    <3> QED BY <3>1, <3>2, <3>3 DEF Open, Closed, Having
  <2>2. RecordTypeOK'
    BY <1>1, <2>1 DEF OpenRow, RecordTypeOK, Closed, Having
  <2>3. IsFiniteSet((Open \cup Closed) \cup {p})
    BY FS_AddElement DEF RowsInv
  <2>4. (Open \cup Closed)' = (Open \cup Closed) \cup {p}
    BY <2>1
  <2>5. RowsInv'
    BY <1>1, <2>1, <2>3, <2>4 DEF RowsInv, OpenRow
  <2>6. VerdictInv'
    BY <1>1, <2>1 DEF VerdictInv, OpenRow, Closed, Having
  <2> QED BY <2>2, <2>5, <2>6
<1>2. ASSUME NEW j \in Jobs, Snapshot(j) PROVE RecordInv'
  <2>1. Open' = Open /\ Closed' = Closed /\ Open \subseteq Positions
    BY <1>2 DEF Snapshot, Open, Closed, Having
  <2>2. RecordTypeOK'
    BY <1>2, <2>1 DEF Snapshot, RecordTypeOK
  <2> QED BY <1>2, <2>1, <2>2 DEF Snapshot, RowsInv, VerdictInv
<1>7. ASSUME NEW j \in Jobs, Keep(j) \/ \E p \in Positions : Pass(j, p) PROVE RecordInv'
  <2>1. /\ UNCHANGED <<row, verdict, clock>>
        /\ Open' = Open /\ Closed' = Closed
    BY <1>7 DEF Keep, Pass, Open, Closed, Having
  <2>2. todo' \in [Jobs -> SUBSET Positions] /\ marked' \in [Jobs -> SUBSET Positions]
    BY <1>7 DEF Keep, Pass, RecordTypeOK
  <2>3. RecordTypeOK'
    BY <2>1, <2>2 DEF RecordTypeOK
  <2> QED BY <2>1, <2>3 DEF RowsInv, VerdictInv
<1>3. ASSUME NEW j \in Jobs, NEW p \in Positions, Mark(j, p) PROVE RecordInv'
  <2>1. /\ row' \in [Positions -> [status : {"none", "open", "closed"},
                                   realised : Results \cup {0},
                                   unrealised : Marks \cup {0}, at : 0 .. MaxClock]]
        /\ RowsStay
    BY <1>3, MarkLeaves DEF Mark
  <2>2. Open' = Open /\ Closed' = Closed
    BY <2>1, MarkedRows
  <2>3. RecordTypeOK'
    BY <1>3, <2>1, <2>2 DEF Mark, RecordTypeOK, RowsStay, Closed, Having
  <2>4. RowsInv'
    BY <1>3, <2>1, <2>2 DEF Mark, RowsInv, RowsStay
  <2>5. VerdictInv'
    BY <1>3, <2>1, <2>2 DEF Mark, VerdictInv, RowsStay, Closed, Having
  <2> QED BY <2>3, <2>4, <2>5
<1>4. ASSUME NEW j \in Jobs, NEW p \in Positions, Decide(j, p) PROVE RecordInv'
  <2>1. /\ row' \in [Positions -> [status : {"none", "open", "closed"},
                                   realised : Results \cup {0},
                                   unrealised : Marks \cup {0}, at : 0 .. MaxClock]]
        /\ RowsStay
    BY <1>4 DEF Decide, RecordTypeOK, RowsStay
  <2>2. Open' = Open /\ Closed' = Closed
    BY <2>1, MarkedRows
  <2>3. clock \in Nat /\ clock' = clock + 1 /\ clock' \in 0 .. MaxClock
    BY <1>4 DEF Decide, RecordTypeOK
  <2>4. PICK r \in Results :
           verdict' = [verdict EXCEPT ![j] = [pos |-> {p}, realised |-> r, at |-> clock + 1]]
    BY <1>4 DEF Decide, Time
  <2>5. RecordTypeOK'
    <3>1. verdict' \in [Jobs -> [pos : SUBSET Positions, realised : Results \cup {0},
                                 at : 0 .. MaxClock]]
      BY <2>3, <2>4 DEF RecordTypeOK
    <3>2. todo' \in [Jobs -> SUBSET Positions] /\ marked' \in [Jobs -> SUBSET Positions]
      BY <1>4 DEF Decide, RecordTypeOK
    <3> QED BY <2>1, <2>2, <2>3, <3>1, <3>2 DEF RecordTypeOK, RowsStay, Closed, Having
  <2>6. RowsInv'
    BY <2>1, <2>2, <2>3 DEF RowsInv, RowsStay
  <2>7. VerdictInv'
    <3> SUFFICES ASSUME NEW i \in Jobs, verdict'[i] # NoVerdict
                 PROVE  /\ \E q \in Positions : verdict'[i].pos = {q}
                        /\ verdict'[i].at \in 1 .. clock'
                        /\ \A q \in Closed : row[q].at # verdict'[i].at
                        /\ \A k \in Jobs \ {i} : verdict'[k].at # verdict'[i].at
      BY <2>1, <2>2 DEF VerdictInv, RowsStay, Closed, Having
    <3>1. \A k \in Jobs \ {j} : verdict'[k] = verdict[k]
      BY <2>4 DEF RecordTypeOK
    <3>2. verdict'[j] = [pos |-> {p}, realised |-> r, at |-> clock + 1]
      BY <2>4 DEF RecordTypeOK
    <3>3. \A k \in Jobs : verdict[k].at \in 0 .. clock
      BY <2>3 DEF RecordTypeOK, VerdictInv, NoVerdict
    <3>4. \A q \in Closed : row[q].at \in 1 .. clock
      BY DEF RowsInv, Closed, Having
    <3>5. CASE i = j
      BY <2>3, <3>1, <3>2, <3>3, <3>4, <3>5
    <3>6. CASE i # j
      BY <2>3, <3>1, <3>2, <3>3, <3>6 DEF VerdictInv
    <3> QED BY <3>5, <3>6
  <2> QED BY <2>5, <2>6, <2>7
<1>5. ASSUME NEW j \in Jobs, Commit(j) PROVE RecordInv'
  <2>1. PICK p \in Positions : verdict[j].pos = {p}
    BY <1>5 DEF Commit, VerdictInv
  <2>2. /\ verdict[j] # NoVerdict /\ UNCHANGED <<clock, todo, marked>>
        /\ verdict' = [verdict EXCEPT ![j] = NoVerdict]
    BY <1>5 DEF Commit
  <2>3. /\ verdict' \in [Jobs -> [pos : SUBSET Positions, realised : Results \cup {0},
                                  at : 0 .. MaxClock]]
        /\ verdict'[j] = NoVerdict
        /\ \A k \in Jobs \ {j} : verdict'[k] = verdict[k]
    BY <2>2 DEF RecordTypeOK, NoVerdict
  <2>4. verdict[j].at \in 1 .. clock /\ \A q \in Closed : row[q].at # verdict[j].at
    BY <2>2 DEF VerdictInv
  <2>5. CASE UNCHANGED row
    <3>1. Open' = Open /\ Closed' = Closed
      BY <2>5 DEF Open, Closed, Having
    <3>2. RecordTypeOK'
      BY <2>2, <2>3, <2>5, <3>1 DEF RecordTypeOK
    <3>3. RowsInv'
      BY <2>2, <2>5, <3>1 DEF RowsInv
    <3>4. VerdictInv'
      <4> SUFFICES ASSUME NEW i \in Jobs, verdict'[i] # NoVerdict
                   PROVE  /\ \E q \in Positions : verdict'[i].pos = {q}
                          /\ verdict'[i].at \in 1 .. clock
                          /\ \A q \in Closed : row[q].at # verdict'[i].at
                          /\ \A k \in Jobs \ {i} : verdict'[k].at # verdict'[i].at
        BY <2>2, <2>5, <3>1 DEF VerdictInv
      <4>1. i # j /\ verdict'[i] = verdict[i]
        BY <2>2, <2>3 DEF VerdictInv
      <4>2. \A k \in Jobs \ {i} : verdict'[k] = NoVerdict \/ verdict'[k] = verdict[k]
        BY <2>3
      <4> QED BY <4>1, <4>2 DEF VerdictInv, NoVerdict
    <3> QED BY <3>2, <3>3, <3>4
  <2>6. CASE row' = [q \in Positions |->
                      IF q \in verdict[j].pos
                      THEN [status |-> "closed", realised |-> verdict[j].realised,
                            unrealised |-> 0, at |-> verdict[j].at]
                      ELSE row[q]]
    <3>1. /\ \A q \in Positions \ {p} : row'[q] = row[q]
          /\ row'[p] = [status |-> "closed", realised |-> verdict[j].realised,
                        unrealised |-> 0, at |-> verdict[j].at]
          /\ row' \in [Positions -> [status : {"none", "open", "closed"},
                                     realised : Results \cup {0},
                                     unrealised : Marks \cup {0}, at : 0 .. MaxClock]]
      BY <2>1, <2>6 DEF RecordTypeOK
    <3>2. Closed' = Closed \cup {p} /\ Open' = Open \ {p}
      BY <3>1 DEF Open, Closed, Having
    <3>3. RecordTypeOK'
      <4>1. \A q, s \in Closed' : row'[q].at = row'[s].at => q = s
        <5> SUFFICES ASSUME NEW q \in Closed', NEW s \in Closed', row'[q].at = row'[s].at
                     PROVE  q = s
          OBVIOUS
        <5>1. \A x \in Closed' \ {p} : x \in Closed /\ row'[x] = row[x] /\ row'[x].at # row'[p].at
          BY <2>4, <3>1, <3>2 DEF Closed, Having
        <5>2. CASE q = p \/ s = p
          BY <5>1, <5>2
        <5>3. CASE q # p /\ s # p
          BY <5>1, <5>3 DEF RecordTypeOK
        <5> QED BY <5>2, <5>3
      <4> QED BY <2>2, <2>3, <3>1, <4>1 DEF RecordTypeOK
    <3>4. RowsInv'
      <4>1. IsFiniteSet((Open \cup Closed) \cup {p})
        BY FS_AddElement DEF RowsInv
      <4>2. (Open \cup Closed)' = (Open \cup Closed) \cup {p}
        BY <3>2
      <4>3. \A q \in Positions : IF q \in Closed' THEN row'[q].at \in 1 .. clock
                                                  ELSE row'[q].at = 0
        <5> SUFFICES ASSUME NEW q \in Positions
                     PROVE  IF q \in Closed' THEN row'[q].at \in 1 .. clock
                                             ELSE row'[q].at = 0
          OBVIOUS
        <5>1. CASE q = p
          BY <2>4, <3>1, <3>2, <5>1
        <5>2. CASE q # p
          BY <3>1, <3>2, <5>2 DEF RowsInv
        <5> QED BY <5>1, <5>2
      <4> QED BY <2>2, <4>1, <4>2, <4>3 DEF RowsInv
    <3>5. VerdictInv'
      <4> SUFFICES ASSUME NEW i \in Jobs, verdict'[i] # NoVerdict
                   PROVE  /\ \E q \in Positions : verdict'[i].pos = {q}
                          /\ verdict'[i].at \in 1 .. clock
                          /\ \A q \in Closed' : row'[q].at # verdict'[i].at
                          /\ \A k \in Jobs \ {i} : verdict'[k].at # verdict'[i].at
        BY <2>2 DEF VerdictInv
      <4>1. i # j /\ verdict'[i] = verdict[i] /\ verdict[i].at # verdict[j].at
        BY <2>2, <2>3 DEF VerdictInv
      <4>2. \A k \in Jobs \ {i} : verdict'[k] = NoVerdict \/ verdict'[k] = verdict[k]
        BY <2>3
      <4>3. \A q \in Closed' : \/ row'[q].at = verdict[j].at
                               \/ q \in Closed /\ row'[q] = row[q]
        BY <3>1, <3>2 DEF Closed, Having
      <4> QED BY <4>1, <4>2, <4>3 DEF VerdictInv, NoVerdict
    <3> QED BY <3>3, <3>4, <3>5
  <2> QED BY <1>5, <2>5, <2>6 DEF Commit
<1>6. CASE UNCHANGED vars
  BY <1>6 DEF vars, RecordTypeOK, RowsInv, VerdictInv, Open, Closed, Having
<1> QED BY <1>1, <1>2, <1>3, <1>4, <1>5, <1>6, <1>7 DEF Next

LEMMA RecordInductive == Spec => []RecordInv
  BY RecordStart, RecordStep, PTL DEF Spec

\* Each row and each close a job has decided keeps its type, and no two closes
\* have the same time, though two jobs decide them and commit in any order.
THEOREM RecordTyped == Spec => []RecordTypeOK
<1>1. RecordInv => RecordTypeOK
  BY DEF RecordInv
<1> QED BY <1>1, RecordInductive, PTL
-----------------------------------------------------------------------------
(* Sorting                                                                 *)

InOrderOf(key, s) == \A i, j \in DOMAIN s : i < j => key[s[i]] <= key[s[j]]

\* A finite set that is not empty has an element of the highest key.
LEMMA HighestExists ==
  ASSUME NEW S, IsFiniteSet(S), S # {}, NEW key, \A x \in S : key[x] \in Int
  PROVE  \E m \in S : \A x \in S : key[x] <= key[m]
<1> DEFINE Has(Q) == \E m \in Q : \A x \in Q : key[x] <= key[m]
           T == {n \in Nat : \E Q \in SUBSET S : Q # {} /\ Cardinality(Q) = n /\ ~Has(Q)}
<1>1. ASSUME NEW Q \in SUBSET S, NEW y \in Q, Q \ {y} = {} \/ Has(Q \ {y}) PROVE Has(Q)
  <2>1. CASE Q \ {y} = {}
    BY <2>1
  <2>2. CASE Has(Q \ {y})
    <3>1. PICK m \in Q \ {y} : \A x \in Q \ {y} : key[x] <= key[m]
      BY <2>2
    <3>2. CASE key[m] <= key[y]
      BY <3>1, <3>2
    <3>3. CASE ~(key[m] <= key[y])
      BY <3>1, <3>3
    <3> QED BY <3>2, <3>3
  <2> QED BY <1>1, <2>1, <2>2
<1> HIDE DEF Has
<1>2. T = {}
  <2> SUFFICES ASSUME T # {} PROVE FALSE
    OBVIOUS
  <2>1. T \in SUBSET Nat
    OBVIOUS
  <2>2. PICK n \in T : \A m \in T : n <= m
    <3> HIDE DEF T
    <3> QED BY <2>1, LeastOf
  <2>3. PICK Q \in SUBSET S : Q # {} /\ Cardinality(Q) = n /\ ~Has(Q)
    BY <2>2
  <2>4. PICK y : y \in Q
    BY <2>3
  <2>5. IsFiniteSet(Q)
    BY FS_Subset
  <2>6. Cardinality(Q \ {y}) = n - 1 /\ IsFiniteSet(Q \ {y})
    BY <2>3, <2>4, <2>5, FS_RemoveElement
  <2>7. n - 1 \in Nat /\ ~(n <= n - 1)
    BY <2>2, <2>6, FS_CardinalityType
  <2>8. n - 1 \notin T
    BY <2>2, <2>7
  <2>9. Q \ {y} = {} \/ Has(Q \ {y})
    BY <2>6, <2>7, <2>8
  <2> QED BY <1>1, <2>3, <2>4, <2>9
<1>3. Cardinality(S) \in Nat /\ Cardinality(S) \notin T
  BY <1>2, FS_CardinalityType
<1> QED BY <1>3 DEF Has

\* One more element of the highest key goes to the end.
LEMMA SortGrows ==
  ASSUME NEW Q, IsFiniteSet(Q), NEW key, \A x \in Q : key[x] \in Int,
         NEW y \in Q, \A x \in Q : key[x] <= key[y],
         NEW s \in Listings(Q \ {y}), InOrderOf(key, s)
  PROVE  \E r \in Listings(Q) : InOrderOf(key, r)
<1> DEFINE n == Cardinality(Q)
           r == [i \in 1 .. n |-> IF i = n THEN y ELSE s[i]]
<1>1. n \in Nat /\ n # 0
  BY FS_CardinalityType, FS_EmptySet
<1>2. Cardinality(Q \ {y}) = n - 1
  BY FS_RemoveElement
<1> HIDE DEF n
<1>3. /\ s \in [1 .. n - 1 -> Q \ {y}]
      /\ \A i, j \in 1 .. n - 1 : s[i] = s[j] => i = j
      /\ \A x \in Q \ {y} : \E i \in 1 .. n - 1 : s[i] = x
  BY <1>2 DEF Listings, Bijection, Injection, Surjection, IsInjective
<1>4. \A i \in 1 .. n : i = n \/ i \in 1 .. n - 1
  BY <1>1
<1>5. r \in [1 .. n -> Q]
  BY <1>3, <1>4
<1>6. \A i, j \in 1 .. n : r[i] = r[j] => i = j
  BY <1>3, <1>4
<1>7. \A x \in Q : \E i \in 1 .. n : r[i] = x
  <2> SUFFICES ASSUME NEW x \in Q PROVE \E i \in 1 .. n : r[i] = x
    OBVIOUS
  <2>1. CASE x = y
    <3>1. n \in 1 .. n /\ r[n] = y
      BY <1>1
    <3> QED BY <2>1, <3>1
  <2>2. CASE x # y
    <3>1. PICK i \in 1 .. n - 1 : s[i] = x
      BY <1>3, <2>2
    <3>2. i \in 1 .. n /\ i # n
      BY <1>1, <3>1
    <3> QED BY <3>1, <3>2
  <2> QED BY <2>1, <2>2
<1>8. r \in Listings(Q)
  <2>1. r \in Bijection(1 .. n, Q)
    BY <1>5, <1>6, <1>7 DEF Bijection, Injection, Surjection, IsInjective
  <2> QED BY <2>1 DEF Listings, n
<1>9. InOrderOf(key, r)
  <2> SUFFICES ASSUME NEW i \in 1 .. n, NEW j \in 1 .. n, i < j
               PROVE  key[r[i]] <= key[r[j]]
    BY DEF InOrderOf
  <2>1. i \in 1 .. n - 1 /\ r[i] = s[i] /\ s[i] \in Q
    BY <1>1, <1>3
  <2>2. CASE j = n
    BY <2>1, <2>2
  <2>3. CASE j # n
    <3>1. j \in 1 .. n - 1 /\ r[j] = s[j] /\ DOMAIN s = 1 .. n - 1
      BY <1>3, <1>4, <2>3
    <3> QED BY <2>1, <3>1 DEF InOrderOf
  <2> QED BY <2>2, <2>3
<1> QED BY <1>8, <1>9

\* A finite set can be sorted by an integer key.
LEMMA SortExists ==
  ASSUME NEW S, IsFiniteSet(S), NEW key, \A x \in S : key[x] \in Int
  PROVE  \E s \in Listings(S) : InOrderOf(key, s)
<1> DEFINE Has(Q) == \E s \in Listings(Q) : InOrderOf(key, s)
           T == {n \in Nat : \E Q \in SUBSET S : Cardinality(Q) = n /\ ~Has(Q)}
<1>1. ASSUME NEW Q \in SUBSET S, Q = {} PROVE Has(Q)
  <2> DEFINE e == [i \in 1 .. 0 |-> 0]
  <2>1. 1 .. 0 = {} /\ Cardinality(Q) = 0
    BY <1>1, FS_EmptySet
  <2>2. e \in Listings(Q)
    BY <1>1, <2>1 DEF Listings, Bijection, Injection, Surjection, IsInjective
  <2>3. InOrderOf(key, e)
    BY <2>1 DEF InOrderOf
  <2> QED BY <2>2, <2>3
<1>2. ASSUME NEW Q \in SUBSET S, Q # {}, \A y \in Q : Has(Q \ {y}) PROVE Has(Q)
  <2>1. IsFiniteSet(Q) /\ \A x \in Q : key[x] \in Int
    BY FS_Subset
  <2>2. PICK y \in Q : \A x \in Q : key[x] <= key[y]
    BY <1>2, <2>1, HighestExists
  <2>3. PICK s \in Listings(Q \ {y}) : InOrderOf(key, s)
    BY <1>2
  <2> QED BY <2>1, <2>2, <2>3, SortGrows
<1> HIDE DEF Has
<1>3. T = {}
  <2> SUFFICES ASSUME T # {} PROVE FALSE
    OBVIOUS
  <2>1. T \in SUBSET Nat
    OBVIOUS
  <2>2. PICK n \in T : \A m \in T : n <= m
    <3> HIDE DEF T
    <3> QED BY <2>1, LeastOf
  <2>3. PICK Q \in SUBSET S : Cardinality(Q) = n /\ ~Has(Q)
    BY <2>2
  <2>4. Q # {} /\ IsFiniteSet(Q)
    BY <1>1, <2>3, FS_Subset
  <2>5. ASSUME NEW y \in Q PROVE Has(Q \ {y})
    <3>1. Cardinality(Q \ {y}) = n - 1 /\ IsFiniteSet(Q \ {y})
      BY <2>3, <2>4, FS_RemoveElement
    <3>2. n - 1 \in Nat /\ ~(n <= n - 1)
      BY <2>2, <3>1, FS_CardinalityType
    <3>3. n - 1 \notin T
      BY <2>2, <3>2
    <3> QED BY <3>1, <3>2, <3>3
  <2> QED BY <1>2, <2>3, <2>4, <2>5
<1>4. Cardinality(S) \in Nat /\ Cardinality(S) \notin T
  BY <1>3, FS_CardinalityType
<1> QED BY <1>4 DEF Has

\* What Sorted gives: each element once, in the order of the keys.
LEMMA SortedIsSorted ==
  ASSUME NEW S, IsFiniteSet(S), NEW key, \A x \in S : key[x] \in Int
  PROVE  /\ Sorted(key, S) \in [1 .. Cardinality(S) -> S]
         /\ \A i, j \in 1 .. Cardinality(S) :
               /\ Sorted(key, S)[i] = Sorted(key, S)[j] => i = j
               /\ i < j => key[Sorted(key, S)[i]] <= key[Sorted(key, S)[j]]
         /\ \A x \in S : \E i \in 1 .. Cardinality(S) : Sorted(key, S)[i] = x
<1>1. \E s \in Listings(S) : \A i, j \in DOMAIN s : i < j => key[s[i]] <= key[s[j]]
  BY SortExists DEF InOrderOf
<1> DEFINE r == Sorted(key, S)
<1>2. r \in Listings(S) /\ \A i, j \in DOMAIN r : i < j => key[r[i]] <= key[r[j]]
  BY <1>1 DEF Sorted
<1> HIDE DEF r
<1>3. /\ r \in [1 .. Cardinality(S) -> S]
      /\ \A i, j \in 1 .. Cardinality(S) : r[i] = r[j] => i = j
      /\ \A x \in S : \E i \in 1 .. Cardinality(S) : r[i] = x
  BY <1>2 DEF Listings, Bijection, Injection, Surjection, IsInjective
<1> QED BY <1>2, <1>3 DEF r

-----------------------------------------------------------------------------
(* The parts and the totals                                                *)

LEMMA RowTypes ==
  ASSUME RecordInv
  PROVE  /\ Closed \subseteq Positions /\ Open \subseteq Positions /\ Closed \cap Open = {}
         /\ IsFiniteSet(Closed) /\ IsFiniteSet(Open) /\ IsFiniteSet(Closed \cup Open)
         /\ \A p \in Positions : /\ row[p].realised \in Int /\ Realised[p] = row[p].realised
                                 /\ row[p].unrealised \in Int
                                 /\ Unrealised[p] = row[p].unrealised
<1>1. Closed \subseteq Positions /\ Open \subseteq Positions /\ Closed \cap Open = {}
  BY DEF Closed, Open, Having
<1>2. Closed \cup Open = Open \cup Closed /\ IsFiniteSet(Open \cup Closed)
  BY DEF RecordInv, RowsInv
<1>3. IsFiniteSet(Closed) /\ IsFiniteSet(Open)
  BY <1>2, FS_Subset
<1>4. \A p \in Positions : row[p].realised \in Int /\ row[p].unrealised \in Int
  <2>1. \A p \in Positions : /\ row[p].realised \in Results \cup {0}
                             /\ row[p].unrealised \in Marks \cup {0}
    BY DEF RecordInv, RecordTypeOK
  <2>2. Results \cup {0} \subseteq Int /\ Marks \cup {0} \subseteq Int
    BY ResultAssumption
  <2> QED BY <2>1, <2>2
<1> QED BY <1>1, <1>2, <1>3, <1>4 DEF Realised, Unrealised

\* The lines of a breakdown add up, whatever the rows are told apart by.
LEMMA LinesAddUp ==
  ASSUME RecordInv, NEW g
  PROVE  AddUp([k \in {g[p] : p \in Closed} |-> Line({p \in Closed : g[p] = k})])
<1> DEFINE K == {g[p] : p \in Closed}
           Group(k) == {p \in Closed : g[p] = k}
           lines == [k \in K |-> Line(Group(k))]
           trades == [k \in DOMAIN lines |-> lines[k].trades]
           wins   == [k \in DOMAIN lines |-> lines[k].wins]
           pnl    == [k \in DOMAIN lines |-> lines[k].pnl]
           one    == [p \in Closed |-> IF p \in Closed THEN 1 ELSE 0]
           won    == [p \in Closed |-> IF p \in Winners THEN 1 ELSE 0]
<1>1. IsFiniteSet(Closed) /\ \A p \in Closed : Realised[p] \in Int
  BY RowTypes
<1>2. IsFiniteSet(K) /\ \A p \in Closed : g[p] \in K
  <2> DEFINE h == [p \in Closed |-> g[p]]
  <2>1. h \in Surjection(Closed, K)
    BY DEF Surjection
  <2>2. IsFiniteSet(K)
    BY <1>1, <2>1, FS_Surjection
  <2> QED BY <2>2
<1>3. \A k \in K : IsFiniteSet(Group(k)) /\ Group(k) \subseteq Closed
  BY <1>1, FS_Subset
<1>4. DOMAIN lines = K
  OBVIOUS
<1>5. \A k \in K : /\ trades[k] = Cardinality(Group(k))
                   /\ wins[k] = Cardinality(Group(k) \cap Winners)
                   /\ pnl[k] = NetOf(Realised, Group(k))
  BY <1>4 DEF Line
<1> HIDE DEF lines
<1>6. NetOf(trades, K) = Cardinality(Closed)
  <2>1. ASSUME NEW k \in K PROVE trades[k] = NetOf(one, Alike(g, Closed, k))
    <3>1. NetOf(one, Group(k)) = Cardinality(Group(k) \cap Closed)
      <4>1. \A p \in Group(k) : one[p] = IF p \in Closed THEN 1 ELSE 0
        BY <1>3
      <4> HIDE DEF Group, one
      <4> QED BY <1>3, <4>1, NetCounts
    <3>2. Group(k) \cap Closed = Group(k)
      BY <1>3
    <3> QED BY <1>5, <3>1, <3>2 DEF Alike
  <2>2. \A p \in Closed : one[p] \in Int /\ one[p] = IF p \in Closed THEN 1 ELSE 0
    OBVIOUS
  <2> HIDE DEF K, trades, one
  <2>3. NetOf(trades, K) = NetOf(one, Closed)
    BY <1>1, <1>2, <2>1, <2>2, NetGroups
  <2>4. NetOf(one, Closed) = Cardinality(Closed \cap Closed)
    BY <1>1, <2>2, NetCounts
  <2>5. Closed \cap Closed = Closed
    OBVIOUS
  <2> QED BY <2>3, <2>4, <2>5
<1>7. NetOf(wins, K) = Cardinality(Winners)
  <2>1. ASSUME NEW k \in K PROVE wins[k] = NetOf(won, Alike(g, Closed, k))
    <3>1. \A p \in Group(k) : won[p] = IF p \in Winners THEN 1 ELSE 0
      BY <1>3
    <3>2. NetOf(won, Group(k)) = Cardinality(Group(k) \cap Winners)
      <4> HIDE DEF Group, won
      <4> QED BY <1>3, <3>1, NetCounts
    <3> QED BY <1>5, <3>2 DEF Alike
  <2>2. \A p \in Closed : won[p] \in Int /\ won[p] = IF p \in Winners THEN 1 ELSE 0
    OBVIOUS
  <2> HIDE DEF K, wins, won
  <2>3. NetOf(wins, K) = NetOf(won, Closed)
    BY <1>1, <1>2, <2>1, <2>2, NetGroups
  <2>4. NetOf(won, Closed) = Cardinality(Closed \cap Winners)
    BY <1>1, <2>2, NetCounts
  <2>5. Closed \cap Winners = Winners
    BY DEF Winners
  <2> QED BY <2>3, <2>4, <2>5
<1>8. NetOf(pnl, K) = TotalRealised
  <2>1. ASSUME NEW k \in K PROVE pnl[k] = NetOf(Realised, Alike(g, Closed, k))
    <3>1. Alike(g, Closed, k) = Group(k)
      BY DEF Alike
    <3> HIDE DEF pnl, Group
    <3> QED BY <1>5, <3>1
  <2> HIDE DEF K, pnl
  <2>2. NetOf(pnl, K) = NetOf(Realised, Closed)
    BY <1>1, <1>2, <2>1, NetGroups
  <2> QED BY <2>2 DEF TotalRealised
<1>9. AddUp(lines)
  BY <1>4, <1>6, <1>7, <1>8 DEF AddUp
<1> QED BY <1>9 DEF lines

\* The categories add up to what the closed rows made and the open ones would.
LEMMA CategoriesAddUp ==
  ASSUME RecordInv
  PROVE  NetOf(ByCategory, DOMAIN ByCategory) = TotalRealised + TotalUnrealised
<1> DEFINE All == Closed \cup Open
           K == {Category[p] : p \in All}
<1>1. /\ IsFiniteSet(Closed) /\ IsFiniteSet(Open) /\ IsFiniteSet(All) /\ Closed \cap Open = {}
      /\ Closed \subseteq Positions /\ Open \subseteq Positions
  BY RowTypes
<1>2. /\ \A p \in Closed : Counted[p] = Realised[p] /\ Counted[p] \in Int
      /\ \A p \in Open : Counted[p] = Unrealised[p] /\ Counted[p] \in Int
  <2>1. /\ \A p \in Closed : p \in Positions /\ row[p].status = "closed"
        /\ \A p \in Open : p \in Positions /\ row[p].status = "open"
    BY DEF Closed, Open, Having
  <2> QED BY <2>1, RowTypes DEF Counted
<1>3. IsFiniteSet(K) /\ \A p \in All : Category[p] \in K
  <2> DEFINE h == [p \in All |-> Category[p]]
  <2>1. h \in Surjection(All, K)
    BY DEF Surjection
  <2>2. IsFiniteSet(K)
    BY <1>1, <2>1, FS_Surjection
  <2> QED BY <2>2
<1>4. DOMAIN ByCategory = K /\ \A k \in K : ByCategory[k] = NetOf(Counted, Alike(Category, All, k))
  BY DEF ByCategory, Alike
<1>5. NetOf(ByCategory, K) = NetOf(Counted, All)
  <2>1. \A p \in All : Counted[p] \in Int
    BY <1>2
  <2> HIDE DEF All, K
  <2> QED BY <1>1, <1>3, <1>4, <2>1, NetGroups
<1>6. NetOf(Counted, All) = NetOf(Counted, Closed) + NetOf(Counted, Open)
  <2>1. \A p \in Closed \cup Open : Counted[p] \in Int
    BY <1>2
  <2> QED BY <1>1, <2>1, NetUnion
<1>7. NetOf(Counted, Closed) = NetOf(Realised, Closed)
  BY <1>2, NetSame
<1>8. NetOf(Counted, Open) = NetOf(Unrealised, Open)
  BY <1>2, NetSame
<1> QED BY <1>4, <1>5, <1>6, <1>7, <1>8 DEF TotalRealised, TotalUnrealised

\* The wallets listed have earned at least as much as those that are not.
LEMMA TopEarnMost ==
  ASSUME RecordInv, NEW w \in DOMAIN ByWallet \ TopWallets, NEW v \in TopWallets
  PROVE  ByWallet[w].pnl <= ByWallet[v].pnl
<1> DEFINE K == DOMAIN ByWallet
           key == [k \in K |-> -ByWallet[k].pnl]
           ranked == Sorted(key, K)
           N == Cardinality(K)
<1>1. IsFiniteSet(Closed) /\ \A p \in Closed : Realised[p] \in Int
  BY RowTypes
<1>2. K = {Wallet[p] : p \in Closed}
  BY DEF ByWallet
<1>3. IsFiniteSet(K)
  <2> DEFINE h == [p \in Closed |-> Wallet[p]]
  <2>1. h \in Surjection(Closed, K)
    BY <1>2 DEF Surjection
  <2> QED BY <1>1, <2>1, FS_Surjection
<1>4. \A k \in K : ByWallet[k].pnl \in Int
  <2> SUFFICES ASSUME NEW k \in K PROVE ByWallet[k].pnl \in Int
    OBVIOUS
  <2> DEFINE Group == {p \in Closed : Wallet[p] = k}
  <2>1. ByWallet[k].pnl = NetOf(Realised, Group)
    BY <1>2 DEF ByWallet, Line
  <2>2. IsFiniteSet(Group) /\ \A p \in Group : Realised[p] \in Int
    BY <1>1, FS_Subset
  <2> HIDE DEF Group
  <2>3. NetOf(Realised, Group) \in Int
    BY <2>2, NetType
  <2> QED BY <2>1, <2>3
<1>5. \A k \in K : key[k] \in Int /\ key[k] = -ByWallet[k].pnl
  BY <1>4
<1>6. TopWallets = {ranked[i] : i \in {n \in DOMAIN ranked : n <= TopN}}
  BY DEF TopWallets
<1> HIDE DEF K, key
<1>7. /\ ranked \in [1 .. N -> K]
      /\ \A i, j \in 1 .. N : i < j => key[ranked[i]] <= key[ranked[j]]
      /\ \A x \in K : \E i \in 1 .. N : ranked[i] = x
  BY <1>3, <1>5, SortedIsSorted
<1> HIDE DEF ranked
<1>8. N \in Nat
  BY <1>3, FS_CardinalityType
<1> HIDE DEF N
<1>9. PICK n \in 1 .. N : n <= TopN /\ ranked[n] = v
  BY <1>6, <1>7
<1>10. PICK i \in 1 .. N : ranked[i] = w
  BY <1>7 DEF K
<1>11. ~(i <= TopN)
  BY <1>6, <1>7, <1>10
<1>12. n < i
  BY <1>8, <1>9, <1>10, <1>11, BoundsAssumption
<1>13. key[v] <= key[w] /\ v \in K /\ w \in K
  BY <1>7, <1>9, <1>10, <1>12
<1> QED BY <1>4, <1>5, <1>13

\* Every tier and wallet has its closed rows, the categories make up the total
\* P&L, and no wallet left out has earned more than one that is listed,
\* whatever marks and second closes have come late.
THEOREM ReportAgrees == Spec => []BreakdownsAgree
<1>1. ASSUME RecordInv PROVE BreakdownsAgree
  <2>1. Cardinality(Winners) + Cardinality(Losers) = Cardinality(Closed)
    <3>1. Winners \cup Losers = Closed /\ Winners \cap Losers = {}
      <4>1. \A p \in Closed : row[p].realised \in Int
        BY <1>1, RowTypes
      <4> QED BY <4>1 DEF Winners, Losers
    <3>2. IsFiniteSet(Winners) /\ IsFiniteSet(Losers)
      BY <1>1, <3>1, RowTypes, FS_Subset
    <3>3. Cardinality(Closed) = Cardinality(Winners) + Cardinality(Losers)
                                  - Cardinality(Winners \cap Losers)
      BY <3>1, <3>2, FS_Union
    <3>4. /\ Cardinality(Winners \cap Losers) = 0
          /\ Cardinality(Winners) \in Nat /\ Cardinality(Losers) \in Nat
      BY <3>1, <3>2, FS_EmptySet, FS_CardinalityType
    <3> QED BY <3>3, <3>4
  <2>2. AddUp(ByTier)
    BY <1>1, LinesAddUp DEF ByTier
  <2>3. AddUp(ByWallet)
    BY <1>1, LinesAddUp DEF ByWallet
  <2>4. NetOf(ByCategory, DOMAIN ByCategory) = TotalRealised + TotalUnrealised
    BY <1>1, CategoriesAddUp
  <2>5. \A w \in DOMAIN ByWallet \ TopWallets : \A v \in TopWallets :
           ByWallet[w].pnl <= ByWallet[v].pnl
    BY <1>1, TopEarnMost
  <2> QED BY <2>1, <2>2, <2>3, <2>4, <2>5 DEF BreakdownsAgree
<1>2. RecordInv => BreakdownsAgree
  BY <1>1
<1> QED BY <1>2, RecordInductive, PTL
-----------------------------------------------------------------------------
(* Falls, compared by their products                                       *)

Fraction == [by : Nat, of : Nat \ {0}]

LEMMA Scaled ==
  ASSUME NEW a \in Nat, NEW b \in Nat, a <= b, NEW c \in Nat
  PROVE  a * c \in Nat /\ b * c \in Nat /\ a * c <= b * c
<1>1. PICK d \in Nat : b = a + d
  <2>1. b - a \in Nat /\ b = a + (b - a)
    OBVIOUS
  <2> QED BY <2>1
<1>2. b * c = a * c + d * c
  BY <1>1
<1>3. a * c \in Nat /\ b * c \in Nat /\ d * c \in Nat
  OBVIOUS
<1> QED BY <1>2, <1>3

LEMMA Unscaled ==
  ASSUME NEW a \in Nat, NEW b \in Nat, NEW c \in Nat \ {0}, a * c <= b * c
  PROVE  a <= b
<1> SUFFICES ASSUME ~(a <= b) PROVE FALSE
  OBVIOUS
<1>1. b + 1 \in Nat /\ b + 1 <= a /\ c \in Nat
  OBVIOUS
<1>2. (b + 1) * c <= a * c /\ a * c \in Nat /\ b * c \in Nat
  BY <1>1, Scaled
<1>3. (b + 1) * c = b * c + c
  OBVIOUS
<1> QED BY <1>2, <1>3

LEMMA DeeperParts ==
  ASSUME NEW f \in Fraction, NEW g \in Fraction
  PROVE  /\ f.by \in Nat /\ f.of \in Nat \ {0} /\ f.by * g.of \in Nat /\ g.by * f.of \in Nat
         /\ ~Deeper(f, g) <=> f.by * g.of <= g.by * f.of
<1>1. f.by \in Nat /\ f.of \in Nat \ {0} /\ g.by \in Nat /\ g.of \in Nat \ {0}
  BY DEF Fraction
<1>2. f.by * g.of \in Nat /\ g.by * f.of \in Nat
  BY <1>1
<1> QED BY <1>1, <1>2 DEF Deeper

LEMMA DeeperTransitive ==
  ASSUME NEW f \in Fraction, NEW g \in Fraction, NEW h \in Fraction,
         ~Deeper(f, g), ~Deeper(g, h)
  PROVE  ~Deeper(f, h)
<1> DEFINE a == f.by  b == f.of  c == g.by  d == g.of  x == h.by  y == h.of
<1>1. /\ a \in Nat /\ c \in Nat /\ x \in Nat
      /\ b \in Nat \ {0} /\ d \in Nat \ {0} /\ y \in Nat \ {0}
  BY DeeperParts
<1>2. a * d <= c * b /\ c * y <= x * d
  BY DeeperParts
<1>3. ~Deeper(f, h) <=> a * y <= x * b
  BY DeeperParts
<1> HIDE DEF a, b, c, d, x, y
<1>4. a * d \in Nat /\ c * b \in Nat /\ c * y \in Nat /\ x * d \in Nat /\ b \in Nat /\ y \in Nat
  BY <1>1
<1>5. (a * d) * y <= (c * b) * y /\ (c * y) * b <= (x * d) * b
  BY <1>2, <1>4, Scaled
<1>6. (a * d) * y = (a * y) * d /\ (c * b) * y = (c * y) * b /\ (x * d) * b = (x * b) * d
  BY <1>1
<1>7. a * y \in Nat /\ x * b \in Nat /\ (c * y) * b \in Nat
      /\ (a * y) * d \in Nat /\ (x * b) * d \in Nat
  BY <1>1
<1>8. (a * y) * d <= (x * b) * d
  BY <1>5, <1>6, <1>7
<1>9. a * y <= x * b
  BY <1>1, <1>7, <1>8, Unscaled
<1> QED BY <1>3, <1>9

LEMMA WorseIsDeepest ==
  ASSUME NEW f \in Fraction, NEW g \in Fraction
  PROVE  /\ Worse(f, g) \in {f, g}
         /\ ~Deeper(f, Worse(f, g)) /\ ~Deeper(g, Worse(f, g))
<1>1. ~Deeper(f, f) /\ ~Deeper(g, g)
  BY DeeperParts
<1>2. Deeper(g, f) => ~Deeper(f, g)
  BY DeeperParts DEF Deeper
<1> QED BY <1>1, <1>2 DEF Worse

\* No fall is less than none.
LEMMA NoneIsLess ==
  ASSUME NEW f \in Fraction, NEW g \in Fraction, f.by = 0
  PROVE  ~Deeper(f, g)
<1>1. f.by * g.of = 0 /\ g.by * f.of \in Nat
  BY DEF Fraction
<1> QED BY <1>1 DEF Deeper

-----------------------------------------------------------------------------
(* The walk over the closes                                                *)

Count    == Cardinality(Closed)
Taken(n) == {Series[i] : i \in 1 .. n}
Begin    == [running |-> Start, peak |-> Start, worst |-> NoFall]
Walked(w, m) == w = [n \in 0 .. m |-> IF n = 0 THEN Begin ELSE Advance(Series[n])[w[n - 1]]]
FallAt(w, n) == [by |-> w[n].peak - w[n].running, of |-> w[n].peak]

\* What the account holds after n closes.
Sound(w, n) ==
    /\ w[n] \in Accounts
    /\ w[n].running = Start + NetOf(Realised, Taken(n))
    /\ \A m \in 0 .. n : w[m].running <= w[n].peak
    /\ \E m \in 0 .. n : w[m].running = w[n].peak
    /\ \A m \in 0 .. n : w[m].peak > 0 => ~Deeper(FallAt(w, m), w[n].worst)
    /\ \/ w[n].worst = NoFall
       \/ \E m \in 0 .. n : w[m].peak > 0 /\ w[n].worst = FallAt(w, m)

LEMMA WalkExists == \A m \in Nat : \E w : Walked(w, m)
<1> DEFINE T == {m \in Nat : ~\E w : Walked(w, m)}
<1>1. 0 \notin T
  <2> DEFINE w == [n \in 0 .. 0 |-> Begin]
  <2>1. 0 .. 0 = {0}
    OBVIOUS
  <2>2. w = [n \in 0 .. 0 |-> IF n = 0 THEN Begin ELSE Advance(Series[n])[w[n - 1]]]
    BY <2>1
  <2>3. Walked(w, 0)
    BY <2>2 DEF Walked
  <2> QED BY <2>3
<1>2. ASSUME NEW m \in Nat, m \notin T PROVE m + 1 \notin T
  <2>1. PICK w : Walked(w, m)
    BY <1>2
  <2> DEFINE v == [n \in 0 .. m + 1 |-> IF n <= m THEN w[n] ELSE Advance(Series[m + 1])[w[m]]]
  <2>2. \A n \in 0 .. m : w[n] = IF n = 0 THEN Begin ELSE Advance(Series[n])[w[n - 1]]
    BY <2>1 DEF Walked
  <2>3. ASSUME NEW n \in 0 .. m + 1
        PROVE  v[n] = IF n = 0 THEN Begin ELSE Advance(Series[n])[v[n - 1]]
    <3>1. CASE n <= m
      <4>1. n \in 0 .. m /\ v[n] = w[n]
        BY <3>1
      <4>2. n # 0 => n - 1 \in 0 .. m + 1 /\ n - 1 <= m
        BY <3>1
      <4>3. n # 0 => v[n - 1] = w[n - 1]
        BY <4>2
      <4> HIDE DEF v
      <4> QED BY <2>2, <4>1, <4>3
    <3>2. CASE ~(n <= m)
      <4>1. n = m + 1 /\ n # 0 /\ n - 1 = m
        BY <3>2
      <4>2. m \in 0 .. m + 1 /\ m <= m
        OBVIOUS
      <4>3. v[m] = w[m]
        BY <4>2
      <4>4. v[n] = Advance(Series[m + 1])[w[m]]
        BY <3>2
      <4> HIDE DEF v
      <4> QED BY <4>1, <4>3, <4>4
    <3> QED BY <3>1, <3>2
  <2>4. v = [n \in 0 .. m + 1 |-> v[n]]
    OBVIOUS
  <2> HIDE DEF v
  <2>5. [n \in 0 .. m + 1 |-> v[n]]
          = [n \in 0 .. m + 1 |-> IF n = 0 THEN Begin ELSE Advance(Series[n])[v[n - 1]]]
    BY <2>3
  <2>6. Walked(v, m + 1)
    BY <2>4, <2>5 DEF Walked
  <2> QED BY <2>6
<1>3. T = {}
  <2> SUFFICES ASSUME T # {} PROVE FALSE
    OBVIOUS
  <2>1. T \in SUBSET Nat
    OBVIOUS
  <2>2. PICK n \in T : \A m \in T : n <= m
    <3> HIDE DEF T
    <3> QED BY <2>1, LeastOf
  <2> HIDE DEF T
  <2>3. n \in Nat /\ n # 0
    BY <1>1, <2>1, <2>2
  <2>4. n - 1 \in Nat /\ ~(n <= n - 1) /\ (n - 1) + 1 = n
    BY <2>3
  <2>5. n - 1 \notin T
    BY <2>2, <2>4
  <2> QED BY <1>2, <2>2, <2>4, <2>5
<1> QED BY <1>3

\* MaxDrawdown is where such a walk ends.
LEMMA DrawdownIsWalked ==
  ASSUME RecordInv
  PROVE  \E w : Walked(w, Count) /\ MaxDrawdown = w[Count].worst
<1>1. Count \in Nat
  BY RowTypes, FS_CardinalityType DEF Count
<1> DEFINE w == CHOOSE w : Walked(w, Count)
<1>2. Walked(w, Count)
  BY <1>1, WalkExists
<1>3. MaxDrawdown = w[Count].worst
  BY DEF MaxDrawdown, Walked, Count, Begin
<1> QED BY <1>2, <1>3
\* The closed rows, each once, by the time of their close.
LEMMA SeriesIsSorted ==
  ASSUME RecordInv
  PROVE  /\ Count \in Nat
         /\ Series \in [1 .. Count -> Closed]
         /\ \A i, j \in 1 .. Count : /\ Series[i] = Series[j] => i = j
                                     /\ i < j => row[Series[i]].at < row[Series[j]].at
         /\ \A p \in Closed : \E i \in 1 .. Count : Series[i] = p
<1> DEFINE key == [p \in Closed |-> row[p].at]
<1>1. IsFiniteSet(Closed) /\ Count \in Nat
  BY RowTypes, FS_CardinalityType DEF Count
<1>2. \A p \in Closed : key[p] \in Int /\ key[p] = row[p].at
  BY DEF RecordInv, RecordTypeOK, Closed, Having
<1>3. Series = Sorted(key, Closed)
  BY DEF Series
<1> HIDE DEF key
<1>4. /\ Series \in [1 .. Count -> Closed]
      /\ \A i, j \in 1 .. Count : /\ Series[i] = Series[j] => i = j
                                  /\ i < j => key[Series[i]] <= key[Series[j]]
      /\ \A p \in Closed : \E i \in 1 .. Count : Series[i] = p
  BY <1>1, <1>2, <1>3, SortedIsSorted DEF Count
<1>5. ASSUME NEW i \in 1 .. Count, NEW j \in 1 .. Count, i < j
      PROVE  row[Series[i]].at < row[Series[j]].at
  <2>1. Series[i] \in Closed /\ Series[j] \in Closed /\ Series[i] # Series[j]
    BY <1>1, <1>4, <1>5
  <2>2. row[Series[i]].at <= row[Series[j]].at
    BY <1>2, <1>4, <1>5, <2>1
  <2>3. row[Series[i]].at # row[Series[j]].at
    BY <2>1 DEF RecordInv, RecordTypeOK
  <2>4. row[Series[i]].at \in Int /\ row[Series[j]].at \in Int
    BY <1>2, <2>1
  <2> QED BY <2>2, <2>3, <2>4
<1> QED BY <1>1, <1>4, <1>5

LEMMA TakenGrows ==
  ASSUME RecordInv, NEW n \in Nat, n + 1 \in 1 .. Count
  PROVE  /\ Series[n + 1] \in Closed /\ Series[n + 1] \notin Taken(n)
         /\ Taken(n + 1) = Taken(n) \cup {Series[n + 1]}
         /\ Taken(n) \subseteq Closed /\ IsFiniteSet(Taken(n))
<1>1. \A i \in 1 .. n + 1 : i \in 1 .. Count /\ (i = n + 1 \/ i \in 1 .. n)
  BY SeriesIsSorted
<1>2. \A i \in 1 .. n : i \in 1 .. n + 1 /\ i # n + 1
  OBVIOUS
<1>3. Taken(n) \subseteq Closed
  BY <1>1, <1>2, SeriesIsSorted DEF Taken
<1>4. IsFiniteSet(Taken(n))
  BY <1>3, RowTypes, FS_Subset
<1>5. Series[n + 1] \in Closed /\ Series[n + 1] \notin Taken(n)
  BY <1>1, <1>2, SeriesIsSorted DEF Taken
<1>6. n + 1 \in 1 .. n + 1
  OBVIOUS
<1>7. Taken(n + 1) = Taken(n) \cup {Series[n + 1]}
  BY <1>1, <1>2, <1>6 DEF Taken
<1> QED BY <1>3, <1>4, <1>5, <1>7

\* One more close.
LEMMA WalkGoesOn ==
  ASSUME RecordInv, NEW w, Walked(w, Count), NEW n \in Nat, n + 1 \in 1 .. Count,
         \A m \in 0 .. n : Sound(w, m)
  PROVE  Sound(w, n + 1)
<1> DEFINE p == Series[n + 1]
           acc == w[n]
           new == w[n + 1]
           running == acc.running + row[p].realised
           f == [by |-> acc.peak - running, of |-> acc.peak]
<1>1. /\ p \in Closed /\ p \notin Taken(n) /\ Taken(n + 1) = Taken(n) \cup {p}
      /\ Taken(n) \subseteq Closed /\ IsFiniteSet(Taken(n))
  BY TakenGrows
<1>2. /\ row[p].realised \in Int /\ Realised[p] = row[p].realised /\ p \in Positions
      /\ \A q \in Taken(n + 1) : Realised[q] \in Int
  BY <1>1, RowTypes
<1>3. n \in 0 .. n /\ Sound(w, n)
  OBVIOUS
<1>4. acc \in Accounts /\ acc.running = Start + NetOf(Realised, Taken(n))
  BY <1>3 DEF Sound
<1>5. new = Advance(p)[acc]
  <2>1. n + 1 \in 0 .. Count /\ n + 1 # 0 /\ (n + 1) - 1 = n
    BY SeriesIsSorted
  <2>2. w[n + 1] = Advance(Series[n + 1])[w[(n + 1) - 1]]
    BY <2>1 DEF Walked
  <2> QED BY <2>1, <2>2
<1>6. /\ acc.running \in Int /\ acc.peak \in Nat /\ acc.worst \in Fraction /\ running \in Int
      /\ acc = [running |-> acc.running, peak |-> acc.peak, worst |-> acc.worst]
  BY <1>2, <1>4 DEF Accounts, Fraction
<1>7. new = IF running > acc.peak
            THEN [running |-> running, peak |-> running, worst |-> acc.worst]
            ELSE [running |-> running, peak |-> acc.peak,
                  worst |-> IF acc.peak > 0 THEN Worse(acc.worst, f) ELSE acc.worst]
  BY <1>4, <1>5, <1>6 DEF Advance, Accounts
<1>8. running = Start + NetOf(Realised, Taken(n + 1))
  <2>1. NetOf(Realised, Taken(n) \cup {p}) = NetOf(Realised, Taken(n)) + Realised[p]
    BY <1>1, <1>2, NetAdd
  <2>2. NetOf(Realised, Taken(n)) \in Int
    BY <1>1, <1>2, NetType
  <2>3. NetOf(Realised, Taken(n + 1)) = NetOf(Realised, Taken(n)) + row[p].realised
    BY <1>1, <1>2, <2>1
  <2>4. running = acc.running + row[p].realised
    OBVIOUS
  <2> HIDE DEF running, acc, p
  <2> QED BY <1>2, <1>4, <2>2, <2>3, <2>4, StartAssumption
<1>9. \A m \in 0 .. n + 1 : m = n + 1 \/ m \in 0 .. n
  OBVIOUS
<1>10. n + 1 \in 0 .. n + 1 /\ \A m \in 0 .. n : m \in 0 .. n + 1
  OBVIOUS
<1>11. \A m \in 0 .. n : /\ w[m].running \in Int /\ w[m].peak \in Nat
                         /\ w[m].running <= acc.peak /\ w[m].running <= w[m].peak
  <2>1. \A m \in 0 .. n : w[m].running \in Int /\ w[m].peak \in Nat
    BY DEF Sound, Accounts
  <2>2. \A m \in 0 .. n : w[m].running <= acc.peak
    BY <1>3 DEF Sound
  <2>3. ASSUME NEW m \in 0 .. n PROVE w[m].running <= w[m].peak
    <3>1. Sound(w, m) /\ m \in 0 .. m
      OBVIOUS
    <3> QED BY <3>1 DEF Sound
  <2> QED BY <2>1, <2>2, <2>3
<1>12. \A m \in 0 .. n : w[m].peak > 0 =>
                          FallAt(w, m) \in Fraction /\ ~Deeper(FallAt(w, m), acc.worst)
  <2>1. \A m \in 0 .. n : w[m].peak > 0 => FallAt(w, m) \in Fraction
    BY <1>11 DEF FallAt, Fraction
  <2> QED BY <1>3, <2>1 DEF Sound
<1>13. \/ acc.worst = NoFall
       \/ \E m \in 0 .. n : w[m].peak > 0 /\ acc.worst = FallAt(w, m)
  BY <1>3 DEF Sound
<1>14. \E m \in 0 .. n : w[m].running = acc.peak
  BY <1>3 DEF Sound
<1> HIDE DEF p, running
<1>15. CASE running > acc.peak
  <2>1. new = [running |-> running, peak |-> running, worst |-> acc.worst]
    BY <1>7, <1>15
  <2>2. running \in Nat /\ running # 0
    BY <1>6, <1>15
  <2>3. new \in Accounts
    BY <1>6, <2>1, <2>2 DEF Accounts, Fraction
  <2>4. \A m \in 0 .. n + 1 : w[m].running <= new.peak
    <3>1. \A m \in 0 .. n : w[m].running <= new.peak
      BY <1>6, <1>11, <1>15, <2>1
    <3>2. w[n + 1].running <= new.peak
      BY <1>6, <2>1
    <3> QED BY <1>9, <3>1, <3>2
  <2>5. w[n + 1].running = new.peak
    BY <2>1
  <2>6. ~Deeper(FallAt(w, n + 1), new.worst)
    <3>1. FallAt(w, n + 1) \in Fraction /\ FallAt(w, n + 1).by = 0
      BY <1>6, <2>1, <2>2 DEF FallAt, Fraction
    <3> QED BY <1>6, <2>1, <3>1, NoneIsLess
  <2>7. \A m \in 0 .. n + 1 : w[m].peak > 0 => ~Deeper(FallAt(w, m), new.worst)
    BY <1>9, <1>12, <2>1, <2>6
  <2>8. new.worst = NoFall \/ \E m \in 0 .. n + 1 : w[m].peak > 0 /\ new.worst = FallAt(w, m)
    BY <1>10, <1>13, <2>1
  <2>9. new.running = Start + NetOf(Realised, Taken(n + 1))
    BY <1>8, <2>1
  <2> QED BY <1>10, <2>3, <2>4, <2>5, <2>7, <2>8, <2>9 DEF Sound
<1>16. CASE ~(running > acc.peak)
  <2> DEFINE worst == IF acc.peak > 0 THEN Worse(acc.worst, f) ELSE acc.worst
  <2>1. new = [running |-> running, peak |-> acc.peak, worst |-> worst]
    BY <1>7, <1>16
  <2>2. acc.peak > 0 => f \in Fraction /\ FallAt(w, n + 1) = f
    BY <1>6, <1>16, <2>1 DEF Fraction, FallAt
  <2>3. /\ worst \in Fraction
        /\ ~Deeper(acc.worst, worst)
        /\ acc.peak > 0 => ~Deeper(f, worst)
        /\ worst = acc.worst \/ (acc.peak > 0 /\ worst = f)
    <3>1. CASE acc.peak > 0
      <4>1. /\ Worse(acc.worst, f) \in {acc.worst, f}
            /\ ~Deeper(acc.worst, Worse(acc.worst, f)) /\ ~Deeper(f, Worse(acc.worst, f))
        BY <1>6, <2>2, <3>1, WorseIsDeepest
      <4>2. worst = Worse(acc.worst, f)
        BY <3>1
      <4> HIDE DEF worst, f
      <4> QED BY <1>6, <2>2, <3>1, <4>1, <4>2
    <3>2. CASE ~(acc.peak > 0)
      <4>1. worst = acc.worst
        BY <3>2
      <4>2. ~Deeper(acc.worst, acc.worst)
        BY <1>6, DeeperParts
      <4> HIDE DEF worst, f
      <4> QED BY <1>6, <3>2, <4>1, <4>2
    <3> QED BY <3>1, <3>2
  <2> HIDE DEF worst, f
  <2>4. new \in Accounts
    BY <1>6, <2>1, <2>3 DEF Accounts, Fraction
  <2>5. \A m \in 0 .. n + 1 : w[m].running <= new.peak
    <3>1. \A m \in 0 .. n : w[m].running <= new.peak
      BY <1>11, <2>1
    <3>2. w[n + 1].running <= new.peak
      BY <1>6, <1>16, <2>1
    <3> QED BY <1>9, <3>1, <3>2
  <2>6. \E m \in 0 .. n + 1 : w[m].running = new.peak
    BY <1>10, <1>14, <2>1
  <2>7. \A m \in 0 .. n + 1 : w[m].peak > 0 => ~Deeper(FallAt(w, m), new.worst)
    <3>1. ASSUME NEW m \in 0 .. n, w[m].peak > 0 PROVE ~Deeper(FallAt(w, m), new.worst)
      <4>1. FallAt(w, m) \in Fraction /\ ~Deeper(FallAt(w, m), acc.worst)
        BY <1>12, <3>1
      <4>2. ~Deeper(FallAt(w, m), worst)
        BY <1>6, <2>3, <4>1, DeeperTransitive
      <4> QED BY <2>1, <4>2
    <3>2. w[n + 1].peak > 0 => ~Deeper(FallAt(w, n + 1), new.worst)
      BY <2>1, <2>2, <2>3
    <3> QED BY <1>9, <3>1, <3>2
  <2>8. new.worst = NoFall \/ \E m \in 0 .. n + 1 : w[m].peak > 0 /\ new.worst = FallAt(w, m)
    <3>1. CASE worst = acc.worst
      BY <1>10, <1>13, <2>1, <3>1
    <3>2. CASE acc.peak > 0 /\ worst = f
      BY <1>10, <2>1, <2>2, <3>2
    <3> QED BY <2>3, <3>1, <3>2
  <2>9. new.running = Start + NetOf(Realised, Taken(n + 1))
    BY <1>8, <2>1
  <2> QED BY <2>4, <2>5, <2>6, <2>7, <2>8, <2>9 DEF Sound
<1> QED BY <1>15, <1>16

LEMMA WalkBegins ==
  ASSUME RecordInv, NEW w, Walked(w, Count)
  PROVE  Sound(w, 0)
<1>1. 0 \in 0 .. Count
  BY SeriesIsSorted
<1>2. w[0] = Begin
  BY <1>1 DEF Walked
<1>3. Taken(0) = {}
  <2>1. 1 .. 0 = {}
    OBVIOUS
  <2> QED BY <2>1 DEF Taken
<1>4. NetOf(Realised, Taken(0)) = 0
  BY <1>3, NetEmpty
<1>5. w[0] \in Accounts /\ w[0].running = Start /\ w[0].peak = Start /\ w[0].worst = NoFall
  BY <1>2, StartAssumption DEF Begin, NoFall, Accounts
<1>6. 0 .. 0 = {0}
  OBVIOUS
<1>7. w[0].peak > 0 => ~Deeper(FallAt(w, 0), w[0].worst)
  <2> SUFFICES ASSUME w[0].peak > 0 PROVE ~Deeper(FallAt(w, 0), w[0].worst)
    OBVIOUS
  <2>1. FallAt(w, 0) \in Fraction /\ FallAt(w, 0).by = 0 /\ NoFall \in Fraction
    BY <1>5, StartAssumption DEF FallAt, Fraction, NoFall
  <2> QED BY <1>5, <2>1, NoneIsLess
<1>8. w[0].running = Start + NetOf(Realised, Taken(0)) /\ w[0].running <= w[0].peak
  BY <1>4, <1>5, StartAssumption
<1> QED BY <1>5, <1>6, <1>7, <1>8 DEF Sound

LEMMA WalkIsSound ==
  ASSUME RecordInv, NEW w, Walked(w, Count)
  PROVE  \A n \in 0 .. Count : Sound(w, n)
<1> DEFINE T == {n \in 0 .. Count : ~Sound(w, n)}
<1>1. Count \in Nat
  BY SeriesIsSorted
<1>2. T = {}
  <2> SUFFICES ASSUME T # {} PROVE FALSE
    OBVIOUS
  <2>1. T \in SUBSET Nat
    BY <1>1
  <2>2. PICK n \in T : \A m \in T : n <= m
    <3> HIDE DEF T
    <3> QED BY <2>1, LeastOf
  <2>3. n # 0
    BY <2>2, WalkBegins
  <2>4. n \in 0 .. Count /\ ~Sound(w, n)
    BY <2>2
  <2>5. n - 1 \in Nat /\ (n - 1) + 1 = n /\ n \in 1 .. Count
    BY <1>1, <2>3, <2>4
  <2>6. \A m \in 0 .. n - 1 : m \in 0 .. Count /\ ~(n <= m)
    BY <1>1, <2>5
  <2>7. \A m \in 0 .. n - 1 : Sound(w, m)
    BY <2>2, <2>6
  <2>8. Sound(w, (n - 1) + 1)
    BY <2>5, <2>7, WalkGoesOn
  <2> QED BY <2>4, <2>5, <2>8
<1> QED BY <1>2
-----------------------------------------------------------------------------
(* The walk takes the closes at the times of their rows                    *)

ByThen(t)   == {p \in Closed : row[p].at <= t}
Balances(t) == {BalanceAt(u) : u \in 0 .. t}
Highest(B)  == CHOOSE b \in B : \A c \in B : c <= b

LEMMA TimesOfRows ==
  ASSUME RecordInv
  PROVE  clock \in Nat /\ \A p \in Closed : row[p].at \in 1 .. clock
  BY DEF RecordInv, RecordTypeOK, RowsInv, Closed, Having

\* At each time the first closes of the series are made,
LEMMA ClosesByTime ==
  ASSUME RecordInv, NEW t \in 0 .. clock
  PROVE  \E n \in 0 .. Count : ByThen(t) = Taken(n)
<1> DEFINE T == {n \in 0 .. Count : \A i \in 1 .. Count : i > n => row[Series[i]].at > t}
<1>1. Count \in Nat /\ clock \in Nat
  BY SeriesIsSorted, TimesOfRows
<1>2. T \in SUBSET Nat /\ Count \in T
  BY <1>1
<1>3. PICK n \in T : \A m \in T : n <= m
  <2> HIDE DEF T
  <2> QED BY <1>2, LeastOf
<1>4. n \in 0 .. Count /\ \A i \in 1 .. Count : i > n => row[Series[i]].at > t
  BY <1>3
<1>5. \A i \in 1 .. Count : Series[i] \in Closed /\ row[Series[i]].at \in 1 .. clock
  BY SeriesIsSorted, TimesOfRows
<1>6. ASSUME n # 0 PROVE row[Series[n]].at <= t
  <2>1. n - 1 \in 0 .. Count /\ ~(n <= n - 1) /\ n \in 1 .. Count
    BY <1>1, <1>4, <1>6
  <2>2. n - 1 \notin T
    BY <1>3, <2>1
  <2>3. PICK i \in 1 .. Count : i > n - 1 /\ ~(row[Series[i]].at > t)
    BY <2>1, <2>2
  <2>4. ~(i > n)
    BY <1>4, <2>3
  <2>5. i = n
    BY <1>1, <2>1, <2>3, <2>4
  <2> QED BY <1>1, <1>5, <2>3, <2>5
<1>7. ASSUME NEW i \in 1 .. n PROVE row[Series[i]].at <= t
  <2>1. i \in 1 .. Count /\ n \in 1 .. Count /\ n # 0 /\ (i = n \/ i < n)
    BY <1>1, <1>4
  <2>2. i = n \/ row[Series[i]].at < row[Series[n]].at
    BY <2>1, SeriesIsSorted
  <2> QED BY <1>1, <1>5, <1>6, <2>1, <2>2
<1>8. ASSUME NEW p \in ByThen(t) PROVE p \in Taken(n)
  <2>1. p \in Closed /\ row[p].at <= t
    BY DEF ByThen
  <2>2. PICK i \in 1 .. Count : Series[i] = p
    BY <2>1, SeriesIsSorted
  <2>3. ~(i > n)
    BY <1>1, <1>4, <1>5, <2>1, <2>2
  <2>4. i \in 1 .. n
    BY <1>1, <1>4, <2>3
  <2> QED BY <2>2, <2>4 DEF Taken
<1>9. ASSUME NEW p \in Taken(n) PROVE p \in ByThen(t)
  <2>1. PICK i \in 1 .. n : Series[i] = p
    BY DEF Taken
  <2>2. i \in 1 .. Count
    BY <1>1, <1>4
  <2> QED BY <1>5, <1>7, <2>1, <2>2 DEF ByThen
<1>10. ByThen(t) = Taken(n)
  BY <1>8, <1>9
<1> QED BY <1>4, <1>10

\* and each start of the series has been all there was.
LEMMA TimeOfClose ==
  ASSUME RecordInv, NEW n \in 0 .. Count
  PROVE  \E t \in 0 .. clock : ByThen(t) = Taken(n)
<1>1. Count \in Nat /\ clock \in Nat
  BY SeriesIsSorted, TimesOfRows
<1>2. CASE n = 0
  <2>1. 1 .. 0 = {} /\ 0 \in 0 .. clock
    BY <1>1
  <2>2. ByThen(0) = {}
    BY <1>1, TimesOfRows DEF ByThen
  <2>3. Taken(n) = {}
    BY <1>2, <2>1 DEF Taken
  <2> QED BY <2>1, <2>2, <2>3
<1>3. CASE n # 0
  <2> DEFINE t == row[Series[n]].at
  <2>1. n \in 1 .. Count
    BY <1>1, <1>3
  <2>2. t \in 1 .. clock
    BY <2>1, SeriesIsSorted, TimesOfRows
  <2>3. \A i \in 1 .. Count : Series[i] \in Closed /\ row[Series[i]].at \in 1 .. clock
    BY SeriesIsSorted, TimesOfRows
  <2>4. ASSUME NEW i \in 1 .. Count PROVE row[Series[i]].at <= t <=> i <= n
    <3>1. i < n \/ i = n \/ n < i
      BY <1>1, <2>1
    <3>2. CASE i < n
      <4>1. row[Series[i]].at < t
        BY <2>1, <3>2, SeriesIsSorted
      <4> QED BY <1>1, <2>1, <2>2, <2>3, <3>2, <4>1
    <3>3. CASE i = n
      BY <1>1, <2>1, <2>2, <3>3
    <3>4. CASE n < i
      <4>1. t < row[Series[i]].at
        BY <2>1, <3>4, SeriesIsSorted
      <4>2. ~(i <= n) /\ ~(row[Series[i]].at <= t)
        BY <1>1, <2>1, <2>2, <2>3, <3>4, <4>1
      <4> QED BY <4>2
    <3> QED BY <3>1, <3>2, <3>3, <3>4
  <2> HIDE DEF t
  <2>5. ASSUME NEW p \in ByThen(t) PROVE p \in Taken(n)
    <3>1. p \in Closed /\ row[p].at <= t
      BY DEF ByThen
    <3>2. PICK i \in 1 .. Count : Series[i] = p
      BY <3>1, SeriesIsSorted
    <3>3. i \in 1 .. n
      BY <1>1, <2>1, <2>4, <3>1, <3>2
    <3> QED BY <3>2, <3>3 DEF Taken
  <2>6. ASSUME NEW p \in Taken(n) PROVE p \in ByThen(t)
    <3>1. PICK i \in 1 .. n : Series[i] = p
      BY DEF Taken
    <3>2. i \in 1 .. Count /\ i <= n
      BY <1>1
    <3> QED BY <2>3, <2>4, <3>1, <3>2 DEF ByThen
  <2>7. ByThen(t) = Taken(n)
    BY <2>5, <2>6
  <2>8. t \in 0 .. clock
    BY <1>1, <2>2
  <2> QED BY <2>7, <2>8
<1> QED BY <1>2, <1>3

LEMMA LaterIsMore ==
  ASSUME RecordInv, NEW n \in 0 .. Count, NEW m \in 0 .. Count,
         NEW t \in 0 .. clock, NEW u \in 0 .. clock, t <= u,
         ByThen(t) = Taken(n), ByThen(u) = Taken(m)
  PROVE  n <= m
<1> SUFFICES ASSUME ~(n <= m) PROVE FALSE
  OBVIOUS
<1>1. Count \in Nat /\ clock \in Nat
  BY SeriesIsSorted, TimesOfRows
<1>2. n \in 1 .. n /\ n \in 1 .. Count
  BY <1>1
<1>3. Series[n] \in Taken(n)
  BY <1>2 DEF Taken
<1>4. Series[n] \in Closed /\ row[Series[n]].at <= t
  BY <1>3 DEF ByThen
<1>5. row[Series[n]].at <= u
  BY <1>1, <1>4, TimesOfRows
<1>6. Series[n] \in Taken(m)
  BY <1>4, <1>5 DEF ByThen
<1>7. PICK i \in 1 .. m : Series[i] = Series[n]
  BY <1>6 DEF Taken
<1>8. i \in 1 .. Count /\ i # n
  BY <1>1, <1>7
<1> QED BY <1>2, <1>7, <1>8, SeriesIsSorted

LEMMA PeakIsHighest == \A t : PeakAt(t) = Highest(Balances(t))
  BY DEF PeakAt, Highest, Balances

LEMMA HighestIs ==
  ASSUME NEW B, B \subseteq Int, NEW b \in B, \A c \in B : c <= b
  PROVE  Highest(B) = b
<1> DEFINE h == Highest(B)
<1>1. h \in B /\ \A c \in B : c <= h
  BY DEF Highest
<1>2. h <= b /\ b <= h /\ h \in Int /\ b \in Int
  BY <1>1
<1> QED BY <1>2

\* The balance and the peak at a time are those of the walk.
LEMMA WalkInTime ==
  ASSUME RecordInv, NEW w, Walked(w, Count),
         NEW t \in 0 .. clock, NEW n \in 0 .. Count, ByThen(t) = Taken(n)
  PROVE  BalanceAt(t) = w[n].running /\ PeakAt(t) = w[n].peak
<1>1. Count \in Nat /\ clock \in Nat
  BY SeriesIsSorted, TimesOfRows
<1>2. \A m \in 0 .. Count : Sound(w, m)
  BY WalkIsSound
<1>3. \A u, m : m \in 0 .. Count /\ ByThen(u) = Taken(m) => BalanceAt(u) = w[m].running
  BY <1>2 DEF Sound, BalanceAt, ByThen
<1>4. ASSUME NEW u \in 0 .. t PROVE \E m \in 0 .. n : BalanceAt(u) = w[m].running
  <2>1. u \in 0 .. clock /\ u <= t
    BY <1>1
  <2>2. PICK m \in 0 .. Count : ByThen(u) = Taken(m)
    BY <2>1, ClosesByTime
  <2>3. m <= n
    BY <2>1, <2>2, LaterIsMore
  <2>4. m \in 0 .. n
    BY <1>1, <2>3
  <2> QED BY <1>3, <2>2, <2>4
<1>5. ASSUME NEW m \in 0 .. n PROVE \E u \in 0 .. t : BalanceAt(u) = w[m].running
  <2>1. m \in 0 .. Count
    BY <1>1
  <2>2. PICK u \in 0 .. clock : ByThen(u) = Taken(m)
    BY <2>1, TimeOfClose
  <2>3. CASE u <= t
    <3>1. u \in 0 .. t
      BY <1>1, <2>3
    <3> QED BY <1>3, <2>1, <2>2, <3>1
  <2>4. CASE ~(u <= t)
    <3>1. t <= u
      BY <1>1, <2>4
    <3>2. n <= m
      BY <2>1, <2>2, <3>1, LaterIsMore
    <3>3. m = n /\ t \in 0 .. t
      BY <1>1, <3>2
    <3> QED BY <1>3, <3>3
  <2> QED BY <2>3, <2>4
<1>6. Balances(t) = {w[m].running : m \in 0 .. n}
  BY <1>4, <1>5 DEF Balances
<1>7. /\ \A m \in 0 .. n : w[m].running \in Int /\ w[m].running <= w[n].peak
      /\ \E m \in 0 .. n : w[m].running = w[n].peak
  <2>1. \A m \in 0 .. n : m \in 0 .. Count
    BY <1>1
  <2>2. \A m \in 0 .. n : w[m].running \in Int
    BY <1>2, <2>1 DEF Sound, Accounts
  <2> QED BY <1>2, <2>2 DEF Sound
<1>8. Highest(Balances(t)) = w[n].peak
  <2>1. Balances(t) \subseteq Int /\ w[n].peak \in Balances(t)
    BY <1>6, <1>7
  <2>2. \A c \in Balances(t) : c <= w[n].peak
    BY <1>6, <1>7
  <2> QED BY <2>1, <2>2, HighestIs
<1> QED BY <1>3, <1>8, PeakIsHighest

Deepest == /\ MaxDrawdown \in Fraction
           /\ \A f \in Falls : ~Deeper(f, MaxDrawdown) /\ f \in Fraction
           /\ MaxDrawdown = NoFall \/ MaxDrawdown \in Falls

LEMMA DrawdownIsDeepest == RecordInv => Deepest
<1> SUFFICES ASSUME RecordInv PROVE Deepest
  OBVIOUS
<1>1. PICK w : Walked(w, Count) /\ MaxDrawdown = w[Count].worst
  BY DrawdownIsWalked
<1>2. Count \in Nat /\ Count \in 0 .. Count /\ clock \in Nat
  BY SeriesIsSorted, TimesOfRows
<1>3. Sound(w, Count) /\ \A n \in 0 .. Count : w[n].running \in Int /\ w[n].peak \in Nat
  BY <1>1, <1>2, WalkIsSound DEF Sound, Accounts
<1>4. MaxDrawdown \in Fraction
  BY <1>1, <1>3 DEF Sound, Accounts, Fraction
<1>5. ASSUME NEW f \in Falls PROVE ~Deeper(f, MaxDrawdown) /\ f \in Fraction
  <2>1. PICK t \in 0 .. clock : /\ PeakAt(t) > 0
                                /\ f = [by |-> PeakAt(t) - BalanceAt(t), of |-> PeakAt(t)]
    BY DEF Falls
  <2>2. PICK n \in 0 .. Count : ByThen(t) = Taken(n)
    BY ClosesByTime
  <2>3. BalanceAt(t) = w[n].running /\ PeakAt(t) = w[n].peak
    BY <1>1, <2>2, WalkInTime
  <2>4. f = FallAt(w, n) /\ w[n].peak > 0
    BY <2>1, <2>3 DEF FallAt
  <2>5. ~Deeper(f, MaxDrawdown)
    BY <1>1, <1>3, <2>4 DEF Sound
  <2>6. w[n].running <= w[n].peak
    <3>1. Sound(w, n) /\ n \in 0 .. n
      BY <1>1, WalkIsSound
    <3> QED BY <3>1 DEF Sound
  <2>7. f \in Fraction
    BY <1>3, <2>4, <2>6 DEF FallAt, Fraction
  <2> QED BY <2>5, <2>7
<1>6. MaxDrawdown = NoFall \/ MaxDrawdown \in Falls
  <2> SUFFICES ASSUME NEW n \in 0 .. Count, w[n].peak > 0, MaxDrawdown = FallAt(w, n)
               PROVE  MaxDrawdown \in Falls
    BY <1>1, <1>3 DEF Sound
  <2>1. PICK t \in 0 .. clock : ByThen(t) = Taken(n)
    BY TimeOfClose
  <2>2. BalanceAt(t) = w[n].running /\ PeakAt(t) = w[n].peak
    BY <1>1, <2>1, WalkInTime
  <2>3. MaxDrawdown = [by |-> PeakAt(t) - BalanceAt(t), of |-> PeakAt(t)] /\ PeakAt(t) > 0
    BY <2>2 DEF FallAt
  <2> QED BY <2>3 DEF Falls
<1> QED BY <1>4, <1>5, <1>6 DEF Deepest

\* The drawdown of a report is the deepest the balance ever lay under its
\* highest value so far, taking the closes by their times, in whatever order
\* the two jobs have committed them.
THEOREM DrawdownTrue == Spec => []DrawdownIsWorst
<1>1. ASSUME RecordInv PROVE DrawdownIsWorst
  <2>1. Deepest
    BY <1>1, DrawdownIsDeepest
  <2>2. ASSUME Falls # {} PROVE \E f \in Falls : ~Deeper(MaxDrawdown, f)
    <3>1. CASE MaxDrawdown = NoFall
      <4>1. PICK f : f \in Falls
        BY <2>2
      <4>2. f \in Fraction /\ NoFall \in Fraction /\ NoFall.by = 0
        BY <2>1, <4>1 DEF Deepest, NoFall, Fraction
      <4>3. ~Deeper(NoFall, f)
        BY <4>2, NoneIsLess
      <4> QED BY <3>1, <4>1, <4>3
    <3>2. CASE MaxDrawdown \in Falls
      <4>1. ~Deeper(MaxDrawdown, MaxDrawdown)
        BY <2>1, <3>2 DEF Deepest
      <4> QED BY <3>2, <4>1
    <3> QED BY <2>1, <3>1, <3>2 DEF Deepest
  <2> QED BY <2>1, <2>2 DEF DrawdownIsWorst, Deepest
<1>2. RecordInv => DrawdownIsWorst
  BY <1>1
<1> QED BY <1>2, RecordInductive, PTL
-----------------------------------------------------------------------------
(* From one report to the next                                             *)

\* the closed rows stay, but for their marks
Kept == /\ Closed' = Closed /\ clock' \in Nat /\ clock <= clock'
        /\ \A q \in Closed : row'[q].at = row[q].at /\ row'[q].realised = row[q].realised
\* one more is closed, after all others
Added == /\ clock' = clock
         /\ \E p \in Positions \ Closed :
               /\ Closed' = Closed \cup {p} /\ row'[p].at \in 1 .. clock
               /\ \A q \in Closed : /\ row'[q] = row[q]
                                    /\ row[q].at < row'[p].at

LEMMA StepInOrder ==
  ASSUME RecordInv, [Next]_vars, InOrder
  PROVE  Kept \/ Added
<1>1. clock \in Nat
  BY TimesOfRows
<1>2. ASSUME NEW p \in Positions, OpenRow(p) PROVE Kept
  <2>1. /\ row' = [row EXCEPT ![p].status = "open"] /\ clock' = clock
        /\ row[p].status = "none"
    BY <1>2 DEF OpenRow
  <2>2. \A q \in Positions : /\ q # p => row'[q] = row[q]
                             /\ row'[p].status = "open"
    BY <2>1 DEF RecordInv, RecordTypeOK
  <2>3. Closed' = Closed /\ p \notin Closed
    BY <2>1, <2>2 DEF Closed, Having
  <2>4. \A q \in Closed : row'[q] = row[q]
    BY <2>2, <2>3, RowTypes
  <2> QED BY <1>1, <2>1, <2>3, <2>4 DEF Kept
<1>3. ASSUME row' = row, clock' = clock PROVE Kept
  BY <1>1, <1>3 DEF Kept, Closed, Having
<1>4. ASSUME RowsStay, clock' \in {clock, clock + 1} PROVE Kept
  BY <1>1, <1>4, MarkedRows, RowTypes DEF Kept, RowsStay, RecordInv
<1>5. ASSUME NEW j \in Jobs, NEW u \in Marks, NEW p \in Positions, MarkRow(j, p, u)
      PROVE  RowsStay
  BY <1>5, MarkLeaves DEF RecordInv
<1>6. ASSUME NEW j \in Jobs, NEW p \in Positions, Mark(j, p) PROVE Kept
  BY <1>4, <1>5, <1>6 DEF Mark
<1>7. ASSUME NEW j \in Jobs, NEW p \in Positions, Decide(j, p) PROVE Kept
  BY <1>4, <1>7 DEF Decide, RowsStay
<1>8. ASSUME NEW j \in Jobs, Commit(j) PROVE Kept \/ Added
  <2>1. clock' = clock /\ verdict[j] # NoVerdict
    BY <1>8 DEF Commit
  <2>2. PICK p \in Positions : verdict[j].pos = {p}
    BY <2>1 DEF RecordInv, VerdictInv
  <2>3. verdict[j].at \in 1 .. clock /\ \A q \in Closed : row[q].at # verdict[j].at
    BY <2>1 DEF RecordInv, VerdictInv
  <2>4. CASE UNCHANGED row
    BY <1>3, <2>1, <2>4
  <2>5. CASE row' = [q \in Positions |->
                      IF q \in verdict[j].pos
                      THEN [status |-> "closed", realised |-> verdict[j].realised,
                            unrealised |-> 0, at |-> verdict[j].at]
                      ELSE row[q]]
    <3>1. /\ \A q \in Positions \ {p} : row'[q] = row[q]
          /\ row'[p].status = "closed" /\ row'[p].at = verdict[j].at
      BY <2>2, <2>5
    <3>2. Closed' = Closed \cup {p}
      BY <3>1 DEF Closed, Having
    <3>3. row'[p].at # row[p].at
      <4>1. CASE p \in Closed
        BY <2>3, <3>1, <4>1
      <4>2. CASE p \notin Closed
        <5>1. row[p].at = 0
          BY <4>2 DEF RecordInv, RowsInv
        <5> QED BY <1>1, <2>3, <3>1, <5>1
      <4> QED BY <4>1, <4>2
    <3>4. row[p].status = "open" /\ \A q \in Closed : row[q].at < row'[p].at
      BY <3>2, <3>3 DEF InOrder
    <3>5. p \notin Closed
      BY <3>4 DEF Closed, Having
    <3>6. \A q \in Closed : row'[q] = row[q]
      BY <3>1, <3>5, RowTypes
    <3>7. Added
      BY <2>1, <2>3, <3>1, <3>2, <3>4, <3>5, <3>6 DEF Added
    <3> QED BY <3>7
  <2> QED BY <1>8, <2>4, <2>5 DEF Commit
<1>9. ASSUME NEW j \in Jobs, Snapshot(j) \/ Keep(j) \/ \E p \in Positions : Pass(j, p)
      PROVE  Kept
  BY <1>3, <1>9 DEF Snapshot, Keep, Pass
<1>10. CASE UNCHANGED vars
  BY <1>3, <1>10 DEF vars
<1> QED BY <1>2, <1>6, <1>7, <1>8, <1>9, <1>10 DEF Next

\* A balance of the past is one of the next report.
LEMMA BalanceStays ==
  ASSUME RecordInv, NEW t \in Nat,
         {p \in Closed' : row'[p].at <= t} = ByThen(t),
         \A q \in Closed : row'[q].realised = row[q].realised
  PROVE  BalanceAt(t)' = BalanceAt(t)
<1>1. ByThen(t) \subseteq Closed /\ ByThen(t) \subseteq Positions
  BY RowTypes DEF ByThen
<1>2. \A q \in ByThen(t) : Realised'[q] = Realised[q]
  BY <1>1 DEF Realised
<1>3. NetOf(Realised', ByThen(t)) = NetOf(Realised, ByThen(t))
  BY <1>2, NetSame
<1>4. BalanceAt(t)' = Start + NetOf(Realised', ByThen(t))
  BY DEF BalanceAt
<1>5. BalanceAt(t) = Start + NetOf(Realised, ByThen(t))
  BY DEF BalanceAt, ByThen
<1> QED BY <1>3, <1>4, <1>5

LEMMA FallsStay ==
  ASSUME RecordInv, Kept \/ Added
  PROVE  Falls \subseteq Falls'
<1> SUFFICES ASSUME NEW t \in 0 .. clock, PeakAt(t) > 0
             PROVE  \E s \in 0 .. clock' :
                       PeakAt(s)' = PeakAt(t) /\ BalanceAt(s)' = BalanceAt(t)
  BY DEF Falls
<1>1. clock \in Nat /\ \A q \in Closed : row[q].at \in 1 .. clock
  BY TimesOfRows
<1>2. \A s : PeakAt(s)' = Highest(Balances(s)')
  BY DEF PeakAt, Highest, Balances
<1>3. CASE Kept
  <2>1. \A u \in Nat : {p \in Closed' : row'[p].at <= u} = ByThen(u)
    BY <1>3 DEF Kept, ByThen
  <2>2. \A u \in Nat : BalanceAt(u)' = BalanceAt(u)
    BY <1>3, <2>1, BalanceStays DEF Kept
  <2>3. Balances(t)' = Balances(t)
    BY <1>1, <2>2 DEF Balances
  <2>4. PeakAt(t)' = PeakAt(t)
    BY <1>2, <2>3, PeakIsHighest
  <2>5. t \in 0 .. clock' /\ t \in Nat
    BY <1>1, <1>3 DEF Kept
  <2> QED BY <2>2, <2>4, <2>5
<1>4. CASE Added
  <2>1. PICK p \in Positions \ Closed :
           /\ Closed' = Closed \cup {p} /\ row'[p].at \in 1 .. clock
           /\ \A q \in Closed : row'[q] = row[q] /\ row[q].at < row'[p].at
    BY <1>4 DEF Added
  <2>2. PICK a \in 1 .. clock : row'[p].at = a
    BY <2>1
  <2>3. PICK s \in 0 .. clock : s = IF t < a THEN t ELSE a - 1
    BY <1>1
  <2>4. a \in Nat /\ s <= t /\ s < a
    BY <1>1, <2>2, <2>3
  <2>5. \A u \in 0 .. s : u \in Nat /\ u < a /\ u \in 0 .. t
    BY <1>1, <2>4
  <2>6. \A u \in 0 .. s : {q \in Closed' : row'[q].at <= u} = ByThen(u)
    <3> SUFFICES ASSUME NEW u \in 0 .. s
                 PROVE  {q \in Closed' : row'[q].at <= u} = ByThen(u)
      OBVIOUS
    <3>1. ~(a <= u)
      BY <2>4, <2>5
    <3> QED BY <2>1, <2>2, <3>1 DEF ByThen
  <2>7. \A u \in 0 .. s : BalanceAt(u)' = BalanceAt(u)
    BY <2>1, <2>5, <2>6, BalanceStays
  <2>8. ASSUME NEW u \in 0 .. t, u \notin 0 .. s PROVE BalanceAt(u) = BalanceAt(s)
    <3>1. s = a - 1 /\ a <= u
      BY <1>1, <2>4, <2>8, <2>3
    <3>2. \A q \in Closed : row[q].at <= u /\ row[q].at <= s
      BY <1>1, <2>1, <2>4, <2>2, <3>1
    <3>3. {q \in Closed : row[q].at <= u} = {q \in Closed : row[q].at <= s}
      BY <3>2
    <3> QED BY <3>3 DEF BalanceAt
  <2>9. s \in 0 .. s /\ s \in 0 .. t /\ t \in 0 .. t
    BY <1>1, <2>4
  <2>10. Balances(t) = Balances(s)
    <3>1. \A u \in 0 .. t : \E v \in 0 .. s : BalanceAt(u) = BalanceAt(v)
      BY <2>8, <2>9
    <3>2. \A v \in 0 .. s : v \in 0 .. t
      BY <2>5
    <3> QED BY <3>1, <3>2 DEF Balances
  <2>11. Balances(s)' = Balances(s)
    BY <2>7 DEF Balances
  <2>12. PeakAt(s)' = PeakAt(t)
    BY <1>2, <2>10, <2>11, PeakIsHighest
  <2>13. BalanceAt(s)' = BalanceAt(t)
    BY <2>7, <2>8, <2>9
  <2>14. s \in 0 .. clock'
    BY <1>4, <2>4 DEF Added
  <2> QED BY <2>12, <2>13, <2>14
<1> QED BY <1>3, <1>4

\* From one report to the next the drawdown never shrinks, unless a close of
\* an earlier time is committed behind a later one, or a row is closed again.
THEOREM DrawdownGrows == Spec => DrawdownNeverShrinks
<1>1. ASSUME RecordInv, [Next]_vars, Deepest, Deepest'
      PROVE  [InOrder => ~Deeper(MaxDrawdown, MaxDrawdown')]_row
  <2> SUFFICES ASSUME InOrder PROVE ~Deeper(MaxDrawdown, MaxDrawdown')
    OBVIOUS
  <2>1. Falls \subseteq Falls'
    BY <1>1, StepInOrder, FallsStay
  <2>2. CASE MaxDrawdown = NoFall
    <3>1. NoFall \in Fraction /\ NoFall.by = 0 /\ MaxDrawdown' \in Fraction
      BY <1>1 DEF NoFall, Fraction, Deepest
    <3> QED BY <2>2, <3>1, NoneIsLess
  <2>3. CASE MaxDrawdown \in Falls
    <3>1. MaxDrawdown \in Falls'
      BY <2>1, <2>3
    <3>2. \A f \in Falls' : ~Deeper(f, MaxDrawdown')
      BY <1>1 DEF Deepest
    <3> QED BY <3>1, <3>2
  <2> QED BY <1>1, <2>2, <2>3 DEF Deepest
<1>2. RecordInv => Deepest
  BY DrawdownIsDeepest
<1>3. (RecordInv => Deepest)'
  BY DrawdownIsDeepest, PTL
<1>4. RecordInv /\ RecordInv' /\ [Next]_vars
        => [InOrder => ~Deeper(MaxDrawdown, MaxDrawdown')]_row
  BY <1>1, <1>2, <1>3
<1> QED BY <1>4, RecordInductive, PTL DEF Spec, DrawdownNeverShrinks
=============================================================================
