--------------------------- MODULE NavigationProofs ---------------------------
(***************************************************************************)
(* Theorems about Navigation for every value of its constants: any callers,*)
(* sites, windows, limits and phase of the warming schedule.               *)
(***************************************************************************)
EXTENDS Navigation, FiniteSetTheorems, SequenceTheorems, TLAPS

-----------------------------------------------------------------------------
(***************************************************************************)
(* Lists of ages.                                                          *)
(***************************************************************************)

\* Oldest first.
Sorted(ages) == \A i, j \in 1..Len(ages) : i <= j => ages[i] >= ages[j]

LEMMA FirstNumbers ==
  \A k \in Nat : IsFiniteSet(1..k) /\ Cardinality(1..k) = k
BY FS_Interval

\* Pruning a sorted list drops its first elements, those that are too old.
LEMMA PrunedFacts ==
  ASSUME NEW a \in Seq(Nat), Sorted(a), NEW span \in Nat
  PROVE  \E n \in 0..Len(a) :
           /\ Pruned(a, span) = [i \in 1..(Len(a) - n) |-> a[i + n]]
           /\ \A i \in 1..Len(a) : a[i] >= span <=> i <= n
<1> DEFINE S == {i \in DOMAIN a : a[i] >= span}
           n == Cardinality(S)
<1>1. Len(a) \in Nat /\ DOMAIN a = 1..Len(a) /\ \A i \in 1..Len(a) : a[i] \in Nat
  BY LenProperties, ElementOfSeq
<1>2. S \in SUBSET (1..Len(a))
  BY <1>1
<1>3. IsFiniteSet(1..Len(a)) /\ Cardinality(1..Len(a)) = Len(a)
  BY <1>1, FirstNumbers
<1>4. IsFiniteSet(S) /\ n \in Nat /\ n <= Len(a)
  BY <1>2, <1>3, FS_Subset, FS_CardinalityType
<1>5. ASSUME NEW i \in 1..Len(a), a[i] >= span
      PROVE  i <= n
  <2>1. 1..i \in SUBSET S
    BY <1>1, <1>5 DEF Sorted
  <2>2. Cardinality(1..i) = i
    BY <1>1, FirstNumbers
  <2> QED
    BY <1>4, <2>1, <2>2, FS_Subset
<1>6. ASSUME NEW i \in 1..Len(a), ~(a[i] >= span)
      PROVE  n < i
  <2>1. \A j \in S : j < i
    BY <1>1, <1>6 DEF Sorted
  <2>2. S \in SUBSET (1..(i - 1))
    BY <1>1, <2>1
  <2>3. IsFiniteSet(1..(i - 1)) /\ Cardinality(1..(i - 1)) = i - 1
    <3>1. i - 1 \in Nat
      BY <1>1
    <3> QED
      BY <3>1, FirstNumbers
  <2>4. n <= i - 1
    BY <2>2, <2>3, FS_Subset
  <2> QED
    BY <1>1, <1>4, <2>4
<1>7. Pruned(a, span) = [i \in 1..(Len(a) - n) |-> a[i + n]]
  BY DEF Pruned
<1>8. \A i \in 1..Len(a) : a[i] >= span <=> i <= n
  BY <1>1, <1>4, <1>5, <1>6
<1>9. n \in 0..Len(a)
  BY <1>1, <1>4
<1> HIDE DEF n, S
<1> QED
  BY <1>7, <1>8, <1>9

\* Such a list as a sequence.
LEMMA TailFacts ==
  ASSUME NEW a \in Seq(Nat), NEW n \in 0..Len(a), NEW b,
         b = [i \in 1..(Len(a) - n) |-> a[i + n]]
  PROVE  /\ b \in Seq(Nat) /\ Len(b) = Len(a) - n
         /\ \A i \in 1..Len(b) : b[i] = a[i + n]
         /\ Sorted(a) => Sorted(b)
<1>1. Len(a) \in Nat /\ \A i \in 1..Len(a) : a[i] \in Nat
  BY LenProperties, ElementOfSeq
<1>2. Len(a) - n \in Nat /\ \A i \in 1..(Len(a) - n) : i + n \in 1..Len(a)
  BY <1>1
<1>3. b \in [1..(Len(a) - n) -> Nat]
  BY <1>1, <1>2
<1>4. b \in Seq(Nat) /\ Len(b) = Len(a) - n
  BY <1>2, <1>3
<1>5. \A i \in 1..Len(b) : b[i] = a[i + n]
  BY <1>4
<1>6. Sorted(a) => Sorted(b)
  BY <1>1, <1>2, <1>4, <1>5 DEF Sorted
<1> QED
  BY <1>4, <1>5, <1>6

LEMMA PrunedList ==
  ASSUME NEW a \in Seq(Nat), Sorted(a), NEW span \in Nat
  PROVE  \E n \in 0..Len(a) :
           /\ \A i \in 1..n : a[i] >= span
           /\ \A i \in (n + 1)..Len(a) : a[i] < span
           /\ Pruned(a, span) \in Seq(Nat) /\ Len(Pruned(a, span)) = Len(a) - n
           /\ \A i \in 1..(Len(a) - n) : Pruned(a, span)[i] = a[i + n]
           /\ Sorted(Pruned(a, span))
<1>1. PICK n \in 0..Len(a) :
         /\ Pruned(a, span) = [i \in 1..(Len(a) - n) |-> a[i + n]]
         /\ \A i \in 1..Len(a) : a[i] >= span <=> i <= n
  BY PrunedFacts
<1>2. Len(a) \in Nat /\ \A i \in 1..Len(a) : a[i] \in Nat
  BY LenProperties, ElementOfSeq
<1>3. /\ Pruned(a, span) \in Seq(Nat) /\ Len(Pruned(a, span)) = Len(a) - n
      /\ \A i \in 1..Len(Pruned(a, span)) : Pruned(a, span)[i] = a[i + n]
      /\ Sorted(Pruned(a, span))
  BY <1>1, TailFacts
<1>4. \A i \in 1..n : a[i] >= span
  BY <1>1, <1>2
<1>5. \A i \in (n + 1)..Len(a) : a[i] < span
  BY <1>1, <1>2
<1> QED
  BY <1>3, <1>4, <1>5

\* A list whose elements are all young is not pruned.
LEMMA PrunedWhole ==
  ASSUME NEW a \in Seq(Nat), Sorted(a), NEW span \in Nat,
         \A i \in 1..Len(a) : a[i] < span
  PROVE  Len(Pruned(a, span)) = Len(a)
<1>1. PICK n \in 0..Len(a) :
         /\ \A i \in 1..n : a[i] >= span
         /\ Len(Pruned(a, span)) = Len(a) - n
  BY PrunedList
<1>2. Len(a) \in Nat /\ \A i \in 1..Len(a) : a[i] \in Nat
  BY LenProperties, ElementOfSeq
<1>3. n = 0
  BY <1>1, <1>2
<1> QED
  BY <1>1, <1>2, <1>3

\* A recorded request.
LEMMA RecordFacts ==
  ASSUME NEW a \in Seq(Nat), Sorted(a)
  PROVE  /\ Record(a) \in Seq(Nat) /\ Sorted(Record(a)) /\ Len(Record(a)) = Len(a) + 1
         /\ \A i \in 1..Len(a) : Record(a)[i] = a[i]
         /\ Record(a)[Len(a) + 1] = 0
<1>1. /\ Record(a) \in Seq(Nat) /\ Len(Record(a)) = Len(a) + 1
      /\ \A i \in 1..Len(a) : Record(a)[i] = a[i]
      /\ Record(a)[Len(a) + 1] = 0
  BY AppendProperties DEF Record
<1>2. Len(a) \in Nat /\ \A i \in 1..Len(a) : a[i] \in Nat
  BY LenProperties, ElementOfSeq
<1>3. Sorted(Record(a))
  BY <1>1, <1>2 DEF Sorted
<1> QED
  BY <1>1, <1>3

\* It joins every window, and the oldest in a window stays the oldest.
LEMMA PrunedRecord ==
  ASSUME NEW a \in Seq(Nat), Sorted(a), NEW span \in Nat, span > 0
  PROVE  /\ Len(Pruned(Record(a), span)) = Len(Pruned(a, span)) + 1
         /\ Len(Pruned(a, span)) > 0 => Pruned(Record(a), span)[1] = Pruned(a, span)[1]
<1> DEFINE r == Record(a)
<1>1. Len(a) \in Nat /\ \A i \in 1..Len(a) : a[i] \in Nat
  BY LenProperties, ElementOfSeq
<1>2. /\ r \in Seq(Nat) /\ Sorted(r) /\ Len(r) = Len(a) + 1
      /\ \A i \in 1..Len(a) : r[i] = a[i]
      /\ r[Len(a) + 1] = 0
  BY RecordFacts
<1>3. PICK n \in 0..Len(a) :
         /\ \A i \in 1..n : a[i] >= span
         /\ \A i \in (n + 1)..Len(a) : a[i] < span
         /\ Len(Pruned(a, span)) = Len(a) - n
         /\ \A i \in 1..(Len(a) - n) : Pruned(a, span)[i] = a[i + n]
  BY PrunedList
<1> HIDE DEF r
<1>4. PICK m \in 0..Len(r) :
         /\ \A i \in 1..m : r[i] >= span
         /\ \A i \in (m + 1)..Len(r) : r[i] < span
         /\ Len(Pruned(r, span)) = Len(r) - m
         /\ \A i \in 1..(Len(r) - m) : Pruned(r, span)[i] = r[i + m]
  BY <1>2, PrunedList
<1>5. ~(n > m)
  <2> SUFFICES ASSUME n > m PROVE FALSE
    OBVIOUS
  <2>1. n \in (m + 1)..Len(r) /\ n \in 1..Len(a)
    BY <1>1, <1>2
  <2> QED
    BY <1>1, <1>2, <1>3, <1>4, <2>1
<1>6. ~(m > n)
  <2> SUFFICES ASSUME m > n PROVE FALSE
    OBVIOUS
  <2>1. m \in 1..m /\ (m \in (n + 1)..Len(a) \/ m = Len(a) + 1)
    BY <1>1, <1>2
  <2> QED
    BY <1>1, <1>2, <1>3, <1>4, <2>1
<1>7. m = n
  BY <1>1, <1>2, <1>5, <1>6
<1>8. Len(Pruned(r, span)) = Len(Pruned(a, span)) + 1
  BY <1>1, <1>2, <1>3, <1>4, <1>7
<1>9. Len(Pruned(a, span)) > 0 => Pruned(r, span)[1] = Pruned(a, span)[1]
  <2> SUFFICES ASSUME Len(a) - n > 0 PROVE Pruned(r, span)[1] = Pruned(a, span)[1]
    BY <1>3
  <2>1. 1 \in 1..(Len(a) - n) /\ 1 \in 1..(Len(r) - m) /\ 1 + n \in 1..Len(a)
    BY <1>1, <1>2, <1>7
  <2> QED
    BY <1>2, <1>3, <1>4, <1>7, <2>1
<1> QED
  BY <1>8, <1>9 DEF r

\* A unit later.
LEMMA OlderFacts ==
  ASSUME NEW a \in Seq(Nat), Sorted(a), NEW span \in Nat
  PROVE  \E n \in 0..Len(a) :
           /\ \A i \in 1..n : a[i] + 1 >= span
           /\ \A i \in (n + 1)..Len(a) : a[i] + 1 < span
           /\ Older(a, span) \in Seq(Nat) /\ Len(Older(a, span)) = Len(a) - n
           /\ \A i \in 1..(Len(a) - n) : Older(a, span)[i] = a[i + n] + 1
           /\ \A i \in 1..(Len(a) - n) : Older(a, span)[i] < span
           /\ Sorted(Older(a, span))
<1> DEFINE b == [i \in DOMAIN a |-> a[i] + 1]
<1>1. Len(a) \in Nat /\ DOMAIN a = 1..Len(a) /\ \A i \in 1..Len(a) : a[i] \in Nat
  BY LenProperties, ElementOfSeq
<1>2. b \in Seq(Nat) /\ Len(b) = Len(a)
  <2>1. b \in [1..Len(a) -> Nat]
    BY <1>1
  <2> QED
    BY <1>1, <2>1
<1>3. \A i \in 1..Len(a) : b[i] = a[i] + 1
  BY <1>1
<1>4. Older(a, span) = Pruned(b, span)
  BY DEF Older
<1> HIDE DEF b
<1>5. Sorted(b)
  BY <1>1, <1>2, <1>3 DEF Sorted
<1>6. PICK n \in 0..Len(b) :
         /\ \A i \in 1..n : b[i] >= span
         /\ \A i \in (n + 1)..Len(b) : b[i] < span
         /\ Pruned(b, span) \in Seq(Nat) /\ Len(Pruned(b, span)) = Len(b) - n
         /\ \A i \in 1..(Len(b) - n) : Pruned(b, span)[i] = b[i + n]
         /\ Sorted(Pruned(b, span))
  BY <1>2, <1>5, PrunedList
<1>7. n \in 0..Len(a)
  BY <1>2, <1>6
<1>8. \A i \in 1..n : a[i] + 1 >= span
  <2>1. \A i \in 1..n : i \in 1..Len(a)
    BY <1>1, <1>7
  <2> QED
    BY <1>3, <1>6, <2>1
<1>9. \A i \in (n + 1)..Len(a) : a[i] + 1 < span
  <2>1. \A i \in (n + 1)..Len(a) : i \in 1..Len(a)
    BY <1>1, <1>7
  <2> QED
    BY <1>2, <1>3, <1>6, <2>1
<1>10. \A i \in 1..(Len(a) - n) : i + n \in (n + 1)..Len(a) /\ i + n \in 1..Len(a)
  BY <1>1, <1>7
<1>11. \A i \in 1..(Len(a) - n) : Pruned(b, span)[i] = a[i + n] + 1
  BY <1>2, <1>3, <1>6, <1>10
<1>12. \A i \in 1..(Len(a) - n) : Pruned(b, span)[i] < span
  BY <1>9, <1>10, <1>11
<1> QED
  BY <1>2, <1>4, <1>6, <1>7, <1>8, <1>9, <1>11, <1>12

\* A unit later a window holds no more than before; its oldest element has left
\* it or nothing has.
LEMMA PrunedOlder ==
  ASSUME NEW a \in Seq(Nat), Sorted(a), NEW span \in Nat, NEW long \in Nat, span <= long
  PROVE  /\ Len(Pruned(Older(a, long), span)) <= Len(Pruned(a, span))
         /\ Len(Pruned(a, span)) > 0 /\ Pruned(a, span)[1] + 1 < span =>
              /\ Len(Pruned(Older(a, long), span)) = Len(Pruned(a, span))
              /\ Pruned(Older(a, long), span)[1] = Pruned(a, span)[1] + 1
<1> DEFINE o == Older(a, long)
<1>1. Len(a) \in Nat /\ \A i \in 1..Len(a) : a[i] \in Nat
  BY LenProperties, ElementOfSeq
<1>2. PICK n \in 0..Len(a) :
         /\ \A i \in 1..n : a[i] + 1 >= long
         /\ o \in Seq(Nat) /\ Len(o) = Len(a) - n
         /\ \A i \in 1..(Len(a) - n) : o[i] = a[i + n] + 1
         /\ Sorted(o)
  BY OlderFacts
<1>3. PICK k \in 0..Len(a) :
         /\ \A i \in 1..k : a[i] >= span
         /\ \A i \in (k + 1)..Len(a) : a[i] < span
         /\ Len(Pruned(a, span)) = Len(a) - k
         /\ \A i \in 1..(Len(a) - k) : Pruned(a, span)[i] = a[i + k]
  BY PrunedList
<1> HIDE DEF o
<1>4. PICK m \in 0..Len(o) :
         /\ \A i \in 1..m : o[i] >= span
         /\ \A i \in (m + 1)..Len(o) : o[i] < span
         /\ Len(Pruned(o, span)) = Len(o) - m
         /\ \A i \in 1..(Len(o) - m) : Pruned(o, span)[i] = o[i + m]
  BY <1>2, PrunedList
<1>5. k <= n + m
  <2> SUFFICES ASSUME n + m < k PROVE FALSE
    BY <1>1, <1>2, <1>3, <1>4
  <2>1. k - n \in (m + 1)..Len(o) /\ k - n \in 1..(Len(a) - n) /\ k \in 1..k /\ k \in 1..Len(a)
    BY <1>1, <1>2, <1>3, <1>4
  <2>2. o[k - n] = a[k] + 1 /\ a[k] >= span
    BY <1>1, <1>2, <1>3, <2>1
  <2>3. o[k - n] < span /\ a[k] \in Nat
    BY <1>1, <1>4, <2>1
  <2> QED
    BY <2>2, <2>3
<1>6. Len(Pruned(o, span)) <= Len(Pruned(a, span))
  BY <1>1, <1>2, <1>3, <1>4, <1>5
<1>7. ASSUME Len(a) - k > 0, a[k + 1] + 1 < span
      PROVE  n + m <= k
  <2>1. k + 1 \in 1..Len(a)
    BY <1>1, <1>3, <1>7
  <2>2. ~(k + 1 <= n)
    <3>1. k + 1 <= n => a[k + 1] + 1 >= long
      BY <1>2, <2>1
    <3> QED
      BY <1>1, <1>7, <2>1, <3>1
  <2>3. k + 1 - n \in 1..(Len(a) - n)
    BY <1>1, <1>2, <1>3, <2>1, <2>2
  <2>4. o[k + 1 - n] = a[k + 1] + 1
    BY <1>1, <1>2, <1>3, <2>1, <2>3
  <2>5. ~(k + 1 - n \in 1..m)
    BY <1>1, <1>4, <1>7, <2>1, <2>4
  <2> QED
    BY <1>1, <1>2, <1>3, <1>4, <2>3, <2>5
<1>8. ASSUME Len(Pruned(a, span)) > 0, Pruned(a, span)[1] + 1 < span
      PROVE  /\ Len(Pruned(o, span)) = Len(Pruned(a, span))
             /\ Pruned(o, span)[1] = Pruned(a, span)[1] + 1
  <2>1. Len(a) - k > 0 /\ 1 \in 1..(Len(a) - k) /\ Pruned(a, span)[1] = a[k + 1]
    <3>1. Len(a) - k > 0 /\ 1 \in 1..(Len(a) - k) /\ 1 + k = k + 1
      BY <1>1, <1>3, <1>8
    <3>2. Pruned(a, span)[1] = a[1 + k]
      BY <1>3, <3>1
    <3> QED
      BY <3>1, <3>2
  <2>2. k = n + m
    BY <1>1, <1>2, <1>3, <1>4, <1>5, <1>7, <1>8, <2>1
  <2>3. Len(Pruned(o, span)) = Len(Pruned(a, span))
    BY <1>1, <1>2, <1>3, <1>4, <2>2
  <2>4. 1 \in 1..(Len(o) - m) /\ 1 + m \in 1..(Len(a) - n) /\ 1 + m + n = k + 1
    BY <1>1, <1>2, <1>3, <1>4, <2>1, <2>2
  <2>5. Pruned(o, span)[1] = o[1 + m] /\ o[1 + m] = a[1 + m + n] + 1
    BY <1>2, <1>4, <2>4
  <2> QED
    BY <2>1, <2>3, <2>4, <2>5
<1> QED
  BY <1>6, <1>8 DEF o

-----------------------------------------------------------------------------
(***************************************************************************)
(* How long a window makes wait.                                           *)
(***************************************************************************)

\* The wait is within the window, and positive exactly while the window is full.
LEMMA WindowWaitFacts ==
  ASSUME NEW a \in Seq(Nat), Sorted(a), NEW span \in Nat, span > 0, NEW limit \in Nat \ {0}
  PROVE  /\ WindowWait(a, span, limit) \in 0..span
         /\ WindowWait(a, span, limit) = 0 => Len(Pruned(a, span)) < limit
         /\ Full(a, span, limit) => Len(Pruned(a, span)) > 0 /\ Pruned(a, span)[1] \in Nat
<1>1. PICK n \in 0..Len(a) :
         /\ \A i \in (n + 1)..Len(a) : a[i] < span
         /\ Len(Pruned(a, span)) = Len(a) - n
         /\ \A i \in 1..(Len(a) - n) : Pruned(a, span)[i] = a[i + n]
  BY PrunedList
<1>2. Len(a) \in Nat /\ \A i \in 1..Len(a) : a[i] \in Nat
  BY LenProperties, ElementOfSeq
<1>3. ASSUME Full(a, span, limit)
      PROVE  /\ Len(Pruned(a, span)) > 0
             /\ Pruned(a, span)[1] \in Nat /\ Pruned(a, span)[1] < span
  <2>1. Len(a) - n > 0
    BY <1>1, <1>2, <1>3 DEF Full
  <2>2. 1 \in 1..(Len(a) - n) /\ 1 + n \in (n + 1)..Len(a) /\ 1 + n \in 1..Len(a)
    BY <1>2, <2>1
  <2> QED
    BY <1>1, <1>2, <2>1, <2>2
<1>4. CASE Full(a, span, limit)
  BY <1>3, <1>4 DEF WindowWait
<1>5. CASE ~Full(a, span, limit)
  BY <1>1, <1>2, <1>5 DEF WindowWait, Full
<1> QED
  BY <1>4, <1>5

\* A request that is recorded makes nobody's wait shorter.
LEMMA WaitAfterRecord ==
  ASSUME NEW a \in Seq(Nat), Sorted(a), NEW span \in Nat, span > 0, NEW limit \in Nat \ {0}
  PROVE  WindowWait(Record(a), span, limit) >= WindowWait(a, span, limit)
<1>1. Record(a) \in Seq(Nat) /\ Sorted(Record(a))
  BY RecordFacts
<1>2. /\ WindowWait(a, span, limit) \in 0..span
      /\ Full(a, span, limit) => Len(Pruned(a, span)) > 0
  BY WindowWaitFacts
<1>3. WindowWait(Record(a), span, limit) \in 0..span
  BY <1>1, WindowWaitFacts
<1>4. CASE Full(a, span, limit)
  <2>1. Pruned(Record(a), span)[1] = Pruned(a, span)[1] /\ Full(Record(a), span, limit)
    <3>1. Len(Pruned(a, span)) \in Nat
      BY PrunedList, LenProperties
    <3> QED
      BY <1>2, <1>4, <3>1, PrunedRecord DEF Full
  <2> QED
    BY <1>2, <1>4, <2>1 DEF WindowWait
<1>5. CASE ~Full(a, span, limit)
  BY <1>3, <1>5 DEF WindowWait
<1> QED
  BY <1>4, <1>5

\* A unit later the wait is at most a unit shorter.
LEMMA WaitWhenOlder ==
  ASSUME NEW a \in Seq(Nat), Sorted(a), NEW span \in Nat, span > 0, NEW limit \in Nat \ {0},
         NEW long \in Nat, span <= long
  PROVE  WindowWait(Older(a, long), span, limit) >= WindowWait(a, span, limit) - 1
<1>1. Older(a, long) \in Seq(Nat) /\ Sorted(Older(a, long))
  BY OlderFacts
<1>2. /\ WindowWait(a, span, limit) \in 0..span
      /\ Full(a, span, limit) => Len(Pruned(a, span)) > 0 /\ Pruned(a, span)[1] \in Nat
  BY WindowWaitFacts
<1>3. WindowWait(Older(a, long), span, limit) \in 0..span
  BY <1>1, WindowWaitFacts
<1>4. CASE Full(a, span, limit) /\ Pruned(a, span)[1] + 1 < span
  <2>1. /\ Len(Pruned(Older(a, long), span)) = Len(Pruned(a, span))
        /\ Pruned(Older(a, long), span)[1] = Pruned(a, span)[1] + 1
    BY <1>2, <1>4, PrunedOlder
  <2>2. Full(Older(a, long), span, limit)
    BY <1>4, <2>1 DEF Full
  <2> QED
    BY <1>2, <1>4, <2>1, <2>2 DEF WindowWait
<1>5. CASE ~Full(a, span, limit)
  BY <1>3, <1>5 DEF WindowWait
<1>6. CASE Full(a, span, limit) /\ ~(Pruned(a, span)[1] + 1 < span)
  BY <1>2, <1>3, <1>6 DEF WindowWait
<1> QED
  BY <1>4, <1>5, <1>6

\* What the limiter of a site tells a caller with limits conf, as a function of
\* the list alone.
Last(a) == IF a = <<>> THEN Hour ELSE a[Len(a)]

MinuteWait(a, conf) ==
  IF conf.perMinute = 0 THEN 0 ELSE WindowWait(a, Minute, conf.perMinute)

SiteWait(a, conf) ==
  LargestOf(WindowWait(a, Hour, PerHour), MinuteWait(a, conf), conf.cooldown - Last(a))

Conf == [perMinute : Nat, cooldown : 0..Hour]

LEMMA LargestFacts ==
  ASSUME NEW m \in Int, NEW n \in Int, NEW k \in Int
  PROVE  /\ LargestOf(m, n, k) \in {m, n, k}
         /\ LargestOf(m, n, k) >= m /\ LargestOf(m, n, k) >= n /\ LargestOf(m, n, k) >= k
BY DEF LargestOf

LEMMA LastFacts ==
  ASSUME NEW a \in Ages, Sorted(a)
  PROVE  /\ a \in Seq(Nat) /\ Len(a) \in Nat
         /\ \A i \in 1..Len(a) : a[i] \in Nat /\ a[i] < Hour
         /\ Last(a) \in 0..Hour
         /\ Last(Record(a)) = 0
         /\ Last(Older(a, Hour)) <= Last(a) + 1
<1>1. /\ Len(a) \in Nat /\ a \in [1..Len(a) -> 0..(Hour - 1)]
      /\ \A i \in 1..Len(a) : a[i] \in 0..(Hour - 1)
  BY LenProperties, ElementOfSeq DEF Ages
<1>2. Hour \in Nat
  BY LimitsAssumption
<1>3. a \in [1..Len(a) -> Nat]
  BY <1>1, <1>2
<1>4. a \in Seq(Nat)
  BY <1>1, <1>3
<1>5. \A i \in 1..Len(a) : a[i] \in Nat /\ a[i] < Hour
  BY <1>1, <1>2
<1>6. a # <<>> => Len(a) > 0
  BY <1>4, EmptySeq
<1>7. Last(a) \in 0..Hour
  BY <1>1, <1>2, <1>6 DEF Last
<1>8. Last(Record(a)) = 0
  <2>1. Record(a) # <<>>
    BY <1>4, AppendProperties DEF Record
  <2> QED
    BY <1>4, <2>1, RecordFacts DEF Last
<1>9. Last(Older(a, Hour)) <= Last(a) + 1
  <2> DEFINE o == Older(a, Hour)
  <2>1. PICK n \in 0..Len(a) :
           /\ \A i \in 1..n : a[i] + 1 >= Hour
           /\ o \in Seq(Nat) /\ Len(o) = Len(a) - n
           /\ \A i \in 1..(Len(a) - n) : o[i] = a[i + n] + 1
    BY <1>2, <1>4, OlderFacts
  <2> HIDE DEF o
  <2>2. o = <<>> <=> Len(o) = 0
    BY <2>1, EmptySeq
  <2>6. Len(o) = Len(a) - n /\ n \in Nat /\ n <= Len(a) /\ Len(a) \in Nat
    BY <1>1, <2>1
  <2>3. CASE a = <<>>
    <3>1. Len(a) = 0
      BY <2>3
    <3>2. Last(o) = Hour /\ Last(a) = Hour
      BY <2>1, <2>2, <2>3, <3>1 DEF Last
    <3> QED
      BY <1>2, <3>2 DEF o
  <2>4. CASE a # <<>> /\ Len(o) = 0
    <3>1. n = Len(a) /\ Len(a) \in 1..n
      BY <1>6, <2>4, <2>6
    <3>2. a[Len(a)] + 1 >= Hour
      BY <2>1, <3>1
    <3> QED
      BY <1>2, <2>2, <2>4, <3>2 DEF Last, o
  <2>5. CASE a # <<>> /\ Len(o) # 0
    <3>1. Len(o) \in 1..(Len(a) - n) /\ Len(o) + n = Len(a)
      BY <2>5, <2>6
    <3>2. o[Len(o)] = a[Len(a)] + 1
      BY <2>1, <3>1
    <3>3. Last(o) = a[Len(a)] + 1 /\ Last(a) = a[Len(a)]
      BY <2>2, <2>5, <3>2 DEF Last
    <3> QED
      BY <1>7, <3>3 DEF o
  <2> QED
    BY <2>3, <2>4, <2>5
<1> QED
  BY <1>1, <1>4, <1>5, <1>7, <1>8, <1>9

LEMMA SiteWaitFacts ==
  ASSUME NEW a \in Ages, Sorted(a), NEW conf \in Conf
  PROVE  /\ SiteWait(a, conf) \in 0..Hour
         /\ SiteWait(a, conf) <= 0 =>
              /\ Len(a) < PerHour
              /\ conf.perMinute = 0 \/ Len(Pruned(a, Minute)) < conf.perMinute
<1>1. /\ Minute \in Nat /\ Hour \in Nat /\ 0 < Minute /\ Minute <= Hour
      /\ PerHour \in Nat \ {0} /\ conf.perMinute \in Nat /\ conf.cooldown \in 0..Hour
  BY LimitsAssumption DEF Conf
<1>2. a \in Seq(Nat) /\ (\A i \in 1..Len(a) : a[i] < Hour) /\ Last(a) \in 0..Hour
  BY LastFacts
<1>3. /\ WindowWait(a, Hour, PerHour) \in 0..Hour
      /\ WindowWait(a, Hour, PerHour) = 0 => Len(Pruned(a, Hour)) < PerHour
  BY <1>1, <1>2, WindowWaitFacts
<1>4. Len(Pruned(a, Hour)) = Len(a)
  BY <1>1, <1>2, PrunedWhole
<1>5. /\ MinuteWait(a, conf) \in 0..Minute
      /\ MinuteWait(a, conf) = 0 =>
           conf.perMinute = 0 \/ Len(Pruned(a, Minute)) < conf.perMinute
  <2>1. CASE conf.perMinute = 0
    BY <1>1, <2>1 DEF MinuteWait
  <2>2. CASE conf.perMinute # 0
    BY <1>1, <1>2, <2>2, WindowWaitFacts DEF MinuteWait
  <2> QED
    BY <2>1, <2>2
<1>6. conf.cooldown - Last(a) \in Int /\ conf.cooldown - Last(a) <= Hour
  BY <1>1, <1>2
<1> DEFINE w == SiteWait(a, conf)
<1>7. /\ w \in {WindowWait(a, Hour, PerHour), MinuteWait(a, conf), conf.cooldown - Last(a)}
      /\ w >= WindowWait(a, Hour, PerHour) /\ w >= MinuteWait(a, conf)
  <2>1. WindowWait(a, Hour, PerHour) \in Int /\ MinuteWait(a, conf) \in Int
    BY <1>1, <1>3, <1>5
  <2> QED
    BY <1>6, <2>1, LargestFacts DEF SiteWait
<1> HIDE DEF w
<1>8. w \in 0..Hour
  BY <1>1, <1>3, <1>5, <1>6, <1>7
<1>9. ASSUME w <= 0
      PROVE  WindowWait(a, Hour, PerHour) = 0 /\ MinuteWait(a, conf) = 0
  BY <1>1, <1>3, <1>5, <1>7, <1>8, <1>9
<1> QED
  BY <1>3, <1>4, <1>5, <1>8, <1>9 DEF w

\* Both kinds of change keep what a list of ages is, and shorten no wait by more
\* than the time that has passed.
LEMMA RecordKeeps ==
  ASSUME NEW a \in Ages, Sorted(a)
  PROVE  /\ Record(a) \in Ages /\ Sorted(Record(a))
         /\ \A conf \in Conf : SiteWait(Record(a), conf) >= SiteWait(a, conf)
<1>1. /\ Minute \in Nat /\ Hour \in Nat /\ 0 < Minute /\ Minute <= Hour
      /\ PerHour \in Nat \ {0}
  BY LimitsAssumption
<1>2. a \in Seq(Nat) /\ Last(a) \in 0..Hour /\ Last(Record(a)) = 0
  BY LastFacts
<1>3. Record(a) \in Ages
  <2>1. 0 \in 0..(Hour - 1)
    BY <1>1
  <2> QED
    BY <2>1, AppendProperties DEF Ages, Record
<1>4. Sorted(Record(a)) /\ Record(a) \in Seq(Nat)
  BY <1>2, RecordFacts
<1>5. ASSUME NEW conf \in Conf
      PROVE  SiteWait(Record(a), conf) >= SiteWait(a, conf)
  <2>1. conf.perMinute \in Nat /\ conf.cooldown \in 0..Hour
    BY DEF Conf
  <2>2. /\ WindowWait(a, Hour, PerHour) \in Int /\ WindowWait(Record(a), Hour, PerHour) \in Int
        /\ WindowWait(Record(a), Hour, PerHour) >= WindowWait(a, Hour, PerHour)
    BY <1>1, <1>2, <1>4, WindowWaitFacts, WaitAfterRecord
  <2>3. /\ MinuteWait(a, conf) \in Int /\ MinuteWait(Record(a), conf) \in Int
        /\ MinuteWait(Record(a), conf) >= MinuteWait(a, conf)
    <3>1. CASE conf.perMinute = 0
      BY <3>1 DEF MinuteWait
    <3>2. CASE conf.perMinute # 0
      <4>1. conf.perMinute \in Nat \ {0}
        BY <2>1, <3>2
      <4>2. /\ WindowWait(a, Minute, conf.perMinute) \in 0..Minute
            /\ WindowWait(Record(a), Minute, conf.perMinute) \in 0..Minute
        BY <1>1, <1>2, <1>4, <4>1, WindowWaitFacts
      <4>3. WindowWait(Record(a), Minute, conf.perMinute) >=
              WindowWait(a, Minute, conf.perMinute)
        BY <1>1, <1>2, <4>1, WaitAfterRecord
      <4> QED
        BY <1>1, <3>2, <4>2, <4>3 DEF MinuteWait
    <3> QED
      BY <3>1, <3>2
  <2>4. /\ conf.cooldown - Last(a) \in Int /\ conf.cooldown - Last(Record(a)) \in Int
        /\ conf.cooldown - Last(Record(a)) >= conf.cooldown - Last(a)
    BY <1>1, <1>2, <2>1
  <2> QED
    BY <2>2, <2>3, <2>4 DEF SiteWait, LargestOf
<1> QED
  BY <1>3, <1>4, <1>5

LEMMA OlderKeeps ==
  ASSUME NEW a \in Ages, Sorted(a), NEW span \in Nat, span > 0, span <= Hour
  PROVE  /\ Older(a, span) \in Ages /\ Sorted(Older(a, span))
         /\ \A i \in 1..Len(Older(a, span)) : Older(a, span)[i] < span
         /\ Len(Older(a, span)) <= Len(a)
<1>1. Hour \in Nat /\ a \in Seq(Nat) /\ Len(a) \in Nat
  BY LimitsAssumption, LastFacts
<1>2. PICK n \in 0..Len(a) :
         /\ Older(a, span) \in Seq(Nat) /\ Len(Older(a, span)) = Len(a) - n
         /\ \A i \in 1..(Len(a) - n) : Older(a, span)[i] < span
         /\ Sorted(Older(a, span))
  BY <1>1, OlderFacts
<1> DEFINE o == Older(a, span)
<1> HIDE DEF o
<1>3. \A i \in 1..Len(o) : o[i] \in 0..(Hour - 1)
  <2>1. \A i \in 1..Len(o) : o[i] \in Nat /\ o[i] < span
    BY <1>2, ElementOfSeq DEF o
  <2> QED
    BY <1>1, <2>1
<1>4. o \in Ages
  <2> DEFINE R == 0..(Hour - 1)
  <2>1. o \in [1..Len(o) -> Nat] /\ Len(o) \in Nat
    BY <1>2, LenProperties DEF o
  <2>2. o \in [1..Len(o) -> R]
    BY <1>3, <2>1
  <2>3. Ages = Seq(R)
    BY DEF Ages
  <2> HIDE DEF R
  <2> QED
    BY <2>1, <2>2, <2>3
<1> QED
  BY <1>1, <1>2, <1>4 DEF o

LEMMA SiteWaitWhenOlder ==
  ASSUME NEW a \in Ages, Sorted(a), NEW conf \in Conf
  PROVE  SiteWait(Older(a, Hour), conf) >= SiteWait(a, conf) - 1
<1>1. /\ Minute \in Nat /\ Hour \in Nat /\ 0 < Minute /\ Minute <= Hour
      /\ PerHour \in Nat \ {0} /\ conf.perMinute \in Nat /\ conf.cooldown \in 0..Hour
  BY LimitsAssumption DEF Conf
<1> DEFINE o == Older(a, Hour)
<1>2. a \in Seq(Nat) /\ Last(a) \in 0..Hour /\ Last(o) <= Last(a) + 1
  BY LastFacts
<1>3. o \in Ages /\ Sorted(o)
  BY <1>1, OlderKeeps
<1>4. o \in Seq(Nat) /\ Last(o) \in 0..Hour
  BY <1>3, LastFacts
<1> HIDE DEF o
<1>5. /\ WindowWait(a, Hour, PerHour) \in Int /\ WindowWait(o, Hour, PerHour) \in Int
      /\ WindowWait(o, Hour, PerHour) >= WindowWait(a, Hour, PerHour) - 1
  <2>1. /\ WindowWait(a, Hour, PerHour) \in 0..Hour
        /\ WindowWait(o, Hour, PerHour) \in 0..Hour
    <3>1. Hour \in Nat /\ Hour > 0 /\ PerHour \in Nat \ {0}
      BY <1>1
    <3>2. WindowWait(a, Hour, PerHour) \in 0..Hour
      BY <1>2, <3>1, WindowWaitFacts
    <3>3. WindowWait(o, Hour, PerHour) \in 0..Hour
      BY <1>3, <1>4, <3>1, WindowWaitFacts
    <3> QED
      BY <3>2, <3>3
  <2>2. WindowWait(o, Hour, PerHour) >= WindowWait(a, Hour, PerHour) - 1
    BY <1>1, <1>2, WaitWhenOlder DEF o
  <2> QED
    BY <1>1, <2>1, <2>2
<1>6. /\ MinuteWait(a, conf) \in Int /\ MinuteWait(o, conf) \in Int
      /\ MinuteWait(o, conf) >= MinuteWait(a, conf) - 1
  <2>1. CASE conf.perMinute = 0
    BY <2>1 DEF MinuteWait
  <2>2. CASE conf.perMinute # 0
    <3>1. conf.perMinute \in Nat \ {0}
      BY <1>1, <2>2
    <3>2. /\ WindowWait(a, Minute, conf.perMinute) \in 0..Minute
          /\ WindowWait(o, Minute, conf.perMinute) \in 0..Minute
      BY <1>1, <1>2, <1>3, <1>4, <3>1, WindowWaitFacts
    <3>3. WindowWait(o, Minute, conf.perMinute) >=
            WindowWait(a, Minute, conf.perMinute) - 1
      BY <1>1, <1>2, <3>1, WaitWhenOlder DEF o
    <3> QED
      BY <1>1, <2>2, <3>2, <3>3 DEF MinuteWait
  <2> QED
    BY <2>1, <2>2
<1>7. /\ conf.cooldown - Last(a) \in Int /\ conf.cooldown - Last(o) \in Int
      /\ conf.cooldown - Last(o) >= conf.cooldown - Last(a) - 1
  BY <1>1, <1>2, <1>4
<1>8. SiteWait(o, conf) >= SiteWait(a, conf) - 1
  BY <1>5, <1>6, <1>7 DEF SiteWait, LargestOf
<1> QED
  BY <1>8 DEF o

-----------------------------------------------------------------------------
(***************************************************************************)
(* The limiters.  What is recorded is sorted and young; a caller that      *)
(* sleeps goes by the default limits or by those of the moment; the        *)
(* windows hold; nobody has to sleep longer than a new caller would.       *)
(***************************************************************************)

Caller == [pc : {"idle", "toolSleep", "robots", "rateSleep", "navigating", "clicking"},
           op : Tool \cup {"none"}, site : Site \cup {"none"}, sleep : 0..Hour,
           conf : Config, limited : BOOLEAN]

ListsOK ==
  /\ age \in [Site -> Ages] /\ \A s \in Site : Sorted(age[s])
  /\ toolAge \in [ToolKey -> Ages]
  /\ \A k \in ToolKey : /\ Sorted(toolAge[k])
                        /\ \A i \in 1..Len(toolAge[k]) : toolAge[k][i] < Span(k)

SiteWindows ==
  \A s \in Site :
    /\ Len(age[s]) <= PerHour
    /\ \E c \in {Default, limits[Own][s]} :
         c.perMinute = 0 \/ Len(Pruned(age[s], Minute)) <= c.perMinute

ToolWindows ==
  /\ \A tool \in Tool : ToolPerMinute > 0 => Len(toolAge[tool]) <= ToolPerMinute
  /\ Len(toolAge["total"]) <= ToolCap

ToolWaitOf(a) == IF ToolPerMinute = 0 THEN 0 ELSE WindowWait(a, Minute, ToolPerMinute)

Placed(l) ==
  /\ l.pc \in {"robots", "rateSleep", "navigating"} => l.site \in Site
  /\ l.pc = "toolSleep" => l.op \in Tool /\ (l.op = "safe_goto" => l.site \in Site)

Asked(l) == l.conf \in {Default, limits[Own][l.site]}

CallerOK(l) ==
  /\ Placed(l)
  /\ l.pc = "rateSleep" => Asked(l) /\ l.sleep <= SiteWait(age[l.site], l.conf)
  /\ l.pc = "toolSleep" => l.sleep <= ToolWaitOf(toolAge[l.op])

LimiterInv ==
  /\ ListsOK /\ SiteWindows /\ ToolWindows
  /\ limits \in [Account -> [Site -> Config]]
  /\ task \in [Task -> Caller]
  /\ \A t \in Task : CallerOK(task[t])

LEMMA ConstantFacts ==
  /\ Minute \in Nat /\ Hour \in Nat /\ 0 < Minute /\ Minute <= Hour /\ Own \in Account
  /\ PerHour \in Nat \ {0} /\ ToolPerMinute \in Nat /\ ToolCap \in Nat
  /\ Config \subseteq Conf /\ Default \in Config /\ Other \in Config /\ 0 \in 0..Hour
BY LimitsAssumption DEF Config, Conf

LEMMA SameWaits ==
  /\ \A s, conf : RateWait(s, conf) = SiteWait(age[s], conf)
  /\ \A tool : ToolWait(tool) = ToolWaitOf(toolAge[tool])
BY DEF RateWait, SiteWait, MinuteWait, SinceLast, Last, ToolWait, ToolWaitOf

LEMMA ToolWaitFacts ==
  ASSUME NEW a \in Ages, Sorted(a), \A i \in 1..Len(a) : a[i] < Minute
  PROVE  /\ ToolWaitOf(a) \in 0..Hour
         /\ ToolWaitOf(a) <= 0 /\ ToolPerMinute > 0 => Len(a) < ToolPerMinute
         /\ ToolWaitOf(Record(a)) >= ToolWaitOf(a)
         /\ ToolWaitOf(Older(a, Minute)) >= ToolWaitOf(a) - 1
<1>1. /\ Minute \in Nat /\ Hour \in Nat /\ 0 < Minute /\ Minute <= Hour
      /\ ToolPerMinute \in Nat
  BY ConstantFacts
<1>2. a \in Seq(Nat)
  BY LastFacts
<1>3. CASE ToolPerMinute = 0
  BY <1>1, <1>3 DEF ToolWaitOf
<1>4. CASE ToolPerMinute # 0
  <2>1. ToolPerMinute \in Nat \ {0} /\ Minute > 0 /\ Minute <= Minute
    BY <1>1, <1>4
  <2>2. /\ WindowWait(a, Minute, ToolPerMinute) \in 0..Minute
        /\ WindowWait(a, Minute, ToolPerMinute) = 0 => Len(Pruned(a, Minute)) < ToolPerMinute
    BY <1>1, <1>2, <2>1, WindowWaitFacts
  <2>3. Len(Pruned(a, Minute)) = Len(a)
    BY <1>1, <1>2, PrunedWhole
  <2>4. WindowWait(Record(a), Minute, ToolPerMinute) >= WindowWait(a, Minute, ToolPerMinute)
    BY <1>1, <1>2, <2>1, WaitAfterRecord
  <2>5. WindowWait(Older(a, Minute), Minute, ToolPerMinute) >=
          WindowWait(a, Minute, ToolPerMinute) - 1
    BY <1>1, <1>2, <2>1, WaitWhenOlder
  <2> QED
    BY <1>1, <1>4, <2>2, <2>3, <2>4, <2>5 DEF ToolWaitOf
<1> QED
  BY <1>3, <1>4

\* A step that only records, in any of the lists.
Grows ==
  /\ age' \in [Site -> Ages] /\ toolAge' \in [ToolKey -> Ages]
  /\ \A s \in Site : age'[s] = age[s] \/ age'[s] = Record(age[s])
  /\ \A k \in ToolKey : toolAge'[k] = toolAge[k] \/ toolAge'[k] = Record(toolAge[k])
  /\ limits' = limits

LEMMA GrowsKeepsLists ==
  ASSUME ListsOK, Grows
  PROVE  ListsOK'
<1>1. \A s \in Site : Sorted(age'[s])
  BY RecordKeeps DEF ListsOK, Grows
<1>2. ASSUME NEW k \in ToolKey
      PROVE  Sorted(toolAge'[k]) /\ \A i \in 1..Len(toolAge'[k]) : toolAge'[k][i] < Span(k)
  <2>1. toolAge[k] \in Ages /\ Sorted(toolAge[k])
    BY DEF ListsOK
  <2>2. toolAge[k] \in Seq(Nat) /\ Len(toolAge[k]) \in Nat
    BY <2>1, LastFacts
  <2>3. Span(k) > 0
    BY ConstantFacts DEF Span
  <2>4. CASE toolAge'[k] = toolAge[k]
    BY <2>4 DEF ListsOK
  <2>5. CASE toolAge'[k] = Record(toolAge[k])
    <3>1. /\ Sorted(Record(toolAge[k])) /\ Len(Record(toolAge[k])) = Len(toolAge[k]) + 1
          /\ \A i \in 1..Len(toolAge[k]) : Record(toolAge[k])[i] = toolAge[k][i]
          /\ Record(toolAge[k])[Len(toolAge[k]) + 1] = 0
      BY <2>1, <2>2, RecordFacts
    <3>2. \A i \in 1..Len(toolAge[k]) : Record(toolAge[k])[i] < Span(k)
      BY <3>1 DEF ListsOK
    <3> QED
      BY <2>2, <2>3, <2>5, <3>1, <3>2
  <2> QED
    BY <2>4, <2>5 DEF Grows
<1> QED
  BY <1>1, <1>2 DEF ListsOK, Grows

LEMMA GrowsKeepsCallers ==
  ASSUME ListsOK, Grows, NEW l \in Caller, CallerOK(l)
  PROVE  CallerOK(l)'
<1>1. Placed(l)'
  BY DEF CallerOK, Placed
<1>2. ASSUME l.pc = "rateSleep"
      PROVE  Asked(l)' /\ l.sleep <= SiteWait(age'[l.site], l.conf)
  <2>1. /\ l.site \in Site /\ l.conf \in Conf /\ l.sleep \in 0..Hour
        /\ Asked(l) /\ l.sleep <= SiteWait(age[l.site], l.conf)
    BY <1>2, ConstantFacts DEF CallerOK, Placed, Caller
  <2>2. Asked(l)'
    BY <2>1 DEF Asked, Grows
  <2>3. age[l.site] \in Ages /\ Sorted(age[l.site])
    BY <2>1 DEF ListsOK
  <2>4. age'[l.site] \in Ages /\ Sorted(age'[l.site])
    BY <2>1, <2>3, RecordKeeps DEF Grows
  <2>5. SiteWait(age'[l.site], l.conf) >= SiteWait(age[l.site], l.conf)
    <3>1. SiteWait(age[l.site], l.conf) \in Int
      BY <2>1, <2>3, SiteWaitFacts
    <3> QED
      BY <2>1, <2>3, <3>1, RecordKeeps DEF Grows
  <2>6. /\ SiteWait(age[l.site], l.conf) \in Int /\ SiteWait(age'[l.site], l.conf) \in Int
    BY <2>1, <2>3, <2>4, SiteWaitFacts
  <2> QED
    BY <2>1, <2>2, <2>5, <2>6, ConstantFacts
<1>3. ASSUME l.pc = "toolSleep"
      PROVE  l.sleep <= ToolWaitOf(toolAge'[l.op])
  <2>1. l.op \in Tool /\ l.sleep \in 0..Hour /\ l.sleep <= ToolWaitOf(toolAge[l.op])
    BY <1>3 DEF CallerOK, Placed, Caller
  <2>2. /\ toolAge[l.op] \in Ages /\ Sorted(toolAge[l.op])
        /\ \A i \in 1..Len(toolAge[l.op]) : toolAge[l.op][i] < Minute
    BY <2>1 DEF ListsOK, Tool, ToolKey, Span
  <2>3. /\ toolAge'[l.op] \in Ages /\ Sorted(toolAge'[l.op])
        /\ \A i \in 1..Len(toolAge'[l.op]) : toolAge'[l.op][i] < Minute
    BY <2>1, GrowsKeepsLists DEF ListsOK, Tool, ToolKey, Span
  <2>4. ToolWaitOf(toolAge[l.op]) \in 0..Hour /\ ToolWaitOf(toolAge'[l.op]) \in 0..Hour
    BY <2>2, <2>3, ToolWaitFacts
  <2>5. ToolWaitOf(toolAge'[l.op]) >= ToolWaitOf(toolAge[l.op])
    BY <2>1, <2>2, <2>4, ToolWaitFacts DEF Grows, Tool, ToolKey
  <2> QED
    BY <2>1, <2>4, <2>5, ConstantFacts
<1> QED
  BY <1>1, <1>2, <1>3 DEF CallerOK

\* What a call may do to the lists of the sites and to its own state.
AgeStep ==
  /\ age' \in [Site -> Ages] /\ SiteWindows'
  /\ \A s \in Site : age'[s] = age[s] \/ age'[s] = Record(age[s])

Goes(t) == \E l \in Caller : task' = [task EXCEPT ![t] = l] /\ CallerOK(l)'

LEMMA AgeUnchanged ==
  ASSUME LimiterInv, limits' = limits, age' = age
  PROVE  AgeStep
BY DEF LimiterInv, ListsOK, AgeStep, SiteWindows

LEMMA Returns ==
  ASSUME LimiterInv, NEW t, Return(t)
  PROVE  Goes(t)
<1>1. Idle \in Caller
  BY ConstantFacts DEF Idle, Caller
<1>2. CallerOK(Idle)'
  BY DEF CallerOK, Placed, Idle
<1> QED
  BY <1>1, <1>2 DEF Return, Become, Goes

LEMMA Navigates ==
  ASSUME LimiterInv, NEW t, NEW local \in Caller, local.site \in Site, Navigate(t, local)
  PROVE  Goes(t)
<1>1. CASE open
  <2> DEFINE l == [Idle EXCEPT !.pc = "navigating", !.op = local.op, !.site = local.site]
  <2>1. l \in Caller
    BY ConstantFacts DEF Idle, Caller
  <2>2. l.pc = "navigating" /\ l.site \in Site
    BY DEF Idle
  <2>3. CallerOK(l)'
    BY <2>2 DEF CallerOK, Placed
  <2>4. task' = [task EXCEPT ![t] = l]
    BY <1>1 DEF Navigate, Become
  <2> QED
    BY <2>1, <2>3, <2>4 DEF Goes
<1>2. CASE ~open
  BY <1>2, Returns DEF Navigate
<1> QED
  BY <1>1, <1>2

\* The request that a site's limiter grants fits into both windows.
LEMMA Grants ==
  ASSUME LimiterInv, NEW s \in Site, NEW c \in {Default, limits[Own][s]},
         SiteWait(age[s], c) <= 0,
         age' = [age EXCEPT ![s] = Record(@)], limits' = limits
  PROVE  AgeStep
<1>1. c \in Conf /\ Default \in Conf /\ Minute \in Nat /\ Minute > 0
  BY ConstantFacts DEF LimiterInv
<1>2. age \in [Site -> Ages] /\ \A r \in Site : Sorted(age[r])
  BY DEF LimiterInv, ListsOK
<1>3. age[s] \in Ages /\ Sorted(age[s]) /\ age[s] \in Seq(Nat) /\ Len(age[s]) \in Nat
  BY <1>2, LastFacts
<1>4. age' \in [Site -> Ages] /\ \A r \in Site : age'[r] = IF r = s THEN Record(age[r]) ELSE age[r]
  <2>1. Record(age[s]) \in Ages
    BY <1>3, RecordKeeps
  <2> QED
    BY <1>2, <2>1
<1>5. /\ Len(age[s]) < PerHour
      /\ c.perMinute = 0 \/ Len(Pruned(age[s], Minute)) < c.perMinute
  BY <1>1, <1>3, SiteWaitFacts
<1>6. Len(Record(age[s])) = Len(age[s]) + 1
  BY <1>3, RecordFacts
<1>7. Len(Pruned(Record(age[s]), Minute)) = Len(Pruned(age[s], Minute)) + 1
  BY <1>1, <1>3, PrunedRecord
<1>8. Len(Pruned(age[s], Minute)) \in Nat
  BY <1>1, <1>3, PrunedList, LenProperties
<1>9. ASSUME NEW r \in Site
      PROVE  /\ Len(age'[r]) <= PerHour
             /\ \E d \in {Default, limits[Own][r]} :
                  d.perMinute = 0 \/ Len(Pruned(age'[r], Minute)) <= d.perMinute
  <2>1. CASE r # s
    BY <1>4, <2>1 DEF LimiterInv, SiteWindows
  <2>2. CASE r = s
    <3>1. Len(age'[s]) <= PerHour
      BY <1>3, <1>4, <1>5, <1>6, ConstantFacts
    <3>2. c.perMinute = 0 \/ Len(Pruned(age'[s], Minute)) <= c.perMinute
      <4>1. c.perMinute \in Nat
        BY <1>1 DEF Conf
      <4> QED
        BY <1>4, <1>5, <1>7, <1>8, <4>1
    <3> QED
      BY <2>2, <3>1, <3>2
  <2> QED
    BY <2>1, <2>2
<1> QED
  BY <1>4, <1>9 DEF AgeStep, SiteWindows

LEMMA RateRoundStep ==
  ASSUME LimiterInv, limits' = limits, NEW t \in Task, NEW local \in Caller,
         local.site \in Site, Asked(local), RateRound(t, local)
  PROVE  AgeStep /\ Goes(t)
<1> DEFINE w == RateWait(local.site, local.conf)
<1>1. /\ age[local.site] \in Ages /\ Sorted(age[local.site])
      /\ local.conf \in Conf /\ w = SiteWait(age[local.site], local.conf)
  BY SameWaits, ConstantFacts DEF LimiterInv, ListsOK, Caller
<1>2. w \in Int /\ w <= Hour
  BY <1>1, SiteWaitFacts
<1>3. CASE w > 0
  <2> DEFINE l == [local EXCEPT !.pc = "rateSleep", !.sleep = w]
  <2>1. age' = age /\ task' = [task EXCEPT ![t] = l]
    BY <1>3 DEF RateRound, Become
  <2>2. w \in 0..Hour
    BY <1>2, <1>3, ConstantFacts
  <2> HIDE DEF w
  <2>3. /\ l \in Caller /\ l.pc = "rateSleep" /\ l.sleep = w
        /\ l.site = local.site /\ l.conf = local.conf
    BY <2>2 DEF Caller
  <2> HIDE DEF l
  <2>4. PICK m \in Caller : m = l
    BY <2>3
  <2>5. m.sleep <= SiteWait(age'[m.site], m.conf)
    BY <1>1, <1>2, <2>1, <2>3, <2>4
  <2>6. Asked(m)' /\ Placed(m)'
    BY <2>3, <2>4 DEF Asked, Placed
  <2>7. CallerOK(m)'
    BY <2>3, <2>4, <2>5, <2>6 DEF CallerOK
  <2>8. Goes(t)
    BY <2>1, <2>4, <2>7 DEF Goes
  <2> QED
    BY <2>1, <2>8, AgeUnchanged
<1>4. CASE ~(w > 0)
  <2>1. age' = [age EXCEPT ![local.site] = Record(@)] /\ Navigate(t, local)
    BY <1>4 DEF RateRound
  <2>2. SiteWait(age[local.site], local.conf) <= 0
    BY <1>1, <1>2, <1>4
  <2>3. AgeStep
    BY <2>1, <2>2, Grants DEF Asked
  <2> QED
    BY <2>1, <2>3, Navigates
<1> QED
  BY <1>3, <1>4

LEMMA GatesStep ==
  ASSUME LimiterInv, limits' = limits, NEW t \in Task, NEW local \in Caller,
         local.site \in Site, Gates(t, local)
  PROVE  AgeStep /\ Goes(t)
<1>1. CASE Return(t) /\ UNCHANGED age
  BY <1>1, Returns, AgeUnchanged
<1>2. CASE Navigate(t, local) /\ UNCHANGED age
  BY <1>2, Navigates, AgeUnchanged
<1>3. CASE RateRound(t, [local EXCEPT !.conf = limits[Own][local.site]])
  <2> DEFINE l == [local EXCEPT !.conf = limits[Own][local.site]]
  <2>1. limits[Own][local.site] \in Config
    BY ConstantFacts DEF LimiterInv
  <2>2. l \in Caller /\ l.site = local.site /\ l.conf = limits[Own][local.site]
    BY <2>1 DEF Caller
  <2>3. Asked(l)
    BY <2>2 DEF Asked
  <2> HIDE DEF l
  <2> QED
    BY <1>3, <2>2, <2>3, RateRoundStep DEF l
<1> QED
  BY <1>1, <1>2, <1>3 DEF Gates

LEMMA PastToolLimiterStep ==
  ASSUME LimiterInv, limits' = limits, NEW t \in Task, NEW local \in Caller,
         local.op \in Tool, local.op = "safe_goto" => local.site \in Site,
         PastToolLimiter(t, local)
  PROVE  AgeStep /\ Goes(t)
<1>1. CASE local.op = "safe_click"
  <2>1. CASE open
    <3> DEFINE l == [local EXCEPT !.pc = "clicking", !.sleep = 0]
    <3>1. l \in Caller /\ l.pc = "clicking"
      BY ConstantFacts DEF Caller
    <3>2. age' = age /\ task' = [task EXCEPT ![t] = l]
      BY <1>1, <2>1 DEF PastToolLimiter, Become
    <3> HIDE DEF l
    <3>3. CallerOK(l)'
      BY <3>1 DEF CallerOK, Placed
    <3> QED
      BY <3>1, <3>2, <3>3, AgeUnchanged DEF Goes
  <2>2. CASE ~open
    BY <1>1, <2>2, Returns, AgeUnchanged DEF PastToolLimiter
  <2> QED
    BY <2>1, <2>2
<1>2. CASE local.op # "safe_click"
  <2>1. local.site \in Site
    BY <1>2 DEF Tool
  <2>2. CASE Gates(t, local)
    BY <2>1, <2>2, GatesStep
  <2>3. CASE Become(t, [local EXCEPT !.pc = "robots", !.sleep = 0]) /\ UNCHANGED age
    <3> DEFINE l == [local EXCEPT !.pc = "robots", !.sleep = 0]
    <3>1. l \in Caller /\ l.pc = "robots" /\ l.site \in Site
      BY <2>1, ConstantFacts DEF Caller
    <3>2. age' = age /\ task' = [task EXCEPT ![t] = l]
      BY <2>3 DEF Become
    <3> HIDE DEF l
    <3>3. CallerOK(l)'
      BY <3>1 DEF CallerOK, Placed
    <3> QED
      BY <3>1, <3>2, <3>3, AgeUnchanged DEF Goes
  <2> QED
    BY <1>2, <2>2, <2>3 DEF PastToolLimiter
<1> QED
  BY <1>1, <1>2

\* A step of one caller.
LEMMA CallerSteps ==
  ASSUME LimiterInv, NEW t \in Task, AgeStep, Goes(t), limits' = limits,
         toolAge' \in [ToolKey -> Ages], ToolWindows',
         \A k \in ToolKey : toolAge'[k] = toolAge[k] \/ toolAge'[k] = Record(toolAge[k])
  PROVE  LimiterInv'
<1>1. Grows
  BY DEF Grows, AgeStep
<1>2. ListsOK'
  BY <1>1, GrowsKeepsLists DEF LimiterInv
<1>3. PICK l \in Caller : task' = [task EXCEPT ![t] = l] /\ CallerOK(l)'
  BY DEF Goes
<1>4. task' \in [Task -> Caller] /\ \A u \in Task : task'[u] = IF u = t THEN l ELSE task[u]
  BY <1>3 DEF LimiterInv
<1>5. ASSUME NEW u \in Task
      PROVE  CallerOK(task[u])'
  <2>1. CASE u = t
    BY <1>3, <1>4, <2>1 DEF CallerOK, Placed, Asked
  <2>2. CASE u # t
    <3>1. PICK m \in Caller : m = task[u]
      BY DEF LimiterInv
    <3>2. CallerOK(m)
      BY <3>1 DEF LimiterInv
    <3>3. CallerOK(m)'
      BY <1>1, <3>2, GrowsKeepsCallers DEF LimiterInv
    <3>4. task'[u] = m
      BY <1>4, <2>2, <3>1
    <3> QED
      BY <3>3, <3>4 DEF CallerOK, Placed, Asked
  <2> QED
    BY <2>1, <2>2
<1> QED
  BY <1>2, <1>4, <1>5 DEF LimiterInv, AgeStep

LEMMA ToolRoundStep ==
  ASSUME LimiterInv, limits' = limits, NEW t \in Task, NEW local \in Caller,
         local.op \in Tool, local.op = "safe_goto" => local.site \in Site,
         ToolRound(t, local)
  PROVE  LimiterInv'
<1> DEFINE k == local.op
           w == ToolWait(local.op)
<1>1. /\ \A j \in ToolKey : toolAge[j] \in Ages /\ Sorted(toolAge[j])
      /\ toolAge \in [ToolKey -> Ages] /\ k \in ToolKey /\ "total" \in ToolKey
      /\ k # "total" /\ \A i \in 1..Len(toolAge[k]) : toolAge[k][i] < Minute
  BY DEF LimiterInv, ListsOK, ToolKey, Tool, Span
<1>2. /\ w = ToolWaitOf(toolAge[k]) /\ w \in 0..Hour
      /\ w <= 0 /\ ToolPerMinute > 0 => Len(toolAge[k]) < ToolPerMinute
  BY <1>1, SameWaits, ToolWaitFacts
<1>3. ASSUME Goes(t), UNCHANGED <<toolAge, age>>
      PROVE  LimiterInv'
  <2>1. ToolWindows' /\ toolAge' \in [ToolKey -> Ages] /\ AgeStep
    BY <1>1, <1>3, AgeUnchanged DEF LimiterInv, ToolWindows
  <2> QED
    BY <1>3, <2>1, CallerSteps
<1>4. CASE Full(toolAge["total"], Hour, ToolCap)
  BY <1>3, <1>4, Returns DEF ToolRound
<1>5. CASE ~Full(toolAge["total"], Hour, ToolCap) /\ w > 0
  <2> DEFINE l == [local EXCEPT !.pc = "toolSleep", !.sleep = w]
  <2>1. toolAge' = toolAge /\ age' = age /\ task' = [task EXCEPT ![t] = l]
    BY <1>5 DEF ToolRound, Become
  <2> HIDE DEF w
  <2>2. /\ l \in Caller /\ l.pc = "toolSleep" /\ l.sleep = w
        /\ l.site = local.site /\ l.op = local.op
    BY <1>2 DEF Caller
  <2> HIDE DEF l
  <2>3. PICK m \in Caller : m = l
    BY <2>2
  <2>4. m.sleep <= ToolWaitOf(toolAge'[m.op])
    BY <1>2, <2>1, <2>2, <2>3, ConstantFacts
  <2>5. CallerOK(m)'
    BY <2>2, <2>3, <2>4 DEF CallerOK, Placed
  <2>6. Goes(t)
    BY <2>1, <2>3, <2>5 DEF Goes
  <2> QED
    BY <1>3, <2>1, <2>6
<1>6. CASE ~Full(toolAge["total"], Hour, ToolCap) /\ ~(w > 0)
  <2>1. /\ toolAge' = [toolAge EXCEPT !["total"] = Record(@), ![k] = Record(@)]
        /\ PastToolLimiter(t, local)
    BY <1>6 DEF ToolRound
  <2>2. AgeStep /\ Goes(t)
    BY <2>1, PastToolLimiterStep
  <2>3. Record(toolAge[k]) \in Ages /\ Record(toolAge["total"]) \in Ages
    BY <1>1, RecordKeeps
  <2> HIDE DEF k
  <2>4. /\ toolAge' \in [ToolKey -> Ages]
        /\ \A j \in ToolKey : toolAge'[j] = IF j \in {"total", k} THEN Record(toolAge[j])
                                            ELSE toolAge[j]
    BY <1>1, <2>1, <2>3
  <2>5. Len(Record(toolAge[k])) = Len(toolAge[k]) + 1 /\ Len(toolAge[k]) \in Nat
    BY <1>1, LastFacts, RecordFacts
  <2>6. ToolPerMinute > 0 => Len(toolAge'[k]) <= ToolPerMinute
    BY <1>1, <1>2, <1>6, <2>4, <2>5, ConstantFacts
  <2>7. Len(toolAge'["total"]) <= ToolCap
    <3>1. /\ toolAge["total"] \in Seq(Nat) /\ Len(toolAge["total"]) \in Nat
          /\ Len(Record(toolAge["total"])) = Len(toolAge["total"]) + 1
      BY <1>1, LastFacts, RecordFacts
    <3>2. Len(Pruned(toolAge["total"], Hour)) = Len(toolAge["total"])
      BY <1>1, <3>1, LastFacts, PrunedWhole, ConstantFacts
    <3> QED
      BY <1>1, <1>6, <2>4, <3>1, <3>2, ConstantFacts DEF Full
  <2>8. ToolWindows'
    <3>1. ASSUME NEW tool \in Tool, ToolPerMinute > 0
          PROVE  Len(toolAge'[tool]) <= ToolPerMinute
      <4>1. tool \in ToolKey /\ tool # "total"
        BY DEF Tool, ToolKey
      <4> QED
        BY <2>4, <2>6, <3>1, <4>1 DEF LimiterInv, ToolWindows
    <3> QED
      BY <2>7, <3>1 DEF ToolWindows
  <2> QED
    BY <2>2, <2>4, <2>8, CallerSteps
<1> QED
  BY <1>2, <1>4, <1>5, <1>6

\* A step that touches no list, no limit and no caller but one.
LEMMA QuietStep ==
  ASSUME LimiterInv, UNCHANGED <<age, toolAge, limits>>,
         task' = task \/ \E t \in Task : Goes(t)
  PROVE  LimiterInv'
<1>1. /\ ToolWindows' /\ toolAge' \in [ToolKey -> Ages] /\ AgeStep
  BY AgeUnchanged DEF LimiterInv, ListsOK, ToolWindows
<1>2. CASE task' = task
  BY <1>2 DEF LimiterInv, ListsOK, SiteWindows, ToolWindows, CallerOK, Placed, Asked
<1>3. CASE \E t \in Task : Goes(t)
  BY <1>1, <1>3, CallerSteps
<1> QED
  BY <1>2, <1>3

LEMMA SetRateLimitStep ==
  ASSUME LimiterInv, NEW a \in Account, NEW s \in Site, SetRateLimit(a, s)
  PROVE  LimiterInv'
<1>1. /\ limits' = [limits EXCEPT ![a][s] = Other] /\ UNCHANGED <<age, toolAge, task>>
      /\ limits \in [Account -> [Site -> Config]]
  BY DEF SetRateLimit, LimiterInv
<1>2. /\ limits' \in [Account -> [Site -> Config]]
      /\ \A r \in Site : limits[Own][r] \in {Default, Other}
      /\ \A r \in Site : limits'[Own][r] \in {limits[Own][r], Other}
  BY <1>1, ConstantFacts DEF Config
<1>3. SiteWindows'
  BY <1>1, <1>2 DEF LimiterInv, SiteWindows
<1>4. ListsOK' /\ ToolWindows'
  BY <1>1 DEF LimiterInv, ListsOK, ToolWindows
<1>5. ASSUME NEW t \in Task
      PROVE  CallerOK(task[t])'
  <2>1. CallerOK(task[t])
    BY DEF LimiterInv
  <2>2. task[t].pc = "rateSleep" => Asked(task[t])'
    BY <1>1, <1>2, <2>1 DEF CallerOK, Placed, Asked
  <2> QED
    BY <1>1, <2>1, <2>2 DEF CallerOK, Placed
<1> QED
  BY <1>1, <1>2, <1>3, <1>4, <1>5 DEF LimiterInv

LEMMA TickStep ==
  ASSUME LimiterInv, Tick
  PROVE  LimiterInv'
<1>1. /\ age' = [s \in Site |-> Older(age[s], Hour)]
      /\ toolAge' = [k \in ToolKey |-> Older(toolAge[k], Span(k))]
      /\ task' = [t \in Task |-> [task[t] EXCEPT !.sleep = Less(@)]]
      /\ limits' = limits
  BY DEF Tick, Same, Rest
<1>2. /\ \A s \in Site : age[s] \in Ages /\ Sorted(age[s]) /\ age[s] \in Seq(Nat)
      /\ \A k \in ToolKey : toolAge[k] \in Ages /\ Sorted(toolAge[k])
  BY LastFacts DEF LimiterInv, ListsOK
<1>3. Hour \in Nat /\ Hour > 0 /\ Hour <= Hour /\ Minute \in Nat /\ Minute > 0 /\ Minute <= Hour
  BY ConstantFacts
<1>4. \A k \in ToolKey : Span(k) \in Nat /\ Span(k) > 0 /\ Span(k) <= Hour
  BY <1>3 DEF Span
<1>5. \A s \in Site : /\ age'[s] \in Ages /\ Sorted(age'[s])
                      /\ Len(age'[s]) <= Len(age[s])
  BY <1>1, <1>2, <1>3, OlderKeeps
<1>6. \A k \in ToolKey : /\ toolAge'[k] \in Ages /\ Sorted(toolAge'[k])
                         /\ \A i \in 1..Len(toolAge'[k]) : toolAge'[k][i] < Span(k)
                         /\ Len(toolAge'[k]) <= Len(toolAge[k])
  BY <1>1, <1>2, <1>4, OlderKeeps
<1>7. ListsOK'
  BY <1>1, <1>5, <1>6 DEF ListsOK
<1>8. SiteWindows'
  <2>1. ASSUME NEW s \in Site
        PROVE  /\ Len(age'[s]) <= PerHour
               /\ \E c \in {Default, limits[Own][s]} :
                    c.perMinute = 0 \/ Len(Pruned(age'[s], Minute)) <= c.perMinute
    <3>1. Len(age[s]) \in Nat /\ Len(age'[s]) \in Nat /\ Len(age'[s]) <= Len(age[s])
      BY <1>2, <1>5, LastFacts
    <3>2. Len(age'[s]) <= PerHour
      BY <3>1, ConstantFacts DEF LimiterInv, SiteWindows
    <3>3. PICK c \in {Default, limits[Own][s]} :
            c.perMinute = 0 \/ Len(Pruned(age[s], Minute)) <= c.perMinute
      BY DEF LimiterInv, SiteWindows
    <3>4. c \in Conf
      BY ConstantFacts DEF LimiterInv
    <3>5. Len(Pruned(age'[s], Minute)) <= Len(Pruned(age[s], Minute))
      BY <1>1, <1>2, <1>3, PrunedOlder
    <3>6. Len(Pruned(age[s], Minute)) \in Nat /\ Len(Pruned(age'[s], Minute)) \in Nat
      <4>1. age'[s] \in Seq(Nat)
        BY <1>5, LastFacts
      <4>2. Pruned(age[s], Minute) \in Seq(Nat) /\ Pruned(age'[s], Minute) \in Seq(Nat)
        BY <1>2, <1>3, <1>5, <4>1, PrunedList
      <4> QED
        BY <4>2, LenProperties
    <3> QED
      BY <3>2, <3>3, <3>4, <3>5, <3>6 DEF Conf
  <2> QED
    BY <1>1, <2>1 DEF SiteWindows
<1>9. ToolWindows'
  <2>1. \A k \in ToolKey : Len(toolAge[k]) \in Nat /\ Len(toolAge'[k]) \in Nat
    BY <1>2, <1>6, LastFacts
  <2>2. "total" \in ToolKey /\ \A k \in Tool : k \in ToolKey
    BY DEF Tool, ToolKey
  <2> QED
    BY <1>6, <2>1, <2>2, ConstantFacts DEF LimiterInv, ToolWindows
<1>10. ASSUME NEW t \in Task
       PROVE  task'[t] \in Caller /\ CallerOK(task[t])'
  <2>1. task[t] \in Caller /\ CallerOK(task[t])
    BY DEF LimiterInv
  <2>2. /\ task'[t] = [task[t] EXCEPT !.sleep = Less(@)]
        /\ Less(task[t].sleep) \in 0..Hour
        /\ Less(task[t].sleep) = 0 \/ Less(task[t].sleep) = task[t].sleep - 1
    BY <1>1, <1>3, <2>1 DEF Less, Caller
  <2>3. /\ task'[t] \in Caller /\ task'[t].sleep = Less(task[t].sleep)
        /\ task'[t].pc = task[t].pc /\ task'[t].op = task[t].op
        /\ task'[t].site = task[t].site /\ task'[t].conf = task[t].conf
    BY <2>1, <2>2 DEF Caller
  <2>4. Placed(task[t])'
    BY <2>1, <2>3 DEF CallerOK, Placed
  <2>5. ASSUME task[t].pc = "rateSleep"
        PROVE  /\ Asked(task[t])'
               /\ task'[t].sleep <= SiteWait(age'[task'[t].site], task'[t].conf)
    <3> DEFINE s == task[t].site
               c == task[t].conf
    <3>1. s \in Site /\ c \in Conf /\ Asked(task[t]) /\ task[t].sleep \in 0..Hour
      BY <2>1, <2>5, ConstantFacts DEF CallerOK, Placed, Caller
    <3>2. task[t].sleep <= SiteWait(age[s], c)
      BY <2>1, <2>5 DEF CallerOK
    <3>3. SiteWait(age[s], c) \in 0..Hour /\ SiteWait(age'[s], c) \in 0..Hour
      BY <1>2, <1>5, <3>1, SiteWaitFacts
    <3>4. SiteWait(age'[s], c) >= SiteWait(age[s], c) - 1
      BY <1>1, <1>2, <3>1, SiteWaitWhenOlder
    <3>5. Less(task[t].sleep) <= SiteWait(age'[s], c)
      BY <1>3, <2>2, <3>1, <3>2, <3>3, <3>4
    <3>6. Asked(task[t])'
      BY <1>1, <2>3, <3>1 DEF Asked
    <3> QED
      BY <2>3, <3>5, <3>6
  <2>6. ASSUME task[t].pc = "toolSleep"
        PROVE  task'[t].sleep <= ToolWaitOf(toolAge'[task'[t].op])
    <3> DEFINE k == task[t].op
    <3>1. /\ k \in Tool /\ k \in ToolKey /\ Span(k) = Minute /\ task[t].sleep \in 0..Hour
          /\ task[t].sleep <= ToolWaitOf(toolAge[k])
      BY <2>1, <2>6 DEF CallerOK, Placed, Caller, Tool, ToolKey, Span
    <3>2. /\ \A i \in 1..Len(toolAge[k]) : toolAge[k][i] < Minute
          /\ \A i \in 1..Len(toolAge'[k]) : toolAge'[k][i] < Minute
      BY <1>6, <3>1 DEF LimiterInv, ListsOK
    <3>3. /\ ToolWaitOf(toolAge[k]) \in 0..Hour /\ ToolWaitOf(toolAge'[k]) \in 0..Hour
          /\ ToolWaitOf(Older(toolAge[k], Minute)) >= ToolWaitOf(toolAge[k]) - 1
      BY <1>2, <1>6, <3>1, <3>2, ToolWaitFacts
    <3>4. toolAge'[k] = Older(toolAge[k], Minute)
      BY <1>1, <3>1
    <3>5. Less(task[t].sleep) <= ToolWaitOf(toolAge'[k])
      BY <1>3, <2>2, <3>1, <3>3, <3>4
    <3> QED
      BY <2>3, <3>5
  <2> QED
    BY <2>3, <2>4, <2>5, <2>6 DEF CallerOK
<1>11. task' \in [Task -> Caller]
  BY <1>1, <1>10
<1> QED
  BY <1>1, <1>7, <1>8, <1>9, <1>10, <1>11 DEF LimiterInv

LEMMA LimiterInit ==
  ASSUME Init
  PROVE  LimiterInv
<1>1. /\ age = [s \in Site |-> <<>>] /\ toolAge = [k \in ToolKey |-> <<>>]
      /\ limits = [a \in Account |-> [s \in Site |-> Default]]
      /\ task = [t \in Task |-> Idle]
  BY DEF Init
<1>2. <<>> \in Ages /\ <<>> \in Seq(Nat) /\ Len(<<>>) = 0 /\ Sorted(<<>>)
  BY EmptySeq DEF Ages, Sorted
<1>3. Len(Pruned(<<>>, Minute)) = 0
  <2> DEFINE e == <<>>
  <2>1. e \in Seq(Nat) /\ Len(e) = 0 /\ Sorted(e)
    BY <1>2
  <2> HIDE DEF e
  <2>2. \A i \in 1..Len(e) : e[i] < Minute
    BY <2>1
  <2>3. Len(Pruned(e, Minute)) = 0
    BY <2>1, <2>2, PrunedWhole, ConstantFacts
  <2> QED
    BY <2>3 DEF e
<1>4. ListsOK
  BY <1>1, <1>2 DEF ListsOK
<1>5. SiteWindows
  <2>1. Default.perMinute \in Nat
    BY ConstantFacts DEF Conf
  <2> QED
    BY <1>1, <1>2, <1>3, <2>1, ConstantFacts DEF SiteWindows
<1>6. ToolWindows
  BY <1>1, <1>2, ConstantFacts DEF ToolWindows, Tool, ToolKey
<1>7. Idle \in Caller /\ CallerOK(Idle)
  BY ConstantFacts DEF Idle, Caller, CallerOK, Placed
<1> QED
  BY <1>1, <1>4, <1>5, <1>6, <1>7, ConstantFacts DEF LimiterInv

LEMMA LimiterNext ==
  ASSUME LimiterInv, [Next]_vars
  PROVE  LimiterInv'
<1>1. ASSUME NEW t \in Task, NEW s \in Visits[t], NEW limited \in BOOLEAN, Goto(t, s, limited)
      PROVE  LimiterInv'
  <2> DEFINE l == [Idle EXCEPT !.op = "safe_goto", !.site = s, !.limited = limited]
  <2>1. s \in Site
    BY LimitsAssumption
  <2>2. l \in Caller /\ l.op = "safe_goto" /\ l.site = s
    BY <2>1, ConstantFacts DEF Idle, Caller, Tool
  <2>3. limits' = limits
    BY <1>1 DEF Goto, Rest
  <2>4. CASE ToolRound(t, l)
    <3> HIDE DEF l
    <3> QED
      BY <2>1, <2>2, <2>3, <2>4, ToolRoundStep DEF Tool
  <2>5. CASE UNCHANGED <<task, toolAge, age, warming, health>>
    BY <2>3, <2>5, QuietStep
  <2> QED
    BY <1>1, <2>4, <2>5 DEF Goto
<1>2. ASSUME NEW t \in Task, Click(t)
      PROVE  LimiterInv'
  <2> DEFINE l == [Idle EXCEPT !.op = "safe_click"]
  <2>1. l \in Caller /\ l.op = "safe_click"
    BY ConstantFacts DEF Idle, Caller, Tool
  <2>2. limits' = limits /\ ToolRound(t, l)
    BY <1>2 DEF Click, Rest
  <2> HIDE DEF l
  <2> QED
    BY <2>1, <2>2, ToolRoundStep DEF Tool
<1>3. ASSUME NEW t \in Task, ToolWake(t)
      PROVE  LimiterInv'
  <2>1. task[t] \in Caller /\ task[t].pc = "toolSleep" /\ Placed(task[t])
    BY <1>3 DEF LimiterInv, CallerOK, ToolWake
  <2>2. limits' = limits /\ ToolRound(t, task[t])
    BY <1>3 DEF ToolWake, Same, Rest
  <2> QED
    BY <2>1, <2>2, ToolRoundStep DEF Placed
<1>4. ASSUME NEW t \in Task, Robots(t)
      PROVE  LimiterInv'
  <2>1. task[t] \in Caller /\ task[t].site \in Site
    BY <1>4 DEF LimiterInv, CallerOK, Placed, Robots
  <2>2. limits' = limits /\ toolAge' = toolAge
    BY <1>4 DEF Robots, Same, Rest
  <2>3. AgeStep /\ Goes(t)
    BY <1>4, <2>1, <2>2, Returns, AgeUnchanged, GatesStep DEF Robots
  <2>4. ToolWindows' /\ toolAge' \in [ToolKey -> Ages]
    BY <2>2 DEF LimiterInv, ListsOK, ToolWindows
  <2> QED
    BY <2>2, <2>3, <2>4, CallerSteps
<1>5. ASSUME NEW t \in Task, RateWake(t)
      PROVE  LimiterInv'
  <2>1. task[t] \in Caller /\ task[t].site \in Site /\ Asked(task[t])
    BY <1>5 DEF LimiterInv, CallerOK, Placed, RateWake
  <2>2. limits' = limits /\ toolAge' = toolAge
    BY <1>5 DEF RateWake, Same, Rest
  <2>3. AgeStep /\ Goes(t)
    BY <1>5, <2>1, <2>2, RateRoundStep DEF RateWake
  <2>4. ToolWindows' /\ toolAge' \in [ToolKey -> Ages]
    BY <2>2 DEF LimiterInv, ListsOK, ToolWindows
  <2> QED
    BY <2>2, <2>3, <2>4, CallerSteps
<1>6. ASSUME NEW t \in Task, Navigated(t) \/ Clicked(t)
      PROVE  LimiterInv'
  <2>1. Goes(t)
    BY <1>6, Returns DEF Navigated, Clicked
  <2> QED
    BY <1>6, <2>1, QuietStep DEF Navigated, Clicked, Same, Rest
<1>7. CASE StartWarming \/ ReadHealth \/ CloseBrowser \/ LaunchBrowser
  BY <1>7, QuietStep DEF StartWarming, ReadHealth, CloseBrowser, LaunchBrowser
<1>8. CASE UNCHANGED vars
  BY <1>8, QuietStep DEF vars
<1> QED
  BY <1>1, <1>2, <1>3, <1>4, <1>5, <1>6, <1>7, <1>8, TickStep, SetRateLimitStep DEF Next, TaskStep

-----------------------------------------------------------------------------
(***************************************************************************)
(* The warming schedule.  A navigation that passes the check finds a       *)
(* session below its limits, so even if all callers are in flight they     *)
(* overrun it by less than their number; after that a success only moves   *)
(* a navigation from those in flight to those counted.                     *)
(***************************************************************************)

SessionType == [active : BOOLEAN, minutes : 0..MaxMinutes, actions : Nat,
                pages : Nat, sites : SUBSET Site]

InAir(l) == l.pc = "navigating" \/ l.pc = "rateSleep"

Air(f) == {t \in Task : InAir(f[t])}

AirSites(f) == {f[t].site : t \in Air(f)}

Bounded(x, f) ==
  /\ x.pages + Cardinality(Air(f)) <= MaxPages + (Cardinality(Task) - 1)
  /\ x.actions + Cardinality(Air(f)) <= MaxActions + (Cardinality(Task) - 1)
  /\ Cardinality(x.sites \cup AirSites(f)) <= SiteVariety + (Cardinality(Task) - 1)

LEMMA SameBound == WarmingOverrunIsBounded <=> Bounded(warming.session, task)
BY DEF WarmingOverrunIsBounded, Bounded, AirSites, Air, InAir, InFlight

LEMMA AirFacts ==
  ASSUME NEW f
  PROVE  /\ IsFiniteSet(Task) /\ Cardinality(Task) \in Nat
         /\ IsFiniteSet(Air(f)) /\ Cardinality(Air(f)) \in Nat
         /\ Cardinality(Air(f)) <= Cardinality(Task)
         /\ IsFiniteSet(AirSites(f)) /\ Cardinality(AirSites(f)) \in Nat
         /\ Cardinality(AirSites(f)) <= Cardinality(Air(f))
<1>1. IsFiniteSet(Task) /\ Air(f) \in SUBSET Task
  BY LimitsAssumption DEF Air
<1>2. /\ Cardinality(Task) \in Nat /\ IsFiniteSet(Air(f)) /\ Cardinality(Air(f)) \in Nat
      /\ Cardinality(Air(f)) <= Cardinality(Task)
  BY <1>1, FS_Subset, FS_CardinalityType
<1> DEFINE g == [t \in Air(f) |-> f[t].site]
<1>3. g \in Surjection(Air(f), AirSites(f))
  BY DEF Surjection, AirSites
<1>4. IsFiniteSet(AirSites(f)) /\ Cardinality(AirSites(f)) <= Cardinality(Air(f))
  BY <1>2, <1>3, FS_Surjection
<1> QED
  BY <1>1, <1>2, <1>4, FS_CardinalityType

LEMMA LimitFacts ==
  /\ MaxPages \in Nat \ {0} /\ MaxActions \in Nat \ {0} /\ SiteVariety \in Nat \ {0}
  /\ MaxMinutes \in Nat \ {0}
BY WarmingAssumption

\* Fewer in flight.
LEMMA BoundedFewer ==
  ASSUME NEW x \in SessionType, IsFiniteSet(x.sites), NEW f, NEW g, Bounded(x, f),
         Air(g) \subseteq Air(f), \A t \in Air(g) : g[t].site = f[t].site
  PROVE  Bounded(x, g)
<1>1. Cardinality(Air(g)) <= Cardinality(Air(f))
  BY AirFacts, FS_Subset
<1>2. x.sites \cup AirSites(g) \subseteq x.sites \cup AirSites(f)
  BY DEF AirSites
<1>3. IsFiniteSet(x.sites \cup AirSites(f))
  BY AirFacts, FS_Union
<1>4. /\ IsFiniteSet(x.sites \cup AirSites(g))
      /\ Cardinality(x.sites \cup AirSites(g)) <= Cardinality(x.sites \cup AirSites(f))
  BY <1>2, <1>3, FS_Subset
<1>5. /\ Cardinality(x.sites \cup AirSites(g)) \in Nat
      /\ Cardinality(x.sites \cup AirSites(f)) \in Nat
      /\ Cardinality(Air(f)) \in Nat /\ Cardinality(Air(g)) \in Nat /\ Cardinality(Task) \in Nat
  BY <1>3, <1>4, AirFacts, FS_CardinalityType
<1> QED
  BY <1>1, <1>4, <1>5, LimitFacts DEF Bounded, SessionType

\* A session below its limits, whoever is in flight.
LEMMA BoundedBelow ==
  ASSUME NEW x \in SessionType, IsFiniteSet(x.sites), NEW g,
         x.pages < MaxPages, x.actions < MaxActions
  PROVE  /\ x.pages + Cardinality(Air(g)) <= MaxPages + (Cardinality(Task) - 1)
         /\ x.actions + Cardinality(Air(g)) <= MaxActions + (Cardinality(Task) - 1)
         /\ Cardinality(x.sites) < SiteVariety => Bounded(x, g)
<1>1. /\ Cardinality(Task) \in Nat /\ Cardinality(Air(g)) \in Nat
      /\ Cardinality(Air(g)) <= Cardinality(Task)
      /\ IsFiniteSet(AirSites(g)) /\ Cardinality(AirSites(g)) \in Nat
      /\ Cardinality(AirSites(g)) <= Cardinality(Air(g))
  BY AirFacts
<1>2. /\ x.pages + Cardinality(Air(g)) <= MaxPages + (Cardinality(Task) - 1)
      /\ x.actions + Cardinality(Air(g)) <= MaxActions + (Cardinality(Task) - 1)
  BY <1>1, LimitFacts DEF SessionType
<1>3. ASSUME Cardinality(x.sites) < SiteVariety
      PROVE  Cardinality(x.sites \cup AirSites(g)) <= SiteVariety + (Cardinality(Task) - 1)
  <2>1. Cardinality(x.sites \cup AirSites(g)) =
          Cardinality(x.sites) + Cardinality(AirSites(g)) - Cardinality(x.sites \cap AirSites(g))
    BY <1>1, FS_Union
  <2>2. x.sites \cap AirSites(g) \in SUBSET x.sites
    OBVIOUS
  <2>3. Cardinality(x.sites) \in Nat /\ Cardinality(x.sites \cap AirSites(g)) \in Nat
    BY <2>2, FS_Subset, FS_CardinalityType
  <2> QED
    BY <1>1, <1>3, <2>1, <2>3, LimitFacts
<1> QED
  BY <1>2, <1>3 DEF Bounded

\* One more in flight, to a site that the session knows.
LEMMA BoundedKnown ==
  ASSUME NEW x \in SessionType, IsFiniteSet(x.sites), NEW f, NEW g, NEW t, Bounded(x, f),
         x.pages < MaxPages, x.actions < MaxActions,
         Air(g) \subseteq Air(f) \cup {t}, t \in Air(g) => g[t].site \in x.sites,
         \A u \in Air(g) : u # t => g[u].site = f[u].site
  PROVE  Bounded(x, g)
<1>1. x.sites \cup AirSites(g) \subseteq x.sites \cup AirSites(f)
  BY DEF AirSites
<1>2. IsFiniteSet(x.sites \cup AirSites(f))
  BY AirFacts, FS_Union
<1>3. /\ IsFiniteSet(x.sites \cup AirSites(g))
      /\ Cardinality(x.sites \cup AirSites(g)) <= Cardinality(x.sites \cup AirSites(f))
  BY <1>1, <1>2, FS_Subset
<1>4. /\ Cardinality(x.sites \cup AirSites(g)) \in Nat
      /\ Cardinality(x.sites \cup AirSites(f)) \in Nat /\ Cardinality(Task) \in Nat
  BY <1>2, <1>3, AirFacts, FS_CardinalityType
<1>5. Cardinality(x.sites \cup AirSites(g)) <= SiteVariety + (Cardinality(Task) - 1)
  BY <1>3, <1>4, LimitFacts DEF Bounded
<1> QED
  BY <1>5, BoundedBelow DEF Bounded

\* A success is counted and leaves those in flight.
LEMMA BoundedRecorded ==
  ASSUME NEW x \in SessionType, IsFiniteSet(x.sites), NEW f, NEW g, NEW t \in Air(f),
         Bounded(x, f), Air(g) = Air(f) \ {t}, \A u \in Air(g) : g[u].site = f[u].site
  PROVE  Bounded(Recorded(x, f[t].site), g)
<1> DEFINE y == Recorded(x, f[t].site)
<1>1. y.pages = x.pages + 1 /\ y.actions = x.actions + 1 /\ y.sites = x.sites \cup {f[t].site}
  BY DEF Recorded, SessionType
<1>2. Cardinality(Air(g)) = Cardinality(Air(f)) - 1 /\ Cardinality(Air(f)) \in Nat
  BY AirFacts, FS_RemoveElement
<1>3. y.sites \cup AirSites(g) \subseteq x.sites \cup AirSites(f)
  BY <1>1 DEF AirSites
<1>4. IsFiniteSet(x.sites \cup AirSites(f))
  BY AirFacts, FS_Union
<1>5. /\ IsFiniteSet(y.sites \cup AirSites(g))
      /\ Cardinality(y.sites \cup AirSites(g)) <= Cardinality(x.sites \cup AirSites(f))
  BY <1>3, <1>4, FS_Subset
<1>6. /\ Cardinality(y.sites \cup AirSites(g)) \in Nat
      /\ Cardinality(x.sites \cup AirSites(f)) \in Nat /\ Cardinality(Task) \in Nat
  BY <1>4, <1>5, AirFacts, FS_CardinalityType
<1> HIDE DEF y
<1>7. Bounded(y, g)
  BY <1>1, <1>2, <1>5, <1>6, LimitFacts DEF Bounded, SessionType
<1> QED
  BY <1>7 DEF y

SessionInv ==
  /\ warming \in [started : BOOLEAN, session : SessionType]
  /\ IsFiniteSet(warming.session.sites)
  /\ ~warming.started => warming.session = NoSession
  /\ Bounded(warming.session, task)

\* The session, or the new one that safe_goto() and launch() begin.
Begins ==
  \/ warming' = warming
  \/ warming' = IF warming.started THEN [warming EXCEPT !.session = Session] ELSE warming

Moves(t) == t \in Task /\ task' = [task EXCEPT ![t] = task'[t]]

LEMMA FreshFacts ==
  /\ NoSession \in SessionType /\ NewSession \in SessionType
  /\ \A x \in {NoSession, NewSession} :
       /\ x.pages = 0 /\ x.actions = 0 /\ x.sites = {}
       /\ IsFiniteSet(x.sites) /\ Cardinality(x.sites) = 0
  /\ \A x \in {NoSession, NewSession} : \A g : Bounded(x, g)
<1>1. 0 \in 0..MaxMinutes
  BY LimitFacts
<1>2. NoSession \in SessionType /\ NewSession \in SessionType
  BY <1>1 DEF NoSession, NewSession, SessionType
<1>3. \A x \in {NoSession, NewSession} :
        /\ x.pages = 0 /\ x.actions = 0 /\ x.sites = {}
        /\ IsFiniteSet(x.sites) /\ Cardinality(x.sites) = 0
  BY FS_EmptySet DEF NoSession, NewSession
<1>4. ASSUME NEW x \in {NoSession, NewSession}, NEW g
      PROVE  Bounded(x, g)
  <2>1. /\ x \in SessionType /\ IsFiniteSet(x.sites)
        /\ x.pages < MaxPages /\ x.actions < MaxActions /\ Cardinality(x.sites) < SiteVariety
    BY <1>2, <1>3, LimitFacts
  <2> QED
    BY <2>1, BoundedBelow
<1> QED
  BY <1>2, <1>3, <1>4

LEMMA SessionStep ==
  ASSUME SessionInv, task \in [Task -> Caller], Begins, NEW t, Moves(t),
         \/ ~InAir(task'[t])
         \/ InAir(task[t]) /\ task'[t].site = task[t].site
         \/ ~(warming'.started /\ ShouldStop(warming'.session, task'[t].site))
  PROVE  SessionInv'
<1> DEFINE x == warming'.session
<1>1. /\ warming' \in [started : BOOLEAN, session : SessionType]
      /\ warming'.started = warming.started
      /\ x = warming.session \/ x = NewSession
      /\ ~warming'.started => x = NoSession
  BY FreshFacts DEF SessionInv, Begins, Session
<1>2. x \in SessionType /\ IsFiniteSet(x.sites)
  BY <1>1, FreshFacts DEF SessionInv
<1>3. /\ Air(task') \subseteq Air(task) \cup {t}
      /\ \A u \in Air(task') : u # t => u \in Air(task) /\ task'[u].site = task[u].site
  BY DEF Moves, Air
<1>4. Bounded(x, task')
  <2>1. CASE x = NewSession
    BY <2>1, FreshFacts
  <2>2. CASE x = warming.session
    <3>1. Bounded(x, task)
      BY <2>2 DEF SessionInv
    <3>2. CASE ~InAir(task'[t]) \/ (InAir(task[t]) /\ task'[t].site = task[t].site)
      <4>1. /\ Air(task') \subseteq Air(task)
            /\ \A u \in Air(task') : task'[u].site = task[u].site
        BY <1>3, <3>2 DEF Air, Moves
      <4> HIDE DEF x
      <4> QED
        BY <1>2, <3>1, <4>1, BoundedFewer
    <3>3. CASE ~(warming'.started /\ ShouldStop(x, task'[t].site))
      <4>1. CASE ~warming'.started
        BY <1>1, <4>1, FreshFacts
      <4>2. CASE warming'.started
        <5> HIDE DEF x
        <5>1. x.pages \in Nat /\ x.actions \in Nat /\ Cardinality(x.sites) \in Nat
          BY <1>2, FS_CardinalityType DEF SessionType
        <5>2. /\ x.pages < MaxPages /\ x.actions < MaxActions
              /\ task'[t].site \in x.sites \/ Cardinality(x.sites) < SiteVariety
          BY <3>3, <4>2, <5>1, LimitFacts DEF ShouldStop
        <5>3. CASE Cardinality(x.sites) < SiteVariety
          BY <1>2, <5>2, <5>3, BoundedBelow
        <5>4. CASE task'[t].site \in x.sites
          BY <1>2, <1>3, <3>1, <5>2, <5>4, BoundedKnown
        <5> QED
          BY <5>2, <5>3, <5>4
      <4> QED
        BY <4>1, <4>2
    <3> QED
      BY <3>2, <3>3
  <2> QED
    BY <1>1, <2>1, <2>2
<1>5. Bounded(warming.session, task)'
  BY <1>4 DEF Bounded, Air, AirSites, InAir
<1> QED
  BY <1>1, <1>2, <1>5 DEF SessionInv

LEMMA NavigatePlace ==
  ASSUME task \in [Task -> Caller], NEW t \in Task, NEW local \in Caller, Navigate(t, local)
  PROVE  Moves(t) /\ (InAir(task'[t]) => task'[t].site = local.site)
<1>1. CASE open
  <2> DEFINE l == [Idle EXCEPT !.pc = "navigating", !.op = local.op, !.site = local.site]
  <2>1. l.site = local.site
    BY DEF Idle
  <2>2. task' = [task EXCEPT ![t] = l]
    BY <1>1 DEF Navigate, Become
  <2> HIDE DEF l
  <2> QED
    BY <2>1, <2>2 DEF Moves
<1>2. CASE ~open
  <2>1. task' = [task EXCEPT ![t] = Idle]
    BY <1>2 DEF Navigate, Return, Become
  <2> QED
    BY <2>1 DEF Moves, InAir, Idle
<1> QED
  BY <1>1, <1>2

LEMMA RateRoundPlace ==
  ASSUME task \in [Task -> Caller], NEW t \in Task, NEW local \in Caller, RateRound(t, local)
  PROVE  Moves(t) /\ (InAir(task'[t]) => task'[t].site = local.site)
<1> DEFINE w == RateWait(local.site, local.conf)
<1>1. CASE w > 0
  <2> DEFINE l == [local EXCEPT !.pc = "rateSleep", !.sleep = w]
  <2>1. l.site = local.site
    BY DEF Caller
  <2>2. task' = [task EXCEPT ![t] = l]
    BY <1>1 DEF RateRound, Become
  <2> HIDE DEF l, w
  <2> QED
    BY <2>1, <2>2 DEF Moves
<1>2. CASE ~(w > 0)
  BY <1>2, NavigatePlace DEF RateRound
<1> QED
  BY <1>1, <1>2

LEMMA GatesSession ==
  ASSUME SessionInv, LimiterInv, NEW t \in Task, NEW local \in Caller,
         local.site \in Site, Gates(t, local)
  PROVE  SessionInv'
<1>1. task \in [Task -> Caller] /\ limits[Own][local.site] \in Config
  BY ConstantFacts DEF LimiterInv
<1>2. warming' = IF warming.started THEN [warming EXCEPT !.session = Session] ELSE warming
  BY DEF Gates
<1>3. CASE Return(t)
  <2>1. task' = [task EXCEPT ![t] = Idle]
    BY <1>3 DEF Return, Become
  <2>2. Moves(t) /\ ~InAir(task'[t])
    BY <1>1, <2>1 DEF Moves, InAir, Idle
  <2> QED
    BY <1>1, <1>2, <2>2, SessionStep DEF Begins
<1>4. CASE ~(warming.started /\ ShouldStop(Session, local.site)) /\ ~Return(t)
  <2>1. Moves(t) /\ (InAir(task'[t]) => task'[t].site = local.site)
    <3>1. CASE Navigate(t, local)
      BY <1>1, <3>1, NavigatePlace
    <3>2. CASE RateRound(t, [local EXCEPT !.conf = limits[Own][local.site]])
      <4> DEFINE l == [local EXCEPT !.conf = limits[Own][local.site]]
      <4>1. l \in Caller /\ l.site = local.site
        BY <1>1 DEF Caller
      <4> HIDE DEF l
      <4> QED
        BY <1>1, <3>2, <4>1, RateRoundPlace DEF l
    <3> QED
      BY <1>4, <3>1, <3>2 DEF Gates
  <2>2. ~(warming'.started /\ ShouldStop(warming'.session, local.site))
    BY <1>2, <1>4 DEF SessionInv
  <2>3. CASE InAir(task'[t])
    <3>1. ~(warming'.started /\ ShouldStop(warming'.session, task'[t].site))
      BY <2>1, <2>2, <2>3
    <3> QED
      BY <1>1, <1>2, <2>1, <3>1, SessionStep DEF Begins
  <2>4. CASE ~InAir(task'[t])
    BY <1>1, <1>2, <2>1, <2>4, SessionStep DEF Begins
  <2> QED
    BY <2>3, <2>4
<1>5. Return(t) \/ ~(warming.started /\ ShouldStop(Session, local.site))
  BY DEF Gates
<1> QED
  BY <1>3, <1>4, <1>5

LEMMA ToolRoundSession ==
  ASSUME SessionInv, LimiterInv, NEW t \in Task, NEW local \in Caller,
         local.op \in Tool, local.op = "safe_goto" => local.site \in Site,
         ToolRound(t, local)
  PROVE  SessionInv'
<1>1. task \in [Task -> Caller]
  BY DEF LimiterInv
<1>2. ASSUME NEW l, task' = [task EXCEPT ![t] = l], ~InAir(l), UNCHANGED warming
      PROVE  SessionInv'
  <2>1. Moves(t) /\ ~InAir(task'[t])
    BY <1>1, <1>2 DEF Moves
  <2> QED
    BY <1>1, <1>2, <2>1, SessionStep DEF Begins
<1>3. CASE Return(t) /\ UNCHANGED warming
  <2>1. ~InAir(Idle)
    BY DEF InAir, Idle
  <2> QED
    BY <1>2, <1>3, <2>1 DEF Return, Become
<1>4. CASE \E p \in {"toolSleep", "clicking", "robots"}, w \in {0, ToolWait(local.op)} :
             Become(t, [local EXCEPT !.pc = p, !.sleep = w]) /\ UNCHANGED warming
  <2>1. PICK p \in {"toolSleep", "clicking", "robots"}, w \in {0, ToolWait(local.op)} :
          Become(t, [local EXCEPT !.pc = p, !.sleep = w]) /\ UNCHANGED warming
    BY <1>4
  <2> DEFINE l == [local EXCEPT !.pc = p, !.sleep = w]
  <2>2. ~InAir(l)
    BY DEF InAir, Caller
  <2>3. task' = [task EXCEPT ![t] = l] /\ UNCHANGED warming
    BY <2>1 DEF Become
  <2> HIDE DEF l
  <2> QED
    BY <1>2, <2>2, <2>3
<1>5. CASE Gates(t, local) /\ local.op # "safe_click"
  BY <1>5, GatesSession DEF Tool
<1>6. CASE Full(toolAge["total"], Hour, ToolCap)
  BY <1>3, <1>6 DEF ToolRound
<1>7. CASE ~Full(toolAge["total"], Hour, ToolCap) /\ ToolWait(local.op) > 0
  BY <1>4, <1>7 DEF ToolRound
<1>8. CASE PastToolLimiter(t, local)
  <2>1. CASE local.op = "safe_click"
    BY <1>3, <1>4, <1>8, <2>1 DEF PastToolLimiter
  <2>2. CASE local.op # "safe_click"
    BY <1>4, <1>5, <1>8, <2>2 DEF PastToolLimiter
  <2> QED
    BY <2>1, <2>2
<1> QED
  BY <1>6, <1>7, <1>8 DEF ToolRound

LEMMA QuietSession ==
  ASSUME SessionInv, task' = task, warming' \in [started : BOOLEAN, session : SessionType],
         IsFiniteSet(warming'.session.sites),
         ~warming'.started => warming'.session = NoSession,
         \/ /\ warming'.session.pages = warming.session.pages
            /\ warming'.session.actions = warming.session.actions
            /\ warming'.session.sites = warming.session.sites
         \/ warming'.session = NewSession
  PROVE  SessionInv'
<1>1. Bounded(warming'.session, task)
  BY FreshFacts DEF SessionInv, Bounded
<1> QED
  BY <1>1 DEF SessionInv, Bounded, Air, AirSites, InAir

LEMMA NoSessionFacts ==
  /\ [NoSession EXCEPT !.active = FALSE] = NoSession
  /\ [NoSession EXCEPT !.minutes = 0] = NoSession
<1>1. ASSUME NEW x \in SessionType
      PROVE  /\ x.active = FALSE => [x EXCEPT !.active = FALSE] = x
             /\ x.minutes = 0 => [x EXCEPT !.minutes = 0] = x
  BY DEF SessionType
<1>2. NoSession.active = FALSE /\ NoSession.minutes = 0
  BY DEF NoSession
<1> QED
  BY <1>1, <1>2, FreshFacts

LEMMA RecordedFacts ==
  ASSUME NEW x \in SessionType, NEW s \in Site
  PROVE  Recorded(x, s) \in SessionType /\ Recorded(x, s).sites = x.sites \cup {s}
<1>1. x.actions + 1 \in Nat /\ x.pages + 1 \in Nat /\ x.sites \cup {s} \in SUBSET Site
  BY DEF SessionType
<1> QED
  BY <1>1 DEF Recorded, SessionType

LEMMA SessionNext ==
  ASSUME SessionInv, LimiterInv, [Next]_vars
  PROVE  SessionInv'
<1>1. task \in [Task -> Caller]
  BY DEF LimiterInv
<1>2. warming \in [started : BOOLEAN, session : SessionType]
  BY DEF SessionInv
<1>3. ASSUME NEW t \in Task, NEW s \in Visits[t], NEW limited \in BOOLEAN, Goto(t, s, limited)
      PROVE  SessionInv'
  <2> DEFINE l == [Idle EXCEPT !.op = "safe_goto", !.site = s, !.limited = limited]
  <2>1. s \in Site
    BY LimitsAssumption
  <2>2. l \in Caller /\ l.op = "safe_goto" /\ l.site = s
    BY <2>1, ConstantFacts DEF Idle, Caller, Tool
  <2>3. CASE ToolRound(t, l)
    <3> HIDE DEF l
    <3> QED
      BY <2>1, <2>2, <2>3, ToolRoundSession DEF Tool
  <2>4. CASE UNCHANGED <<task, warming>>
    BY <1>2, <2>4, QuietSession DEF SessionInv
  <2> QED
    BY <1>3, <2>3, <2>4 DEF Goto
<1>4. ASSUME NEW t \in Task, Click(t)
      PROVE  SessionInv'
  <2> DEFINE l == [Idle EXCEPT !.op = "safe_click"]
  <2>1. l \in Caller /\ l.op = "safe_click"
    BY ConstantFacts DEF Idle, Caller, Tool
  <2>2. ToolRound(t, l)
    BY <1>4 DEF Click
  <2> HIDE DEF l
  <2> QED
    BY <2>1, <2>2, ToolRoundSession DEF Tool
<1>5. ASSUME NEW t \in Task, ToolWake(t)
      PROVE  SessionInv'
  BY <1>5, ToolRoundSession DEF LimiterInv, CallerOK, Placed, ToolWake
<1>6. ASSUME NEW t \in Task, Robots(t)
      PROVE  SessionInv'
  <2>1. task[t] \in Caller /\ task[t].site \in Site
    BY <1>6 DEF LimiterInv, CallerOK, Placed, Robots
  <2>2. CASE Gates(t, task[t])
    BY <2>1, <2>2, GatesSession
  <2>3. CASE Return(t) /\ UNCHANGED warming
    <3>1. Moves(t) /\ ~InAir(task'[t])
      BY <1>1, <2>3 DEF Moves, Return, Become, InAir, Idle
    <3> QED
      BY <1>1, <2>3, <3>1, SessionStep DEF Begins
  <2> QED
    BY <1>6, <2>2, <2>3 DEF Robots
<1>7. ASSUME NEW t \in Task, RateWake(t)
      PROVE  SessionInv'
  <2>1. task[t] \in Caller /\ InAir(task[t])
    BY <1>7 DEF LimiterInv, InAir, RateWake
  <2>2. Moves(t) /\ (InAir(task'[t]) => task'[t].site = task[t].site)
    BY <1>1, <1>7, <2>1, RateRoundPlace DEF RateWake
  <2> QED
    BY <1>1, <1>7, <2>1, <2>2, SessionStep DEF RateWake, Begins
<1>8. ASSUME NEW t \in Task, Navigated(t)
      PROVE  SessionInv'
  <2>1. /\ t \in Air(task) /\ task' = [task EXCEPT ![t] = Idle]
        /\ task[t].site \in Site
    BY <1>8 DEF Navigated, Air, InAir, Return, Become, LimiterInv, CallerOK, Placed
  <2>2. Moves(t) /\ ~InAir(task'[t])
    BY <1>1, <2>1 DEF Moves, InAir, Idle, Air
  <2>3. CASE UNCHANGED warming
    BY <1>1, <2>2, <2>3, SessionStep DEF Begins
  <2>4. CASE warming' = [warming EXCEPT !.session = Recorded(@, task[t].site)] /\ warming.started
    <3> DEFINE x == warming.session
               y == Recorded(x, task[t].site)
    <3>1. y \in SessionType /\ y.sites = x.sites \cup {task[t].site}
      <4>1. x \in SessionType
        BY <1>2
      <4> QED
        BY <2>1, <4>1, RecordedFacts
    <3>2. IsFiniteSet(y.sites)
      BY <3>1, FS_AddElement DEF SessionInv
    <3>3. /\ Air(task') = Air(task) \ {t}
          /\ \A u \in Air(task') : task'[u].site = task[u].site
      BY <1>1, <2>1, <2>2 DEF Air, Moves
    <3>4. Bounded(y, task')
      BY <1>2, <2>1, <3>3, BoundedRecorded DEF SessionInv
    <3> HIDE DEF y
    <3>5. warming' \in [started : BOOLEAN, session : SessionType]
          /\ warming'.session = y /\ warming'.started
      BY <1>2, <2>4, <3>1 DEF y
    <3>6. Bounded(warming.session, task)'
      BY <3>4, <3>5 DEF Bounded, Air, AirSites, InAir
    <3> QED
      BY <3>2, <3>5, <3>6 DEF SessionInv
  <2> QED
    BY <1>8, <2>3, <2>4 DEF Navigated
<1>9. ASSUME NEW t \in Task, Clicked(t)
      PROVE  SessionInv'
  <2>1. Moves(t) /\ ~InAir(task'[t]) /\ UNCHANGED warming
    BY <1>1, <1>9 DEF Clicked, Moves, Return, Become, InAir, Idle
  <2> QED
    BY <1>1, <2>1, SessionStep DEF Begins
<1>10. CASE StartWarming
  BY <1>2, <1>10, QuietSession DEF StartWarming, SessionInv
<1>11. CASE CloseBrowser
  <2>1. /\ warming' = [warming EXCEPT !.session.active = FALSE] /\ task' = task
        /\ warming.session \in SessionType
    BY <1>2, <1>11 DEF CloseBrowser
  <2>2. /\ warming' \in [started : BOOLEAN, session : SessionType]
        /\ warming'.started = warming.started
        /\ warming'.session = [warming.session EXCEPT !.active = FALSE]
    BY <1>2, <2>1 DEF SessionType
  <2>3. /\ warming'.session.pages = warming.session.pages
        /\ warming'.session.actions = warming.session.actions
        /\ warming'.session.sites = warming.session.sites
    BY <2>1, <2>2 DEF SessionType
  <2>4. ~warming'.started => warming'.session = NoSession
    BY <2>2, NoSessionFacts DEF SessionInv
  <2> QED
    BY <2>1, <2>2, <2>3, <2>4, QuietSession DEF SessionInv
<1>12. CASE LaunchBrowser
  <2>1. /\ task' = task
        /\ warming' = IF warming.started THEN [warming EXCEPT !.session = Session] ELSE warming
    BY <1>12 DEF LaunchBrowser
  <2>2. Session \in {warming.session, NewSession}
    BY DEF Session
  <2>3. /\ warming' \in [started : BOOLEAN, session : SessionType]
        /\ warming'.started = warming.started
        /\ warming'.session \in {warming.session, NewSession}
        /\ ~warming'.started => warming'.session = NoSession
    BY <1>2, <2>1, <2>2, FreshFacts DEF SessionInv
  <2>4. IsFiniteSet(warming'.session.sites)
    BY <2>3, FreshFacts DEF SessionInv
  <2> QED
    BY <2>1, <2>3, <2>4, QuietSession
<1>13. CASE Tick
  <2> DEFINE m == IF warming.session.active /\ warming.session.minutes < MaxMinutes
                  THEN warming.session.minutes + 1 ELSE warming.session.minutes
  <2>1. warming' = [warming EXCEPT !.session.minutes = m]
    BY <1>13 DEF Tick
  <2>2. m \in 0..MaxMinutes
    BY <1>2, LimitFacts DEF SessionType
  <2>3. ~warming.started => m = 0
    BY DEF SessionInv, NoSession
  <2> HIDE DEF m
  <2>4. /\ warming' \in [started : BOOLEAN, session : SessionType]
        /\ warming'.started = warming.started
        /\ warming'.session = [warming.session EXCEPT !.minutes = m]
    BY <1>2, <2>1, <2>2 DEF SessionType
  <2>5. /\ warming'.session.pages = warming.session.pages
        /\ warming'.session.actions = warming.session.actions
        /\ warming'.session.sites = warming.session.sites
    BY <1>2, <2>4 DEF SessionType
  <2>6. ~warming'.started => warming'.session = NoSession
    BY <2>3, <2>4, NoSessionFacts DEF SessionInv
  <2>7. Bounded(warming'.session, task)
    BY <2>5 DEF SessionInv, Bounded
  <2>8. /\ Air(task') = Air(task)
        /\ \A u \in Air(task') : task'[u].site = task[u].site
    <3>1. \A u \in Task : /\ task[u] \in Caller
                          /\ task'[u] = [task[u] EXCEPT !.sleep = Less(@)]
      BY <1>1, <1>13 DEF Tick
    <3>2. \A u \in Task : task'[u].pc = task[u].pc /\ task'[u].site = task[u].site
      BY <3>1 DEF Caller
    <3> QED
      BY <3>2 DEF Air, InAir
  <2>9. Bounded(warming'.session, task')
    <3>1. warming'.session \in SessionType /\ IsFiniteSet(warming'.session.sites)
      BY <2>4, <2>5 DEF SessionInv
    <3> QED
      BY <2>7, <2>8, <3>1, BoundedFewer
  <2>10. Bounded(warming.session, task)'
    BY <2>9 DEF Bounded, Air, AirSites, InAir
  <2> QED
    BY <2>4, <2>5, <2>6, <2>10 DEF SessionInv
<1>14. CASE UNCHANGED <<task, warming>>
  BY <1>2, <1>14, QuietSession DEF SessionInv
<1>15. CASE ReadHealth \/ UNCHANGED vars \/ \E a \in Account, s \in Site : SetRateLimit(a, s)
  BY <1>14, <1>15 DEF ReadHealth, SetRateLimit, vars
<1> QED
  BY <1>3, <1>4, <1>5, <1>6, <1>7, <1>8, <1>9, <1>10, <1>11, <1>12, <1>13, <1>15
     DEF Next, TaskStep

-----------------------------------------------------------------------------
\* What remains for the types.

HealthType == [cooling : BOOLEAN, left : Nat, count : 0..(Len(Duration) - 1),
               events : BOOLEAN]

RestInv ==
  /\ health \in HealthType
  /\ open \in BOOLEAN /\ requests \in Nat /\ uses \in Nat /\ calls \in [Task -> Nat]

LEMMA HealthFacts ==
  ASSUME NEW h \in HealthType
  PROVE  /\ Seen(h) \in HealthType /\ WithEvent(h) \in HealthType
         /\ StartCooling(h) \in HealthType
         /\ [h EXCEPT !.left = Less(@)] \in HealthType
<1>1. Len(Duration) \in Nat \ {0} /\ \A i \in 1..Len(Duration) : Duration[i] \in Nat
  BY HealthAssumption, EmptySeq, LenProperties, ElementOfSeq
<1>2. h.count \in 0..(Len(Duration) - 1) /\ h.left \in Nat
  BY DEF HealthType
<1>3. /\ Duration[h.count + 1] \in Nat
      /\ (IF h.count + 1 < Len(Duration) THEN h.count + 1 ELSE h.count) \in 0..(Len(Duration) - 1)
      /\ Less(h.left) \in Nat
  BY <1>1, <1>2 DEF Less
<1>4. Seen(h) \in HealthType /\ WithEvent(h) \in HealthType
  BY DEF Seen, WithEvent, HealthType
<1>5. [h EXCEPT !.left = Less(@)] \in HealthType
  BY <1>3 DEF HealthType
<1>6. StartCooling(h) \in HealthType
  <2> DEFINE d == Duration[h.count + 1]
             n == IF h.count + 1 < Len(Duration) THEN h.count + 1 ELSE h.count
  <2>1. StartCooling(h) = [h EXCEPT !.cooling = TRUE, !.left = d, !.count = n]
    BY DEF StartCooling, HealthType
  <2>2. d \in Nat /\ n \in 0..(Len(Duration) - 1)
    BY <1>3
  <2> HIDE DEF d, n
  <2> QED
    BY <2>1, <2>2 DEF HealthType
<1> QED
  BY <1>4, <1>5, <1>6

LEMMA RestNext ==
  ASSUME RestInv, [Next]_vars
  PROVE  RestInv'
<1> USE DEF RestInv
<1>1. Seen(health) \in HealthType /\ WithEvent(health) \in HealthType
  BY HealthFacts
<1>2. ASSUME NEW t, NEW local, Gates(t, local)
      PROVE  health' \in HealthType
  BY <1>1, <1>2 DEF Gates
<1>3. ASSUME NEW t, NEW local, ToolRound(t, local)
      PROVE  health' \in HealthType
  BY <1>2, <1>3 DEF ToolRound, PastToolLimiter
<1>4. ASSUME NEW t \in Task, NEW s \in Visits[t], NEW limited \in BOOLEAN, Goto(t, s, limited)
      PROVE  RestInv'
  BY <1>3, <1>4 DEF Goto, Called, Rest
<1>5. ASSUME NEW t \in Task, Click(t)
      PROVE  RestInv'
  BY <1>3, <1>5 DEF Click, Called, Rest
<1>6. ASSUME NEW t \in Task, TaskStep(t)
      PROVE  RestInv'
  <2>1. Same
    BY <1>6 DEF TaskStep, ToolWake, Robots, RateWake, Navigated, Clicked
  <2>2. health' \in HealthType
    BY <1>1, <1>2, <1>3, <1>6 DEF TaskStep, ToolWake, Robots, RateWake, Navigated, Clicked
  <2> QED
    BY <2>1, <2>2 DEF Same, Rest
<1>7. CASE StartWarming \/ CloseBrowser \/ LaunchBrowser \/ UNCHANGED vars
           \/ \E a \in Account, s \in Site : SetRateLimit(a, s)
  <2>1. /\ UNCHANGED <<health, requests, calls>>
        /\ uses' = uses + 1 \/ uses' = uses
    BY <1>7 DEF StartWarming, CloseBrowser, LaunchBrowser, SetRateLimit, Uses, vars
  <2>2. open' \in BOOLEAN
    <3>1. open' = open \/ open' = TRUE \/ open' = FALSE
      BY <1>7, Zenon DEF StartWarming, CloseBrowser, LaunchBrowser, SetRateLimit, vars
    <3>2. open \in BOOLEAN
      OBVIOUS
    <3> QED
      BY <3>1, <3>2, Zenon
  <2> QED
    BY <2>1, <2>2
<1>8. CASE ReadHealth
  <2>1. health' \in HealthType
    <3>1. Seen(health) \in HealthType /\ StartCooling(Seen(health)) \in HealthType
      BY <1>1, HealthFacts
    <3> QED
      BY <1>8, <3>1 DEF ReadHealth, Recalculated
  <2> QED
    BY <1>8, <2>1 DEF ReadHealth, Uses
<1>9. CASE Tick
  BY <1>9, HealthFacts DEF Tick, Same, Rest
<1> QED
  BY <1>4, <1>5, <1>6, <1>7, <1>8, <1>9 DEF Next

LEMMA RestInit ==
  ASSUME Init
  PROVE  RestInv
<1>1. Len(Duration) \in Nat \ {0}
  BY HealthAssumption, EmptySeq, LenProperties
<1> QED
  BY <1>1 DEF Init, RestInv, HealthType

LEMMA SessionInit ==
  ASSUME Init
  PROVE  SessionInv
<1>1. warming \in [started : BOOLEAN, session : SessionType]
  BY FreshFacts DEF Init
<1>2. warming.session \in {NoSession, NewSession} /\ (~warming.started => warming.session = NoSession)
  BY DEF Init
<1> QED
  BY <1>1, <1>2, FreshFacts DEF SessionInv

-----------------------------------------------------------------------------
\* The invariant, and what follows from it.

NavigationInv == LimiterInv /\ SessionInv /\ RestInv

LEMMA NavigationInductive ==
  /\ Init => NavigationInv
  /\ NavigationInv /\ [Next]_vars => NavigationInv'
BY LimiterInit, LimiterNext, SessionInit, SessionNext, RestInit, RestNext DEF NavigationInv

LEMMA NavigationInvHolds == Spec => []NavigationInv
BY NavigationInductive, PTL DEF Spec

\* Whatever the callers, the user and the clock do, the variables keep their
\* types; in particular a list of request times never reaches back further
\* than an hour and nobody ever sleeps longer.
THEOREM NavigationTypeCorrect == Spec => []TypeOK
<1>1. NavigationInv => TypeOK
  BY DEF NavigationInv, LimiterInv, ListsOK, SessionInv, RestInv, TypeOK, Ages, Caller,
         SessionType, HealthType
<1> QED
  BY <1>1, NavigationInvHolds, PTL

\* No window of DomainRateLimiter or ToolRateLimiter ever holds more requests
\* than its limit, for every number of callers that sleep and wake together,
\* every limit and every length of the windows: wait_if_needed() and
\* check_and_wait() look again after each sleep, and grant without a suspension.
THEOREM WindowsAlwaysHold == Spec => []WindowsHold
<1>1. NavigationInv => WindowsHold
  BY DEF NavigationInv, LimiterInv, SiteWindows, ToolWindows, WindowsHold
<1> QED
  BY <1>1, NavigationInvHolds, PTL

\* A caller that sleeps in one of the limiters never has more left to sleep than
\* the limits that it read would require of it now.
THEOREM SleepIsAlwaysNeeded == Spec => []SleepIsNeeded
<1>1. NavigationInv => SleepIsNeeded
  BY SameWaits DEF NavigationInv, LimiterInv, CallerOK, Placed, SleepIsNeeded
<1> QED
  BY <1>1, NavigationInvHolds, PTL

\* The warming schedule checks a session before a navigation and counts it after:
\* its limits are exceeded by fewer than there are callers, however the
\* navigations overlap and however often the session begins again.
THEOREM WarmingOverrunAlwaysBounded == Spec => []WarmingOverrunIsBounded
<1>1. NavigationInv => WarmingOverrunIsBounded
  BY SameBound DEF NavigationInv, SessionInv
<1> QED
  BY <1>1, NavigationInvHolds, PTL

=============================================================================
