-------------------------- MODULE TimeSeriesProofs --------------------------
(***************************************************************************)
(* For every range and every set of records whose times fit a signed short *)
(* (TimesFit): the entries stay sorted and every window query is exact.    *)
(***************************************************************************)
EXTENDS TimeSeries, TLAPS, WellFoundedInduction

(* A search for any time ends somewhere.                                   *)
LEMMA LowerBoundExists ==
  ASSUME NEW s \in Seq(EntryType), NEW k \in Nat
  PROVE  \E i \in 1 .. Len(s) + 1 : IsLowerBound(s, k, i)
<1> DEFINE T == {i \in 1 .. Len(s) + 1 : i <= Len(s) => s[i].time >= k}
<1>1. Len(s) \in Nat
  OBVIOUS
<1>2. T \subseteq Nat /\ Len(s) + 1 \in T
  BY <1>1
<1>3. PICK i \in T : \A j \in T : ~(j < i)
  <2>1. IsWellFoundedOn(OpToRel(<, Nat), Nat)
    BY NatLessThanWellFounded
  <2>2. PICK i \in T : \A y \in T : ~(<<y, i>> \in OpToRel(<, Nat))
    BY <1>2, <2>1, WFMin, ZenonT(60)
  <2> QED
    BY <1>2, <2>2 DEF OpToRel
<1>4. \A j \in 1 .. i - 1 : s[j].time < k
  <2> SUFFICES ASSUME NEW j \in 1 .. i - 1 PROVE s[j].time < k
    OBVIOUS
  <2>1. j \in 1 .. Len(s) /\ j < i
    BY <1>1, <1>3
  <2>2. s[j].time \in Nat
    <3>1. s[j] \in EntryType
      BY <2>1
    <3> QED
      BY <3>1 DEF EntryType
  <2>3. j \notin T
    BY <2>1, <1>3
  <2> QED
    BY <1>1, <2>1, <2>2, <2>3
<1> QED
  BY <1>3, <1>4 DEF IsLowerBound

(* So LowerBound, which chooses one, is one.                               *)
LEMMA LowerBoundIs ==
  ASSUME NEW s \in Seq(EntryType), NEW k \in Nat
  PROVE  /\ LowerBound(s, k) \in 1 .. Len(s) + 1
         /\ IsLowerBound(s, k, LowerBound(s, k))
  BY LowerBoundExists DEF LowerBound

(* As many entries as there are times that fit: far fewer than the size    *)
(* tag of a small_vector can count, so its length never wraps.             *)
LEMMA FewEntries ==
  ASSUME NEW s \in Seq(EntryType), Gaps(s), InRange(s)
  PROVE  Len(s) <= HalfRange /\ Len(s) < SizeRange /\ Sized(s) = s
<1>1. Len(s) \in Nat
  OBVIOUS
<1>2. Len(s) <= HalfRange
  <2>1. CASE Len(s) <= 1
    BY <1>1, <2>1, RangesAssumption DEF RangesAssumption
  <2>2. CASE Len(s) > 1
    <3>1. 1 \in 1 .. Len(s) /\ Len(s) \in 1 .. Len(s)
      BY <1>1, <2>2
    <3>2. s[1] \in EntryType /\ s[Len(s)] \in EntryType
      BY <3>1
    <3>3. s[1].time \in Nat /\ s[Len(s)].time \in Nat
      BY <3>2 DEF EntryType
    <3>4. s[Len(s)].time - s[1].time >= Len(s) - 1
      BY <3>1, <2>2 DEF Gaps
    <3>5. s[Len(s)].time < HalfRange
      BY <3>1 DEF InRange
    <3> QED
      BY <1>1, <3>3, <3>4, <3>5, RangesAssumption DEF RangesAssumption
  <2> QED
    BY <1>1, <2>1, <2>2
<1> QED
  BY <1>1, <1>2, RangesAssumption DEF RangesAssumption, Sized

(* What is stored before a position is a number.                           *)
LEMMA SumBeforeType ==
  ASSUME NEW s \in Seq(EntryType), NEW i \in 1 .. Len(s) + 1
  PROVE  SumBefore(s, i) \in Int
<1>1. CASE i = 1
  BY <1>1 DEF SumBefore
<1>2. CASE i # 1
  <2>1. i - 1 \in 1 .. Len(s)
    BY <1>2
  <2>2. s[i - 1] \in EntryType
    BY <2>1
  <2> QED
    BY <1>2, <2>2 DEF SumBefore, EntryType
<1> QED
  BY <1>1, <1>2

(* Adding a value to a suffix changes no time.                             *)
LEMMA AccumShape ==
  ASSUME NEW s \in Seq(EntryType), NEW i \in 1 .. Len(s), NEW v \in Int
  PROVE  /\ AccumFrom(s, i, v) \in Seq(EntryType)
         /\ Len(AccumFrom(s, i, v)) = Len(s)
         /\ \A j \in 1 .. Len(s) :
              /\ AccumFrom(s, i, v)[j].time = s[j].time
              /\ AccumFrom(s, i, v)[j].sum = s[j].sum + (IF j < i THEN 0 ELSE v)
<1> DEFINE r == AccumFrom(s, i, v)
<1>1. \A j \in 1 .. Len(s) : s[j] \in EntryType /\ s[j].time \in Nat /\ s[j].sum \in Int
  <2> TAKE j \in 1 .. Len(s)
  <2>1. s[j] \in EntryType
    OBVIOUS
  <2> QED
    BY <2>1 DEF EntryType
<1>2. \A j \in 1 .. Len(s) :
        r[j] = IF j < i THEN s[j] ELSE Entry(s[j].time, s[j].sum + v)
  BY DEF AccumFrom
<1>3. \A j \in 1 .. Len(s) :
        /\ r[j] \in EntryType
        /\ r[j].time = s[j].time
        /\ r[j].sum = s[j].sum + (IF j < i THEN 0 ELSE v)
  <2> TAKE j \in 1 .. Len(s)
  <2> HIDE DEF r
  <2>1. CASE j < i
    <3>1. r[j] = s[j]
      BY <1>2, <2>1
    <3> QED
      BY <1>1, <2>1, <3>1
  <2>2. CASE ~(j < i)
    <3>1. r[j] = Entry(s[j].time, s[j].sum + v)
      BY <1>2, <2>2
    <3> QED
      BY <1>1, <2>2, <3>1, SMTT(30) DEF Entry, EntryType
  <2> QED
    BY <2>1, <2>2
<1>4. r = [j \in 1 .. Len(s) |-> r[j]]
  BY DEF AccumFrom
<1>5. r \in Seq(EntryType) /\ Len(r) = Len(s)
  <2> HIDE DEF r
  <2> QED
    BY <1>3, <1>4
<1> QED
  BY <1>3, <1>5

(* The entries after an insertion, and what is stored in them.             *)
LEMMA InsertShape ==
  ASSUME NEW s \in Seq(EntryType), NEW i \in 1 .. Len(s) + 1,
         NEW k \in Nat, NEW v \in Int,
         NEW r, r = InsertEntry(s, i, k, v)
  PROVE  /\ r \in Seq(EntryType)
         /\ Len(r) = Len(s) + 1
         /\ r[i].time = k /\ r[i].sum = SumBefore(s, i) + v
         /\ \A j \in 1 .. i - 1 : r[j] = s[j]
         /\ \A j \in i + 1 .. Len(s) + 1 :
              r[j].time = s[j - 1].time /\ r[j].sum = s[j - 1].sum + v
<1>1. \A j \in 1 .. Len(s) : s[j] \in EntryType /\ s[j].time \in Nat /\ s[j].sum \in Int
  <2> TAKE j \in 1 .. Len(s)
  <2>1. s[j] \in EntryType
    OBVIOUS
  <2> QED
    BY <2>1 DEF EntryType
<1>2. SumBefore(s, i) \in Int
  BY SumBeforeType
<1>3. \A j \in 1 .. Len(s) + 1 :
        r[j] = IF j < i THEN s[j]
               ELSE IF j = i THEN Entry(k, SumBefore(s, i) + v)
               ELSE Entry(s[j - 1].time, s[j - 1].sum + v)
  BY DEF InsertEntry
<1>4. r = [j \in 1 .. Len(s) + 1 |-> r[j]]
  BY DEF InsertEntry
<1>5. \A j \in 1 .. i - 1 : r[j] = s[j] /\ r[j] \in EntryType
  <2> TAKE j \in 1 .. i - 1
  <2> QED
    BY <1>1, <1>3
<1>6. r[i].time = k /\ r[i].sum = SumBefore(s, i) + v /\ r[i] \in EntryType
  <2>1. r[i] = Entry(k, SumBefore(s, i) + v)
    BY <1>3
  <2> QED
    BY <1>2, <2>1 DEF Entry, EntryType
<1>7. \A j \in i + 1 .. Len(s) + 1 :
        /\ r[j].time = s[j - 1].time /\ r[j].sum = s[j - 1].sum + v
        /\ r[j] \in EntryType
  <2> TAKE j \in i + 1 .. Len(s) + 1
  <2>1. j - 1 \in 1 .. Len(s) /\ j \in 1 .. Len(s) + 1 /\ ~(j < i) /\ j # i
    OBVIOUS
  <2>2. r[j] = Entry(s[j - 1].time, s[j - 1].sum + v)
    BY <1>3, <2>1
  <2> QED
    BY <1>1, <2>1, <2>2, SMTT(30) DEF Entry, EntryType
<1>8. \A j \in 1 .. Len(s) + 1 : r[j] \in EntryType
  <2> TAKE j \in 1 .. Len(s) + 1
  <2>1. j \in 1 .. i - 1 \/ j = i \/ j \in i + 1 .. Len(s) + 1
    OBVIOUS
  <2> QED
    BY <1>5, <1>6, <1>7, <2>1
<1>9. Len(s) + 1 \in Nat
  OBVIOUS
<1>10. r \in Seq(EntryType) /\ Len(r) = Len(s) + 1
  BY <1>4, <1>8, <1>9
<1> QED
  BY <1>5, <1>6, <1>7, <1>10

(* The history after a record of value v at time t.                        *)
Recorded(sums, t, v) ==
  [b \in Timestamps |-> sums[b] + (IF t < b THEN v ELSE 0)]

(* What one operation must keep of the entries s and the sums of the       *)
(* history.                                                                *)
Exact(s, sums) == Gaps(s) /\ InRange(s) /\ Cumulative(s, sums)

(* Accumulating into the entry of time t keeps the sums exact.             *)
LEMMA AccumKeeps ==
  ASSUME NEW s \in Seq(EntryType), NEW sums \in [Timestamps -> Int],
         NEW i \in 1 .. Len(s), NEW v \in Int, Exact(s, sums)
  PROVE  Exact(AccumFrom(s, i, v), Recorded(sums, s[i].time, v))
<1> DEFINE r == AccumFrom(s, i, v)
<1> DEFINE t == s[i].time
<1>1. /\ r \in Seq(EntryType) /\ Len(r) = Len(s)
      /\ \A j \in 1 .. Len(s) :
           /\ r[j].time = s[j].time
           /\ r[j].sum = s[j].sum + (IF j < i THEN 0 ELSE v)
  BY AccumShape
<1>2. \A j \in 1 .. Len(s) : s[j].time \in Nat /\ s[j].sum \in Int
  <2> TAKE j \in 1 .. Len(s)
  <2>1. s[j] \in EntryType
    OBVIOUS
  <2> QED
    BY <2>1 DEF EntryType
<1> HIDE DEF r
<1>3. Gaps(r) /\ InRange(r)
  BY <1>1 DEF Exact, Gaps, InRange
<1>4. ASSUME NEW b \in Timestamps, NEW n \in 1 .. Len(r) + 1, IsLowerBound(r, b, n)
      PROVE  Recorded(sums, t, v)[b] = SumBefore(r, n)
  <2>0. b \in Nat /\ n \in 1 .. Len(s) + 1 /\ t \in Nat
    BY <1>1, <1>2, RangesAssumption DEF Timestamps, RangesAssumption
  <2>1. IsLowerBound(s, b, n)
    BY <1>1, <1>4, SMTT(30) DEF IsLowerBound
  <2>2. sums[b] = SumBefore(s, n) /\ SumBefore(s, n) \in Int
    BY <2>0, <2>1, SumBeforeType DEF Exact, Cumulative
  <2>3. Recorded(sums, t, v)[b] = sums[b] + (IF t < b THEN v ELSE 0)
    BY DEF Recorded
  <2>4. CASE n <= i
    <3>1. ~(t < b)
      <4>1. s[n].time >= b /\ n \in 1 .. Len(s)
        BY <2>0, <2>1, <2>4 DEF IsLowerBound
      <4>2. s[n].time <= s[i].time
        <5>1. CASE n = i
          BY <5>1, <1>2
        <5>2. CASE n < i
          BY <5>2, <4>1, <1>2 DEF Exact, Gaps
        <5> QED
          BY <5>1, <5>2, <2>4, <2>0
      <4> QED
        BY <4>1, <4>2, <2>0, <1>2
    <3>2. SumBefore(r, n) = SumBefore(s, n)
      <4>1. CASE n = 1
        BY <4>1 DEF SumBefore
      <4>2. CASE n # 1
        <5>1. n - 1 \in 1 .. Len(s) /\ n - 1 < i
          BY <2>0, <2>4, <4>2
        <5>2. r[n - 1].sum = s[n - 1].sum
          BY <5>1, <1>1, <1>2
        <5> QED
          BY <4>2, <5>2 DEF SumBefore
      <4> QED
        BY <4>1, <4>2
    <3> QED
      BY <2>2, <2>3, <3>1, <3>2
  <2>5. CASE i < n
    <3>1. t < b
      BY <2>0, <2>1, <2>5 DEF IsLowerBound
    <3>2. SumBefore(r, n) = SumBefore(s, n) + v
      <4>1. n # 1 /\ n - 1 \in 1 .. Len(s) /\ ~(n - 1 < i)
        BY <2>0, <2>5
      <4>2. r[n - 1].sum = s[n - 1].sum + v
        BY <4>1, <1>1
      <4> QED
        BY <4>1, <4>2 DEF SumBefore
    <3> QED
      BY <2>2, <2>3, <3>1, <3>2
  <2> QED
    BY <2>0, <2>4, <2>5
<1> QED
  BY <1>3, <1>4 DEF Exact, Cumulative, r

(* Inserting an entry between the earlier and the later ones keeps the     *)
(* sums exact.                                                             *)
LEMMA InsertKeeps ==
  ASSUME NEW s \in Seq(EntryType), NEW sums \in [Timestamps -> Int],
         NEW i \in 1 .. Len(s) + 1, NEW k \in Nat, NEW v \in Int,
         Exact(s, sums), k < HalfRange,
         \A j \in 1 .. i - 1 : s[j].time < k,
         \A j \in i .. Len(s) : s[j].time > k
  PROVE  Exact(InsertEntry(s, i, k, v), Recorded(sums, k, v))
<1> DEFINE r == InsertEntry(s, i, k, v)
<1>1. /\ r \in Seq(EntryType) /\ Len(r) = Len(s) + 1
      /\ r[i].time = k /\ r[i].sum = SumBefore(s, i) + v
      /\ \A j \in 1 .. i - 1 : r[j] = s[j]
      /\ \A j \in i + 1 .. Len(s) + 1 :
           r[j].time = s[j - 1].time /\ r[j].sum = s[j - 1].sum + v
  BY InsertShape, SMTT(30)
<1>2. \A j \in 1 .. Len(s) : s[j].time \in Nat /\ s[j].sum \in Int
  <2> TAKE j \in 1 .. Len(s)
  <2>1. s[j] \in EntryType
    OBVIOUS
  <2> QED
    BY <2>1 DEF EntryType
<1> HIDE DEF r
<1>3. InRange(r)
  <2> SUFFICES ASSUME NEW j \in 1 .. Len(s) + 1 PROVE r[j].time < HalfRange
    BY <1>1 DEF InRange
  <2>1. CASE j < i
    BY <2>1, <1>1, SMTT(30) DEF Exact, InRange
  <2>2. CASE j = i
    BY <2>2, <1>1
  <2>3. CASE j > i
    <3>1. j \in i + 1 .. Len(s) + 1 /\ j - 1 \in 1 .. Len(s)
      BY <2>3
    <3> QED
      BY <3>1, <1>1 DEF Exact, InRange
  <2> QED
    BY <2>1, <2>2, <2>3
<1>4. Gaps(r)
  <2>1. \A x, y \in 1 .. Len(s) : x <= y => s[y].time - s[x].time >= y - x
    <3> SUFFICES ASSUME NEW x \in 1 .. Len(s), NEW y \in 1 .. Len(s), x <= y
                 PROVE  s[y].time - s[x].time >= y - x
      OBVIOUS
    <3>1. CASE x = y
      BY <3>1, <1>2
    <3>2. CASE x < y
      BY <3>2 DEF Exact, Gaps
    <3> QED
      BY <3>1, <3>2
  <2>2. ASSUME NEW j \in 1 .. i - 1
        PROVE  r[j].time \in Nat /\ k - r[j].time >= i - j
    <3>1. j \in 1 .. Len(s) /\ i - 1 \in 1 .. Len(s) /\ i - 1 \in 1 .. i - 1
      OBVIOUS
    <3>2. s[i - 1].time - s[j].time >= (i - 1) - j /\ s[i - 1].time < k
      BY <2>1, <3>1
    <3>3. s[i - 1].time \in Nat /\ s[j].time \in Nat /\ r[j].time = s[j].time
      BY <1>1, <1>2, <3>1
    <3> DEFINE last  == s[i - 1].time
               first == s[j].time
    <3>4. /\ last \in Nat /\ first \in Nat /\ r[j].time = first
          /\ last - first >= (i - 1) - j /\ last < k
      BY <3>2, <3>3
    <3> HIDE DEF last, first
    <3>5. k - first >= i - j
      BY <3>4
    <3> QED
      BY <3>4, <3>5
  <2>3. ASSUME NEW m \in i + 1 .. Len(s) + 1
        PROVE  r[m].time \in Nat /\ r[m].time - k >= m - i
    <3>1. i \in 1 .. Len(s) /\ i \in i .. Len(s) /\ m - 1 \in 1 .. Len(s) /\ i <= m - 1
      OBVIOUS
    <3>2. s[m - 1].time - s[i].time >= (m - 1) - i /\ s[i].time > k
      BY <2>1, <3>1
    <3>3. s[m - 1].time \in Nat /\ s[i].time \in Nat /\ r[m].time = s[m - 1].time
      BY <1>1, <1>2, <3>1
    <3> DEFINE last  == s[m - 1].time
               first == s[i].time
    <3>4. /\ last \in Nat /\ first \in Nat /\ r[m].time = last
          /\ last - first >= (m - 1) - i /\ first > k
      BY <3>2, <3>3
    <3> HIDE DEF last, first
    <3>5. m \in Int /\ i \in Int /\ k \in Int /\ last \in Int /\ first \in Int
      BY <3>4
    <3>6. last - k >= m - i
      BY <3>4, <3>5
    <3> QED
      BY <3>4, <3>6
  <2> SUFFICES ASSUME NEW j \in 1 .. Len(s) + 1, NEW m \in 1 .. Len(s) + 1, j < m
               PROVE  r[m].time - r[j].time >= m - j
    BY <1>1 DEF Gaps
  <2>4. CASE m < i
    <3>1. j \in 1 .. i - 1 /\ m \in 1 .. i - 1 /\ j \in 1 .. Len(s) /\ m \in 1 .. Len(s)
      BY <2>4
    <3> QED
      BY <3>1, <1>1 DEF Exact, Gaps
  <2>5. CASE m = i
    BY <2>5, <2>2, <1>1
  <2>6. CASE j = i
    BY <2>6, <2>3, <1>1
  <2>7. CASE j < i /\ i < m
    <3>1. j \in 1 .. i - 1 /\ m \in i + 1 .. Len(s) + 1
      BY <2>7
    <3>2. r[j].time \in Nat /\ k - r[j].time >= i - j
      BY <2>2, <3>1
    <3>3. r[m].time \in Nat /\ r[m].time - k >= m - i
      BY <2>3, <3>1
    <3> QED
      BY <3>2, <3>3, SMTT(30)
  <2>8. CASE i < j
    <3>1. /\ j \in i + 1 .. Len(s) + 1 /\ m \in i + 1 .. Len(s) + 1
          /\ j - 1 \in 1 .. Len(s) /\ m - 1 \in 1 .. Len(s) /\ j - 1 <= m - 1
      BY <2>8
    <3>2. r[m].time - r[j].time >= (m - 1) - (j - 1)
      BY <2>1, <3>1, <1>1
    <3> QED
      BY <3>2
  <2> QED
    BY <2>4, <2>5, <2>6, <2>7, <2>8
<1>5. ASSUME NEW b \in Timestamps, NEW n \in 1 .. Len(r) + 1, IsLowerBound(r, b, n)
      PROVE  Recorded(sums, k, v)[b] = SumBefore(r, n)
  <2>0. /\ b \in Nat /\ n \in 1 .. Len(s) + 2 /\ Len(s) \in Nat
        /\ \A j \in 1 .. n - 1 : r[j].time < b
        /\ n <= Len(s) + 1 => r[n].time >= b
    BY <1>1, <1>5, RangesAssumption DEF Timestamps, RangesAssumption, IsLowerBound
  <2>1. Recorded(sums, k, v)[b] = sums[b] + (IF k < b THEN v ELSE 0) /\ sums[b] \in Int
    BY DEF Recorded
  <2>2. CASE n <= i
    <3>1. IsLowerBound(s, b, n) /\ ~(k < b)
      <4>1. CASE n < i
        <5>1. n \in 1 .. i - 1 /\ n \in 1 .. Len(s) /\ r[n] = s[n] /\ s[n].time < k
          BY <4>1, <2>0, <1>1
        <5> QED
          BY <2>0, <4>1, <5>1, <1>1, <1>2 DEF IsLowerBound
      <4>2. CASE n = i
        <5>1. k >= b
          BY <4>2, <2>0, <1>1
        <5>2. i <= Len(s) => s[i].time >= b
          BY <5>1, <2>0, <1>2
        <5>3. \A j \in 1 .. n - 1 : s[j].time < b
          BY <4>2, <2>0, <1>1
        <5> QED
          BY <4>2, <5>1, <5>2, <5>3, <2>0 DEF IsLowerBound
      <4> QED
        BY <2>2, <2>0, <4>1, <4>2
    <3>2. sums[b] = SumBefore(s, n)
      BY <2>0, <2>2, <3>1 DEF Exact, Cumulative
    <3>3. SumBefore(r, n) = SumBefore(s, n)
      <4>1. n = 1 \/ n - 1 \in 1 .. i - 1
        BY <2>0, <2>2
      <4> QED
        BY <4>1, <1>1 DEF SumBefore
    <3> QED
      BY <2>1, <3>1, <3>2, <3>3
  <2>3. CASE i < n
    <3>1. k < b
      BY <2>0, <2>3, <1>1
    <3>2. n - 1 \in 1 .. Len(s) + 1 /\ n # 1
      BY <2>0, <2>3
    <3>3. IsLowerBound(s, b, n - 1)
      <4>1. ASSUME NEW j \in 1 .. (n - 1) - 1 PROVE s[j].time < b
        <5>1. CASE j < i
          <6>1. j \in 1 .. i - 1 /\ j \in 1 .. n - 1
            BY <5>1, <3>2
          <6> QED
            BY <6>1, <2>0, <1>1
        <5>2. CASE ~(j < i)
          <6>1. j + 1 \in i + 1 .. Len(s) + 1 /\ j + 1 \in 1 .. n - 1 /\ (j + 1) - 1 = j
            BY <5>2, <3>2, <2>0
          <6> QED
            BY <6>1, <2>0, <1>1
        <5> QED
          BY <5>1, <5>2
      <4>2. ASSUME n - 1 <= Len(s) PROVE s[n - 1].time >= b
        <5>1. n \in i + 1 .. Len(s) + 1
          BY <4>2, <2>0, <2>3
        <5> QED
          BY <5>1, <2>0, <1>1
      <4> QED
        BY <3>2, <4>1, <4>2 DEF IsLowerBound
    <3>4. sums[b] = SumBefore(s, n - 1)
      BY <3>2, <3>3 DEF Exact, Cumulative
    <3>5. SumBefore(r, n) = SumBefore(s, n - 1) + v
      <4>1. CASE n - 1 = i
        BY <4>1, <3>2, <1>1 DEF SumBefore
      <4>2. CASE n - 1 # i
        <5>1. n - 1 \in i + 1 .. Len(s) + 1 /\ n - 1 # 1
          BY <4>2, <2>3, <2>0
        <5>2. r[n - 1].sum = s[(n - 1) - 1].sum + v
          BY <5>1, <1>1
        <5> QED
          BY <5>1, <5>2, <3>2 DEF SumBefore
      <4> QED
        BY <4>1, <4>2
    <3> QED
      BY <2>1, <3>1, <3>4, <3>5
  <2> QED
    BY <2>0, <2>2, <2>3
<1> QED
  BY <1>3, <1>4, <1>5 DEF Exact, Cumulative, r

(* One record whose time fits keeps the inductive invariant, whichever of  *)
(* the four cases of add it falls in.                                      *)
LEMMA AddKeepsIInv ==
  ASSUME TimesFit, IInv, NEW t \in Times, NEW v \in Values, Add(t, v)
  PROVE  IInv'
<1>1. t \in Nat /\ t < HalfRange /\ Key(t) = t /\ v \in Int
  BY RangesAssumption DEF RangesAssumption, TimesFit, Key
<1>2. /\ entries \in Seq(EntryType) /\ Len(entries) \in Nat
      /\ before \in [Timestamps -> Int] /\ Exact(entries, before)
      /\ \A j \in 1 .. Len(entries) : entries[j].time \in Nat
  <2>1. entries \in Seq(EntryType) /\ before \in [Timestamps -> Int]
    BY DEF IInv, TypeOK
  <2>2. ASSUME NEW j \in 1 .. Len(entries) PROVE entries[j].time \in Nat
    <3>1. entries[j] \in EntryType
      BY <2>1
    <3> QED
      BY <3>1 DEF EntryType
  <2> QED
    BY <2>1, <2>2 DEF IInv, Exact
<1>3. adds' \in Nat /\ before' = Recorded(before, t, v) /\ before' \in [Timestamps -> Int]
  <2>1. adds' = adds + 1 /\ before' = Recorded(before, t, v)
    BY DEF Add, Record, Recorded
  <2>2. \A b \in Timestamps : before[b] + (IF t < b THEN v ELSE 0) \in Int
    BY <1>1, <1>2
  <2> QED
    BY <2>1, <2>2 DEF Recorded, IInv, TypeOK
<1>4. ASSUME NEW i \in 1 .. Len(entries) + 1,
             \A j \in 1 .. i - 1 : entries[j].time < t,
             \A j \in i .. Len(entries) : entries[j].time > t,
             entries' = Sized(InsertEntry(entries, i, t, v))
      PROVE  IInv'
  <2>1. Exact(InsertEntry(entries, i, t, v), Recorded(before, t, v))
    BY <1>1, <1>2, <1>4, InsertKeeps
  <2>2. InsertEntry(entries, i, t, v) \in Seq(EntryType)
    BY <1>1, <1>2, InsertShape
  <2>3. entries' = InsertEntry(entries, i, t, v)
    BY <1>4, <2>1, <2>2, FewEntries DEF Exact
  <2>4. Len(entries') < SizeRange
    BY <2>1, <2>2, <2>3, FewEntries DEF Exact
  <2> QED
    BY <1>3, <2>1, <2>2, <2>3, <2>4 DEF IInv, TypeOK, Exact
<1>5. ASSUME NEW i \in 1 .. Len(entries), entries[i].time = t,
             entries' = AccumFrom(entries, i, v)
      PROVE  IInv'
  <2>1. Exact(entries', Recorded(before, t, v))
    BY <1>1, <1>2, <1>5, AccumKeeps
  <2>2. entries' \in Seq(EntryType)
    BY <1>1, <1>2, <1>5, AccumShape
  <2>3. Len(entries') < SizeRange
    BY <2>1, <2>2, FewEntries DEF Exact
  <2> QED
    BY <1>3, <2>1, <2>2, <2>3 DEF IInv, TypeOK, Exact
<1>6. \A i, j \in 1 .. Len(entries) : i < j => entries[i].time < entries[j].time
  BY <1>2 DEF Exact, Gaps
<1>7. CASE AddFirst(t, v)
  <2>1. Len(entries) = 0 /\ entries' = Sized(InsertEntry(entries, 1, t, v))
    BY <1>2, <1>7 DEF AddFirst
  <2> QED
    BY <2>1, <1>4
<1>8. CASE AppendLater(t, v)
  <2>1. /\ entries[Len(entries)].time < t /\ Len(entries) > 0
        /\ entries' = Sized(InsertEntry(entries, Len(entries) + 1, t, v))
    BY <1>2, <1>8 DEF AppendLater
  <2>2. \A j \in 1 .. Len(entries) : entries[j].time < t
    BY <1>1, <1>2, <1>6, <2>1
  <2> QED
    BY <1>2, <2>1, <2>2, <1>4
<1>9. CASE AccumLast(t, v)
  <2>1. /\ Len(entries) \in 1 .. Len(entries) /\ entries[Len(entries)].time = t
        /\ entries' = AccumFrom(entries, Len(entries), v)
    BY <1>2, <1>9 DEF AccumLast
  <2> QED
    BY <2>1, <1>5
<1>10. CASE OutOfOrder(t, v)
  <2> DEFINE i == LowerBound(entries, t)
  <2>1. /\ entries[Len(entries)].time > t /\ Len(entries) > 0
        /\ entries' = IF entries[i].time = t THEN AccumFrom(entries, i, v)
                      ELSE Sized(InsertEntry(entries, i, t, v))
    BY <1>2, <1>10 DEF OutOfOrder
  <2>2. i \in 1 .. Len(entries) + 1 /\ IsLowerBound(entries, t, i)
    BY <1>1, <1>2, LowerBoundIs
  <2> HIDE DEF i
  <2>3. i \in 1 .. Len(entries) /\ entries[i].time >= t
    BY <1>1, <1>2, <2>1, <2>2 DEF IsLowerBound
  <2>4. CASE entries[i].time = t
    BY <2>1, <2>3, <2>4, <1>5
  <2>5. CASE entries[i].time # t
    <3>1. \A j \in 1 .. i - 1 : entries[j].time < t
      BY <2>2 DEF IsLowerBound
    <3>2. \A j \in i .. Len(entries) : entries[j].time > t
      BY <1>1, <1>2, <1>6, <2>3, <2>5
    <3> QED
      BY <2>1, <2>2, <2>5, <3>1, <3>2, <1>4
  <2> QED
    BY <2>4, <2>5
<1> QED
  BY <1>1, <1>7, <1>8, <1>9, <1>10 DEF Add

(* Every entry holds the total of all that was recorded up to its time, so *)
(* that a search for any bound ends just behind the total before it: over  *)
(* any history of insertions, whose times come in any order.               *)
THEOREM Inductive == TimesFit /\ Spec => []IInv
<1>1. Init => IInv
  <2> SUFFICES ASSUME Init PROVE IInv
    OBVIOUS
  <2>1. entries = <<>> /\ before = [b \in Timestamps |-> 0] /\ adds = 0
    BY DEF Init
  <2>2. TypeOK
    BY <2>1, RangesAssumption DEF TypeOK, RangesAssumption
  <2>3. Gaps(entries) /\ InRange(entries)
    BY <2>1 DEF Gaps, InRange
  <2>4. Cumulative(entries, before)
    <3>1. ASSUME NEW b \in Timestamps, NEW i \in 1 .. Len(entries) + 1
          PROVE  before[b] = SumBefore(entries, i)
      <4>1. i = 1
        BY <2>1
      <4> QED
        BY <2>1, <4>1 DEF SumBefore
    <3> QED
      BY <3>1 DEF Cumulative
  <2> QED
    BY <2>2, <2>3, <2>4 DEF IInv
<1>2. TimesFit /\ IInv /\ [Next]_vars => IInv'
  <2> SUFFICES ASSUME TimesFit, IInv, [Next]_vars PROVE IInv'
    OBVIOUS
  <2>1. CASE Next
    BY <2>1, AddKeepsIInv DEF Next
  <2>2. CASE UNCHANGED vars
    BY <2>2 DEF vars, IInv, TypeOK, Gaps, InRange, Cumulative, SumBefore, IsLowerBound
  <2> QED
    BY <2>1, <2>2
<1>3. TimesFit => []TimesFit
  <2>1. TimesFit => TimesFit'
    BY DEF TimesFit
  <2> QED
    BY <2>1, PTL
<1> QED
  BY <1>1, <1>2, <1>3, PTL DEF Spec

-----------------------------------------------------------------------------
(* What any insertion leaves is a vector the tag can count, also of times  *)
(* that a signed short cannot hold: nothing but the type is known of it.   *)
LEMMA SizedShape ==
  ASSUME NEW s \in Seq(EntryType), Len(s) <= SizeRange
  PROVE  Sized(s) \in Seq(EntryType) /\ Len(Sized(s)) < SizeRange
  BY RangesAssumption DEF RangesAssumption, Sized

(* Each case of add inserts an entry somewhere or raises the sums from an  *)
(* entry on: a search that starts before the last entry ends at an entry.  *)
LEMMA AddForms ==
  ASSUME TypeOK, NEW t \in Times, NEW v \in Values, Add(t, v)
  PROVE  \/ \E i \in 1 .. Len(entries) + 1 : entries' = Sized(InsertEntry(entries, i, Key(t), v))
         \/ \E i \in 1 .. Len(entries) : entries' = AccumFrom(entries, i, v)
<1> DEFINE k == Key(t)
<1>1. k \in Nat
  BY RangesAssumption DEF RangesAssumption, Key
<1>2. entries \in Seq(EntryType) /\ Len(entries) \in Nat
  BY DEF TypeOK
<1>3. AddFirst(k, v) \/ AppendLater(k, v) \/ AccumLast(k, v) \/ OutOfOrder(k, v)
  BY DEF Add
<1> HIDE DEF k
<1> SUFFICES \/ \E i \in 1 .. Len(entries) + 1 : entries' = Sized(InsertEntry(entries, i, k, v))
             \/ \E i \in 1 .. Len(entries) : entries' = AccumFrom(entries, i, v)
  BY DEF k
<1>4. CASE AddFirst(k, v)
  BY <1>2, <1>4 DEF AddFirst
<1>5. CASE AppendLater(k, v)
  BY <1>2, <1>5 DEF AppendLater
<1>6. CASE AccumLast(k, v)
  <2>1. Len(entries) \in 1 .. Len(entries)
    BY <1>2, <1>6 DEF AccumLast
  <2> QED
    BY <1>6, <2>1 DEF AccumLast
<1>7. CASE OutOfOrder(k, v)
  <2> DEFINE i == LowerBound(entries, k)
  <2>1. /\ entries[Len(entries)].time > k /\ Len(entries) > 0
        /\ entries' = IF entries[i].time = k THEN AccumFrom(entries, i, v)
                      ELSE Sized(InsertEntry(entries, i, k, v))
    BY <1>2, <1>7 DEF OutOfOrder
  <2>2. i \in 1 .. Len(entries) + 1 /\ IsLowerBound(entries, k, i)
    BY <1>1, <1>2, LowerBoundIs
  <2> HIDE DEF i
  <2>3. entries[Len(entries)].time \in Nat
    <3>1. entries[Len(entries)] \in EntryType
      BY <1>2, <2>1
    <3> QED
      BY <3>1 DEF EntryType
  <2>4. i \in 1 .. Len(entries)
    BY <1>1, <1>2, <2>1, <2>2, <2>3 DEF IsLowerBound
  <2> QED
    BY <2>1, <2>2, <2>4
<1> QED
  BY <1>3, <1>4, <1>5, <1>6, <1>7

(* Every record leaves the entries of a series within the type, whatever   *)
(* case of add it meets and whatever the times before it.                  *)
LEMMA AddKeepsType ==
  ASSUME TypeOK, NEW t \in Times, NEW v \in Values, Add(t, v)
  PROVE  TypeOK'
<1>1. t \in Nat /\ Key(t) \in Nat /\ v \in Int
  BY RangesAssumption DEF RangesAssumption, Key
<1>2. /\ entries \in Seq(EntryType) /\ Len(entries) \in Nat /\ Len(entries) < SizeRange
      /\ before \in [Timestamps -> Int] /\ adds \in Nat /\ SizeRange \in Nat
  BY RangesAssumption DEF RangesAssumption, TypeOK
<1>3. adds' \in Nat /\ before' \in [Timestamps -> Int]
  <2>1. adds' = adds + 1 /\ before' = Recorded(before, t, v)
    BY DEF Add, Record, Recorded
  <2>2. \A b \in Timestamps : before[b] + (IF t < b THEN v ELSE 0) \in Int
    BY <1>1, <1>2
  <2> QED
    BY <1>2, <2>1, <2>2 DEF Recorded
<1>4. ASSUME NEW i \in 1 .. Len(entries) + 1,
             entries' = Sized(InsertEntry(entries, i, Key(t), v))
      PROVE  TypeOK'
  <2>1. PICK r : r = InsertEntry(entries, i, Key(t), v)
    OBVIOUS
  <2>2. r \in Seq(EntryType) /\ Len(r) = Len(entries) + 1
    BY <1>1, <1>2, <2>1, InsertShape
  <2>3. Len(r) <= SizeRange /\ entries' = Sized(r)
    BY <1>2, <1>4, <2>1, <2>2
  <2>4. entries' \in Seq(EntryType) /\ Len(entries') < SizeRange
    BY <2>2, <2>3, SizedShape
  <2> QED
    BY <1>3, <2>4 DEF TypeOK
<1>5. ASSUME NEW i \in 1 .. Len(entries), entries' = AccumFrom(entries, i, v)
      PROVE  TypeOK'
  <2>1. entries' \in Seq(EntryType) /\ Len(entries') = Len(entries)
    BY <1>1, <1>2, <1>5, AccumShape
  <2> QED
    BY <1>2, <1>3, <2>1 DEF TypeOK
<1> QED
  BY <1>4, <1>5, AddForms

(* Whatever the times, also those read as negative: a series is a vector   *)
(* of entries whose length fits the 16-bit tag, and no record   *)
(* leaves anything else.                                                   *)
THEOREM TypeCorrect == Spec => []TypeOK
<1>1. Init => TypeOK
  BY RangesAssumption DEF Init, TypeOK, RangesAssumption
<1>2. TypeOK /\ [Next]_vars => TypeOK'
  <2> SUFFICES ASSUME TypeOK, [Next]_vars PROVE TypeOK'
    OBVIOUS
  <2>1. CASE Next
    BY <2>1, AddKeepsType DEF Next
  <2>2. CASE UNCHANGED vars
    BY <2>2 DEF vars, TypeOK
  <2> QED
    BY <2>1, <2>2
<1> QED
  BY <1>1, <1>2, PTL DEF Spec

(* An insertion moves the entries behind it up by one and loses none.      *)
LEMMA InsertTimes ==
  ASSUME NEW s \in Seq(EntryType), NEW i \in 1 .. Len(s) + 1,
         NEW k \in Nat, NEW v \in Int
  PROVE  /\ InsertEntry(s, i, k, v) \in Seq(EntryType)
         /\ Len(InsertEntry(s, i, k, v)) = Len(s) + 1
         /\ \A n \in 1 .. Len(s) : \E j \in 1 .. Len(s) + 1 :
              InsertEntry(s, i, k, v)[j].time = s[n].time
<1> DEFINE r == InsertEntry(s, i, k, v)
<1>1. /\ r \in Seq(EntryType) /\ Len(r) = Len(s) + 1
      /\ r[i].time = k /\ r[i].sum = SumBefore(s, i) + v
      /\ \A j \in 1 .. i - 1 : r[j] = s[j]
      /\ \A j \in i + 1 .. Len(s) + 1 :
           r[j].time = s[j - 1].time /\ r[j].sum = s[j - 1].sum + v
  BY InsertShape, SMTT(30)
<1> HIDE DEF r
<1>2. ASSUME NEW n \in 1 .. Len(s)
      PROVE  \E j \in 1 .. Len(s) + 1 : r[j].time = s[n].time
  <2>1. CASE n < i
    <3>1. n \in 1 .. i - 1 /\ n \in 1 .. Len(s) + 1
      BY <2>1
    <3> QED
      BY <1>1, <3>1
  <2>2. CASE n >= i
    <3>1. n + 1 \in i + 1 .. Len(s) + 1 /\ n + 1 \in 1 .. Len(s) + 1 /\ (n + 1) - 1 = n
      BY <2>2
    <3>2. r[n + 1].time = s[n].time
      BY <1>1, <3>1
    <3> QED
      BY <3>1, <3>2
  <2> QED
    BY <2>1, <2>2
<1> QED
  BY <1>1, <1>2 DEF r

(* No record makes a series forget a time it has an entry for, after       *)
(* however many records: where add inserts an entry the others move up by  *)
(* one, and the tag never wraps, as there are too few times that fit.      *)
THEOREM NoTimeLost == TimesFit /\ Spec => EntriesKept
<1> DEFINE Kept == \A i \in DOMAIN entries :
                     \E j \in DOMAIN entries' : entries'[j].time = entries[i].time
<1>1. ASSUME TimesFit, IInv, NEW t \in Times, NEW v \in Values, Add(t, v)
      PROVE  Kept
  <2>1. Key(t) \in Nat /\ v \in Int
    BY RangesAssumption DEF RangesAssumption, Key
  <2>2. TypeOK /\ entries \in Seq(EntryType) /\ Len(entries) \in Nat
    BY <1>1 DEF IInv, TypeOK
  <2>3. IInv'
    BY <1>1, AddKeepsIInv
  <2>4. entries' \in Seq(EntryType) /\ Len(entries') \in Nat
    BY <2>3 DEF IInv, TypeOK
  <2>5. ASSUME NEW i \in 1 .. Len(entries) + 1,
               entries' = Sized(InsertEntry(entries, i, Key(t), v))
        PROVE  Kept
    <3>1. PICK r : r = InsertEntry(entries, i, Key(t), v)
      OBVIOUS
    <3>2. /\ r \in Seq(EntryType) /\ Len(r) = Len(entries) + 1
          /\ \A n \in 1 .. Len(entries) :
               \E j \in 1 .. Len(entries) + 1 : r[j].time = entries[n].time
      BY <2>1, <2>2, <3>1, InsertTimes
    <3>3. entries' = r
      <4>1. Gaps(entries) /\ InRange(entries)
        BY <1>1 DEF IInv
      <4>2. Len(entries) <= HalfRange
        BY <2>2, <4>1, FewEntries
      <4>3. Len(r) < SizeRange
        BY <2>2, <3>2, <4>2, RangesAssumption DEF RangesAssumption
      <4> QED
        BY <2>5, <3>1, <4>3 DEF Sized
    <3>4. DOMAIN entries = 1 .. Len(entries) /\ DOMAIN r = 1 .. Len(entries) + 1
      BY <2>2, <3>2
    <3> QED
      BY <3>2, <3>3, <3>4, Zenon
  <2>6. ASSUME NEW i \in 1 .. Len(entries), entries' = AccumFrom(entries, i, v)
        PROVE  Kept
    <3>1. /\ Len(entries') = Len(entries)
          /\ \A j \in 1 .. Len(entries) : entries'[j].time = entries[j].time
      BY <2>1, <2>2, <2>6, AccumShape
    <3> QED
      BY <2>2, <2>4, <3>1
  <2> QED
    BY <1>1, <2>2, <2>5, <2>6, AddForms
<1>2. TimesFit /\ IInv /\ [Next]_vars => [Kept]_vars
  BY <1>1 DEF Next
<1>3. TimesFit => []TimesFit
  <2>1. TimesFit => TimesFit'
    BY DEF TimesFit
  <2> QED
    BY <2>1, PTL
<1> QED
  BY <1>2, <1>3, Inductive, PTL DEF Spec, EntriesKept

(* The entries std::lower_bound bisects are sorted by distinct times, in   *)
(* whatever order of time the records arrive.                              *)
THEOREM AlwaysSorted == TimesFit /\ Spec => []Sorted
<1>1. IInv => Sorted
  <2> SUFFICES ASSUME IInv, NEW i \in 1 .. Len(entries), NEW j \in 1 .. Len(entries), i < j
               PROVE  entries[i].time < entries[j].time
    BY DEF Sorted
  <2>1. entries[j].time - entries[i].time >= j - i
    BY DEF IInv, Gaps
  <2>2. entries[i] \in EntryType /\ entries[j] \in EntryType
    BY DEF IInv, TypeOK
  <2> QED
    BY <2>1, <2>2 DEF EntryType
<1> QED
  BY <1>1, Inductive, PTL

(* getWindowTotal is exact for every window and every history of records.  *)
THEOREM WindowsExact == TimesFit /\ Spec => []WindowExact
<1>1. IInv => WindowExact
  <2> SUFFICES ASSUME IInv, NEW a \in Timestamps, NEW b \in Timestamps, a <= b
               PROVE  WindowTotal(a, b) = before[b] - before[a]
    BY DEF WindowExact
  <2> DEFINE ia == LowerBound(entries, a)
  <2> DEFINE ib == LowerBound(entries, b)
  <2>1. a \in Nat /\ b \in Nat /\ entries \in Seq(EntryType) /\ Len(entries) \in Nat
    BY RangesAssumption DEF RangesAssumption, Timestamps, IInv, TypeOK
  <2>2. /\ ia \in 1 .. Len(entries) + 1 /\ IsLowerBound(entries, a, ia)
        /\ ib \in 1 .. Len(entries) + 1 /\ IsLowerBound(entries, b, ib)
    BY <2>1, LowerBoundIs
  <2>3. before[a] = SumBefore(entries, ia) /\ before[b] = SumBefore(entries, ib)
    BY <2>2 DEF IInv, Cumulative
  <2>4. before[a] \in Int /\ before[b] \in Int
    BY DEF IInv, TypeOK
  <2>5. \A j \in 1 .. Len(entries) : entries[j].time \in Nat
    <3> TAKE j \in 1 .. Len(entries)
    <3>1. entries[j] \in EntryType
      BY <2>1
    <3> QED
      BY <3>1 DEF EntryType
  <2>6. WindowTotal(a, b) = IF ia = Len(entries) + 1 \/ ib = 1 THEN 0
                            ELSE SumBefore(entries, ib) - SumBefore(entries, ia)
    BY DEF WindowTotal
  <2> HIDE DEF ia, ib
  <2>7. ia <= ib
    <3> SUFFICES ASSUME ib < ia PROVE FALSE
      BY <2>2
    <3>1. ib \in 1 .. ia - 1 /\ ib \in 1 .. Len(entries)
      BY <2>1, <2>2
    <3>2. entries[ib].time < a /\ entries[ib].time >= b
      BY <2>2, <3>1 DEF IsLowerBound
    <3> QED
      BY <2>1, <2>5, <3>1, <3>2
  <2>8. CASE ia = Len(entries) + 1 \/ ib = 1
    <3>1. ia = ib
      BY <2>1, <2>2, <2>7, <2>8
    <3> QED
      BY <2>3, <2>4, <2>6, <2>8, <3>1
  <2>9. CASE ~(ia = Len(entries) + 1 \/ ib = 1)
    BY <2>3, <2>6, <2>9
  <2> QED
    BY <2>8, <2>9
<1> QED
  BY <1>1, Inductive, PTL
=============================================================================
