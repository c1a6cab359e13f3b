----------------------------- MODULE TimeSeries -----------------------------
(***************************************************************************)
(* A time series, the leaf of a nanocube: entries in increasing time, each *)
(* with the sum of all the values up to its time, so that the total of a   *)
(* window is one subtraction.  Records may arrive in any order of time.    *)
(*                                                                         *)
(* The widths matter.  A record carries its time bin in two bytes; an      *)
(* entry reads it back as a signed short, which the comparisons convert,   *)
(* through a double, to an unsigned 64-bit number.  The length of a        *)
(* small_vector is the 16-bit tag of its pointer.  Sums are doubles.       *)
(* A negative double converted to an unsigned number is what x86-64 makes  *)
(* of it (the conversion is undefined in C++).                             *)
(***************************************************************************)
EXTENDS Integers, Sequences

CONSTANTS
  HalfRange,   \* 2^15: the first time bin that a signed short cannot hold
  WordRange,   \* 2^64: the range of a Timestamp
  SizeRange,   \* 2^16: the range of the size tag of a small_vector
  Times,       \* the time bins of the records
  Values,      \* the values of the records
  MaxAdds      \* bound on the number of records

ASSUME RangesAssumption ==
  /\ HalfRange \in Nat /\ HalfRange > 1
  /\ WordRange \in Nat /\ WordRange >= 4 * HalfRange
  /\ SizeRange \in Nat /\ SizeRange >= 2 * HalfRange
  /\ Times \subseteq 0 .. 2 * HalfRange - 1
  /\ Values \subseteq Int
  /\ MaxAdds \in Nat

VARIABLES
  entries,   \* the small_vector of entries
  before,    \* history: before[b] is the sum of the values of times < b
  adds       \* history: the number of records added

vars == <<entries, before, adds>>

Timestamps == 0 .. 2 * HalfRange   \* the bounds of the windows queried

(* (uint64_t) entry.getTime() of an entry whose time bytes hold t.         *)
Key(t) == IF t < HalfRange THEN t ELSE WordRange - 2 * HalfRange + t

-----------------------------------------------------------------------------
(* Mutant: the fields are initialized in the wrong order.                  *)
Entry_Swapped(time, sum) == [time |-> sum, sum |-> time]

Entry(time, sum) == [time |-> time, sum |-> sum]

(* i is the position std::lower_bound returns for k: the first entry not   *)
(* before k, or one past the end.                                          *)
IsLowerBound(s, k, i) ==
  /\ i \in 1 .. Len(s) + 1
  /\ \A j \in 1 .. i - 1 : s[j].time < k
  /\ i <= Len(s) => s[i].time >= k

(* Mutant: upper_bound.                                                    *)
LowerBound_Upper(s, k) ==
  CHOOSE i \in 1 .. Len(s) + 1 :
    (\A j \in 1 .. i - 1 : s[j].time <= k) /\ (i <= Len(s) => s[i].time > k)

LowerBound(s, k) == CHOOSE i \in 1 .. Len(s) + 1 : IsLowerBound(s, k, i)

(* The cumulative sum just before position i.                              *)
SumBefore(s, i) == IF i = 1 THEN 0 ELSE s[i - 1].sum

(* The value v is added to every entry from position i on.                 *)
AccumFrom(s, i, v) ==
  [j \in 1 .. Len(s) |-> IF j < i THEN s[j] ELSE Entry(s[j].time, s[j].sum + v)]

(* Mutant: the entries after the new one are only shifted.                 *)
InsertEntry_ShiftOnly(s, i, k, v) ==
  [j \in 1 .. Len(s) + 1 |->
     IF j < i THEN s[j] ELSE IF j = i THEN Entry(k, SumBefore(s, i) + v) ELSE s[j - 1]]

(* An entry of time k and value v is inserted at position i, on top of the *)
(* sum before it, and v is added to every later entry.                     *)
InsertEntry(s, i, k, v) ==
  [j \in 1 .. Len(s) + 1 |->
     IF j < i THEN s[j]
     ELSE IF j = i THEN Entry(k, SumBefore(s, i) + v)
     ELSE Entry(s[j - 1].time, s[j - 1].sum + v)]

(* Mutant: one bit of the tag is taken for another use.                    *)
Sized_Narrow(s) == IF Len(s) = SizeRange \div 2 THEN <<>> ELSE s

(* small_vector: a length that does not fit the tag reads as zero.  (What  *)
(* add does after that, having inserted in the middle, is undefined: it    *)
(* runs out of the buffer.  Kept is only that the vector is empty.)        *)
Sized(s) == IF Len(s) = SizeRange THEN <<>> ELSE s

-----------------------------------------------------------------------------
(* What add does, for an entry that reads back time k, case by case.       *)

AddFirst(k, v) ==
  /\ entries = <<>>
  /\ entries' = Sized(InsertEntry(entries, 1, k, v))

AppendLater(k, v) ==
  /\ entries # <<>>
  /\ entries[Len(entries)].time < k
  /\ entries' = Sized(InsertEntry(entries, Len(entries) + 1, k, v))

AccumLast(k, v) ==
  /\ entries # <<>>
  /\ entries[Len(entries)].time = k
  /\ entries' = AccumFrom(entries, Len(entries), v)

OutOfOrder(k, v) ==
  /\ entries # <<>>
  /\ entries[Len(entries)].time > k
  /\ LET i == LowerBound(entries, k)
     IN  entries' = IF entries[i].time = k THEN AccumFrom(entries, i, v)
                    ELSE Sized(InsertEntry(entries, i, k, v))

(* The history: a record at t counts in every window that ends after t.    *)
Record(t, v) ==
  /\ adds < MaxAdds
  /\ adds' = adds + 1
  /\ before' = [b \in Timestamps |-> before[b] + (IF t < b THEN v ELSE 0)]

Init ==
  /\ entries = <<>>
  /\ before = [b \in Timestamps |-> 0]
  /\ adds = 0

Add(t, v) ==
  /\ Record(t, v)
  /\ \/ AddFirst(Key(t), v)
     \/ AppendLater(Key(t), v)
     \/ AccumLast(Key(t), v)
     \/ OutOfOrder(Key(t), v)

Next == \E t \in Times, v \in Values : Add(t, v)

Spec == Init /\ [][Next]_vars

-----------------------------------------------------------------------------
(* getWindowTotal: the sum of the values of the times in [a, b).           *)
WindowTotal(a, b) ==
  LET ia == LowerBound(entries, a)
      ib == LowerBound(entries, b)
  IN  IF ia = Len(entries) + 1 \/ ib = 1 THEN 0
      ELSE SumBefore(entries, ib) - SumBefore(entries, ia)

-----------------------------------------------------------------------------
(* Properties.                                                             *)

EntryType == [time : Nat, sum : Int]

(* The entries are pairs of a time and a sum, no more of them than the tag *)
(* can count, and the history is numbers.                                  *)
TypeOK ==
  /\ entries \in Seq(EntryType)
  /\ Len(entries) < SizeRange
  /\ before \in [Timestamps -> Int]
  /\ adds \in Nat

(* However the records are ordered in time, the entries are sorted and no  *)
(* two have the same time: getWindowTotal searches them by bisection.      *)
Sorted ==
  \A i, j \in 1 .. Len(entries) : i < j => entries[i].time < entries[j].time

(* A window query returns exactly the sum of the values added with a time  *)
(* in the window: out-of-order insertions updated every later sum.         *)
WindowExact ==
  \A a, b \in Timestamps :
    a <= b => WindowTotal(a, b) = before[b] - before[a]

(* No record makes a series forget: every time that has an entry keeps it. *)
(* The tag of the size has 16 bits and nothing asserts that it does not    *)
(* overflow, so this holds as long as there are fewer times than the tag   *)
(* can count, whatever order they come in.                                 *)
EntriesKept ==
  [][\A i \in DOMAIN entries :
       \E j \in DOMAIN entries' : entries'[j].time = entries[i].time]_vars

-----------------------------------------------------------------------------
(* The inductive invariant, for records whose time a signed short holds.   *)

TimesFit == \A t \in Times : t < HalfRange

(* Distinct integer times: so many entries span at least as many times.    *)
Gaps(s) == \A i, j \in 1 .. Len(s) : i < j => s[j].time - s[i].time >= j - i

InRange(s) == \A i \in 1 .. Len(s) : s[i].time < HalfRange

(* The sum of the values of the times before b is the one stored just      *)
(* before the position where a search for b ends.                          *)
Cumulative(s, sums) ==
  \A b \in Timestamps : \A i \in 1 .. Len(s) + 1 :
    IsLowerBound(s, b, i) => sums[b] = SumBefore(s, i)

(* The entries are cumulative sums of the history at distinct times that   *)
(* fit, so there are never too many of them for the size tag.              *)
IInv ==
  /\ TypeOK
  /\ Gaps(entries)
  /\ InRange(entries)
  /\ Cumulative(entries, before)
=============================================================================
