--------------------------- MODULE MaskCacheProofs ---------------------------
(***************************************************************************)
(* For every set of keys, every budget and every number of masks: lookups  *)
(* find the right mask, none is computed twice, and until the budget is    *)
(* enforced the list holds the items in the order of their last use.       *)
(***************************************************************************)
EXTENDS MaskCache, TLAPS, WellFoundedInduction, SequenceTheorems

-----------------------------------------------------------------------------
(* The inductive invariant.                                                *)

ItemType == [key : Keys, next : Nat, prev : Nat]

(* The pointers that a walk of the list follows are those of a cache c     *)
(* that holds the items of s in this order.  Nothing is said of the others. *)
Linked(c, s) ==
  /\ c.list.size = Len(s)
  /\ Range(s) \subseteq DOMAIN c.items
  /\ IsInjective(s)
  /\ s = <<>> => c.list.first = Null
  /\ s # <<>> => c.list.first = s[1] /\ c.list.last = s[Len(s)]
  /\ \A n \in 1 .. Len(s) - 1 :
       c.items[s[n]].next = s[n + 1] /\ c.items[s[n + 1]].prev = s[n]

(* An item alone in the list has no successor left over from earlier: when *)
(* it is removed, its next becomes the first of the list.                  *)
LastHasNoNext(c, s) == Len(s) = 1 => c.items[s[1]].next = Null

Ordered ==
  /\ Linked(Cache, recent) /\ LastHasNoNext(Cache, recent)
  /\ Range(recent) = DOMAIN items

(* What enforcing the budget leaves: nothing, and a first item deleted.    *)
Dangling ==
  /\ DOMAIN items = {} /\ DOMAIN map = {} /\ recent = <<>>
  /\ list.size = 0 /\ list.first \in 1 .. created

ItemsMapped == \A i \in DOMAIN items : items[i].key \in DOMAIN map

Shapes ==
  /\ items \in [DOMAIN items -> ItemType] /\ DOMAIN items \subseteq 1 .. created
  /\ created \in Nat

IInv ==
  /\ TypeOK /\ Shapes
  /\ FindsOwnMask /\ ComputedOnce /\ ItemsMapped
  /\ ~fault => Ordered \/ Dangling
  /\ ~trimmed => ~fault /\ Ordered /\ targets \subseteq DOMAIN items

-----------------------------------------------------------------------------
(* Sequences.                                                              *)

LEMMA PushedIs ==
  ASSUME NEW s \in Seq(Nat), NEW i \in Nat, i \notin Range(s), IsInjective(s)
  PROVE  /\ <<i>> \o s \in Seq(Nat) /\ Len(<<i>> \o s) = Len(s) + 1
         /\ (<<i>> \o s)[1] = i
         /\ \A n \in 2 .. Len(s) + 1 : (<<i>> \o s)[n] = s[n - 1]
         /\ Range(<<i>> \o s) = {i} \cup Range(s)
         /\ IsInjective(<<i>> \o s)
<1> DEFINE t == <<i>> \o s
<1>1. t \in Seq(Nat) /\ Len(t) = Len(s) + 1 /\ t[1] = i
      /\ \A n \in 2 .. Len(s) + 1 : t[n] = s[n - 1]
  OBVIOUS
<1>2. DOMAIN s = 1 .. Len(s) /\ DOMAIN t = 1 .. Len(s) + 1 /\ Len(s) \in Nat
  BY <1>1
<1> HIDE DEF t
<1>3. Range(t) = {i} \cup Range(s)
  <2>1. ASSUME NEW x \in Range(s) PROVE x \in Range(t)
    <3>1. PICK n \in 1 .. Len(s) : x = s[n]
      BY <1>2 DEF Range
    <3>2. n + 1 \in 2 .. Len(s) + 1 /\ n + 1 - 1 = n
      BY <1>2
    <3>3. t[n + 1] = x
      BY <3>1, <3>2, <1>1
    <3> QED BY <3>2, <3>3, <1>2 DEF Range
  <2>2. ASSUME NEW n \in DOMAIN t PROVE t[n] \in {i} \cup Range(s)
    <3>1. CASE n = 1
      BY <3>1, <1>1
    <3>2. CASE n # 1
      <4>1. n \in 2 .. Len(s) + 1 /\ n - 1 \in 1 .. Len(s)
        BY <3>2, <1>2
      <4> QED BY <4>1, <1>1, <1>2 DEF Range
    <3> QED BY <3>1, <3>2
  <2>3. i \in Range(t)
    BY <1>1, <1>2 DEF Range
  <2> QED BY <2>1, <2>2, <2>3 DEF Range
<1>4. IsInjective(t)
  <2> SUFFICES ASSUME NEW a \in 1 .. Len(s) + 1, NEW b \in 1 .. Len(s) + 1, t[a] = t[b]
               PROVE  a = b
    BY <1>2 DEF IsInjective
  <2>1. ASSUME NEW n \in 2 .. Len(s) + 1
        PROVE  t[n] # i /\ n - 1 \in 1 .. Len(s) /\ t[n] = s[n - 1]
    <3>1. n - 1 \in 1 .. Len(s)
      BY <1>2
    <3> QED BY <3>1, <1>1, <1>2 DEF Range
  <2>2. a \in 2 .. Len(s) + 1 /\ b \in 2 .. Len(s) + 1 => a = b
    <3> SUFFICES ASSUME a \in 2 .. Len(s) + 1, b \in 2 .. Len(s) + 1 PROVE a = b
      OBVIOUS
    <3>1. a - 1 = b - 1
      BY <2>1, <1>2 DEF IsInjective
    <3> QED BY <3>1, <1>2
  <2> QED BY <2>1, <2>2, <1>1, <1>2
<1> QED
  BY <1>1, <1>3, <1>4 DEF t

LEMMA RemovedIs ==
  ASSUME NEW s \in Seq(Nat), NEW p \in 1 .. Len(s), IsInjective(s)
  PROVE  /\ RemoveAt(s, p) \in Seq(Nat) /\ Len(RemoveAt(s, p)) = Len(s) - 1
         /\ \A n \in 1 .. Len(s) - 1 :
              RemoveAt(s, p)[n] = IF n < p THEN s[n] ELSE s[n + 1]
         /\ Range(RemoveAt(s, p)) = Range(s) \ {s[p]}
         /\ IsInjective(RemoveAt(s, p))
<1> DEFINE t == RemoveAt(s, p)
<1>1. t \in Seq(Nat) /\ Len(t) = Len(s) - 1
      /\ \A n \in 1 .. Len(s) - 1 : t[n] = IF n < p THEN s[n] ELSE s[n + 1]
  <2> DEFINE a == SubSeq(s, 1, p - 1)
             b == SubSeq(s, p + 1, Len(s))
  <2>1. Len(s) \in Nat
    OBVIOUS
  <2>2. a \in Seq(Nat) /\ Len(a) = p - 1 /\ \A n \in 1 .. p - 1 : a[n] = s[n]
    BY <2>1
  <2>3. b \in Seq(Nat) /\ Len(b) = Len(s) - p /\ \A n \in 1 .. Len(s) - p : b[n] = s[n + p]
    <3>1. p + 1 \in Int /\ Len(s) \in Int /\ \A n \in p + 1 .. Len(s) : s[n] \in Nat
      BY <2>1
    <3>2. /\ b \in Seq(Nat)
          /\ Len(b) = IF p + 1 <= Len(s) THEN Len(s) - (p + 1) + 1 ELSE 0
          /\ \A n \in 1 .. Len(s) - (p + 1) + 1 : b[n] = s[p + 1 + n - 1]
      BY <3>1, SubSeqProperties, SMTT(30)
    <3>3. Len(s) - (p + 1) + 1 = Len(s) - p /\ \A n \in 1 .. Len(s) - p : p + 1 + n - 1 = n + p
      BY <2>1
    <3> HIDE DEF b
    <3>4. Len(b) = Len(s) - p
      BY <2>1, <3>2
    <3>5. ASSUME NEW n \in 1 .. Len(s) - p
          PROVE  b[n] = s[n + p]
      <4>1. n \in 1 .. Len(s) - (p + 1) + 1 /\ p + 1 + n - 1 = n + p
        BY <3>3
      <4>2. b[n] = s[p + 1 + n - 1]
        BY <3>2, <4>1
      <4> QED BY <4>1, <4>2
    <3> QED BY <3>2, <3>4, <3>5
  <2> HIDE DEF a, b
  <2>4. a \o b \in Seq(Nat) /\ Len(a \o b) = Len(a) + Len(b)
        /\ \A n \in 1 .. Len(a) + Len(b) :
             (a \o b)[n] = IF n <= Len(a) THEN a[n] ELSE b[n - Len(a)]
    BY <2>2, <2>3, ConcatProperties
  <2>5. ASSUME NEW n \in 1 .. Len(s) - 1
        PROVE  (a \o b)[n] = IF n < p THEN s[n] ELSE s[n + 1]
    <3>0. n \in 1 .. Len(a) + Len(b)
      BY <2>1, <2>2, <2>3
    <3>1. CASE n < p
      <4>1. n <= Len(a) /\ n \in 1 .. p - 1
        BY <3>1, <2>1, <2>2
      <4> QED BY <3>0, <3>1, <4>1, <2>2, <2>4
    <3>2. CASE ~(n < p)
      <4>1. ~(n <= Len(a)) /\ n - Len(a) \in 1 .. Len(s) - p /\ n - Len(a) + p = n + 1
        BY <3>2, <2>1, <2>2
      <4> QED BY <3>0, <3>2, <4>1, <2>3, <2>4
    <3> QED BY <3>1, <3>2
  <2>6. t = a \o b
    BY DEF RemoveAt, a, b
  <2>7. Len(a) + Len(b) = Len(s) - 1
    BY <2>1, <2>2, <2>3
  <2>8. a \o b \in Seq(Nat) /\ Len(a \o b) = Len(s) - 1
    BY <2>4, <2>7
  <2> QED BY <2>5, <2>6, <2>8
<1>2. DOMAIN s = 1 .. Len(s) /\ DOMAIN t = 1 .. Len(s) - 1 /\ Len(s) \in Nat
  BY <1>1
<1> HIDE DEF t
<1>3. ASSUME NEW n \in 1 .. Len(s) - 1
      PROVE  \E m \in 1 .. Len(s) : m # p /\ t[n] = s[m] /\ m = IF n < p THEN n ELSE n + 1
  <2>1. CASE n < p
    BY <2>1, <1>1, <1>2
  <2>2. CASE ~(n < p)
    <3>1. n + 1 \in 1 .. Len(s) /\ n + 1 # p
      BY <2>2, <1>2
    <3> QED BY <2>2, <3>1, <1>1
  <2> QED BY <2>1, <2>2
<1>4. ASSUME NEW m \in 1 .. Len(s), m # p
      PROVE  \E n \in 1 .. Len(s) - 1 : t[n] = s[m]
  <2>1. CASE m < p
    <3>1. m \in 1 .. Len(s) - 1
      BY <2>1, <1>2
    <3> QED BY <2>1, <3>1, <1>1
  <2>2. CASE m > p
    <3>1. m - 1 \in 1 .. Len(s) - 1 /\ ~(m - 1 < p) /\ m - 1 + 1 = m
      BY <2>2, <1>2
    <3> QED BY <3>1, <1>1
  <2>3. m < p \/ m > p
    BY <1>2, <1>4
  <2> QED BY <2>1, <2>2, <2>3
<1>5. Range(t) = Range(s) \ {s[p]}
  <2>1. ASSUME NEW n \in DOMAIN t PROVE t[n] \in Range(s) \ {s[p]}
    <3>1. PICK m \in 1 .. Len(s) : m # p /\ t[n] = s[m]
      BY <1>2, <1>3
    <3> QED BY <3>1, <1>2 DEF Range, IsInjective
  <2>2. ASSUME NEW m \in DOMAIN s, s[m] # s[p] PROVE s[m] \in Range(t)
    <3>1. PICK n \in 1 .. Len(s) - 1 : t[n] = s[m]
      BY <1>2, <1>4, <2>2
    <3> QED BY <3>1, <1>2 DEF Range
  <2> QED BY <2>1, <2>2 DEF Range
<1>6. IsInjective(t)
  <2> SUFFICES ASSUME NEW a \in 1 .. Len(s) - 1, NEW b \in 1 .. Len(s) - 1, t[a] = t[b]
               PROVE  a = b
    BY <1>2 DEF IsInjective
  <2>1. PICK m \in 1 .. Len(s) : t[a] = s[m] /\ m = IF a < p THEN a ELSE a + 1
    BY <1>3
  <2>2. PICK n \in 1 .. Len(s) : t[b] = s[n] /\ n = IF b < p THEN b ELSE b + 1
    BY <1>3
  <2>3. m = n
    BY <2>1, <2>2, <1>2 DEF IsInjective
  <2> QED BY <2>1, <2>2, <2>3
<1> QED
  BY <1>1, <1>5, <1>6 DEF t

-----------------------------------------------------------------------------
(* The list.                                                               *)

Whole(c) == DOMAIN c = {"items", "list", "map", "fault"}

CacheShape(c) ==
  /\ Whole(c)
  /\ c.items \in [DOMAIN c.items -> ItemType] /\ DOMAIN c.items \subseteq Nat \ {Null}
  /\ c.list \in [first : Nat, last : Nat, size : Nat]

SameMasks(c, d) ==
  /\ DOMAIN d.items = DOMAIN c.items /\ d.map = c.map /\ d.fault = c.fault
  /\ \A i \in DOMAIN c.items : d.items[i].key = c.items[i].key

LEMMA NextSet ==
  ASSUME NEW D, NEW f \in [D -> ItemType], NEW i \in D, NEW v \in Nat
  PROVE  LET g == [f EXCEPT ![i].next = v]
         IN  /\ g \in [D -> ItemType]
             /\ \A x \in D : /\ g[x].key = f[x].key /\ g[x].prev = f[x].prev
                             /\ g[x].next = IF x = i THEN v ELSE f[x].next
BY DEF ItemType

LEMMA PrevSet ==
  ASSUME NEW D, NEW f \in [D -> ItemType], NEW i \in D, NEW v \in Nat
  PROVE  LET g == [f EXCEPT ![i].prev = v]
         IN  /\ g \in [D -> ItemType]
             /\ \A x \in D : /\ g[x].key = f[x].key /\ g[x].next = f[x].next
                             /\ g[x].prev = IF x = i THEN v ELSE f[x].prev
BY DEF ItemType

LEMMA PushFrontDoes ==
  ASSUME NEW c, CacheShape(c), NEW i \in DOMAIN c.items, NEW first, first = c.list.first,
         first = Null \/ (first \in DOMAIN c.items /\ first # i)
  PROVE  LET d == PushFront(c, i)
         IN  /\ CacheShape(d) /\ SameMasks(c, d)
             /\ d.list = [first |-> i, last |-> IF first = Null THEN i ELSE c.list.last,
                          size |-> c.list.size + 1]
             /\ \A x \in DOMAIN c.items :
                  /\ d.items[x].next = IF x = i THEN first ELSE c.items[x].next
                  /\ d.items[x].prev = IF x = i THEN Null ELSE IF x = first THEN i ELSE c.items[x].prev
<1> DEFINE d == PushFront(c, i)
           D == DOMAIN c.items
<1>1. Whole(c) /\ c.items \in [D -> ItemType] /\ D \subseteq Nat \ {Null} /\ i \in Nat
      /\ Null \in Nat /\ Null \notin D /\ first \in Nat /\ c.list.last \in Nat /\ c.list.size \in Nat
  BY DEF CacheShape, Null
<1>2. Whole(d)
  BY <1>1 DEF PushFront, Whole
<1>3. CASE first = Null
  <2> DEFINE f1 == [c.items EXCEPT ![i].next = Null]
             f2 == [f1 EXCEPT ![i].prev = Null]
  <2>1. d.map = c.map /\ d.fault = c.fault
        /\ d.list = [first |-> i, last |-> i, size |-> c.list.size + 1]
    BY <1>1, <1>3 DEF PushFront, Whole
  <2>2. d.items = f2
    BY <1>1, <1>3 DEF PushFront, Whole
  <2>3. /\ f1 \in [D -> ItemType]
        /\ \A x \in D : /\ f1[x].key = c.items[x].key /\ f1[x].prev = c.items[x].prev
                        /\ f1[x].next = IF x = i THEN Null ELSE c.items[x].next
    BY <1>1, NextSet
  <2> HIDE DEF f1
  <2>4. /\ f2 \in [D -> ItemType]
        /\ \A x \in D : /\ f2[x].key = f1[x].key /\ f2[x].next = f1[x].next
                        /\ f2[x].prev = IF x = i THEN Null ELSE f1[x].prev
    BY <1>1, <2>3, PrevSet
  <2> HIDE DEF d, f2
  <2>5. CacheShape(d) /\ SameMasks(c, d)
    BY <1>1, <1>2, <2>1, <2>2, <2>3, <2>4 DEF CacheShape, SameMasks
  <2> QED BY <1>1, <1>3, <2>1, <2>2, <2>3, <2>4, <2>5 DEF d
<1>4. CASE first # Null
  <2> DEFINE f1 == [c.items EXCEPT ![i].next = first]
             f2 == [f1 EXCEPT ![i].prev = Null]
             f3 == [f2 EXCEPT ![first].prev = i]
  <2>1. d.map = c.map /\ d.fault = c.fault
        /\ d.list = [first |-> i, last |-> c.list.last, size |-> c.list.size + 1]
    BY <1>1, <1>4 DEF PushFront, Whole
  <2>2. d.items = f3
    BY <1>1, <1>4 DEF PushFront, Whole
  <2>3. /\ f1 \in [D -> ItemType]
        /\ \A x \in D : /\ f1[x].key = c.items[x].key /\ f1[x].prev = c.items[x].prev
                        /\ f1[x].next = IF x = i THEN first ELSE c.items[x].next
    BY <1>1, NextSet
  <2> HIDE DEF f1
  <2>4. /\ f2 \in [D -> ItemType]
        /\ \A x \in D : /\ f2[x].key = f1[x].key /\ f2[x].next = f1[x].next
                        /\ f2[x].prev = IF x = i THEN Null ELSE f1[x].prev
    BY <1>1, <2>3, PrevSet
  <2> HIDE DEF f2
  <2>5. /\ f3 \in [D -> ItemType]
        /\ \A x \in D : /\ f3[x].key = f2[x].key /\ f3[x].next = f2[x].next
                        /\ f3[x].prev = IF x = first THEN i ELSE f2[x].prev
    BY <1>1, <1>4, <2>4, PrevSet
  <2> HIDE DEF d, f3
  <2>6. CacheShape(d) /\ SameMasks(c, d)
    BY <1>1, <1>2, <2>1, <2>2, <2>3, <2>4, <2>5 DEF CacheShape, SameMasks
  <2> QED BY <1>1, <1>4, <2>1, <2>2, <2>3, <2>4, <2>5, <2>6 DEF d
<1> QED
  BY <1>3, <1>4

LEMMA UnlinkDoes ==
  ASSUME NEW c, CacheShape(c), NEW i \in DOMAIN c.items, c.list.size > 0
  PROVE  LET d == Unlink(c, i)
             first == c.list.first
             last == c.list.last
             a == c.items[i].prev
             b == c.items[i].next
         IN  /\ d.list = [first |-> IF first = i THEN b ELSE first,
                          last |-> IF first # i /\ last = i THEN a ELSE last,
                          size |-> c.list.size - 1]
             /\ first = i \/ last = i =>
                  /\ CacheShape(d) /\ SameMasks(c, d)
                  /\ \A x \in DOMAIN c.items \ {i} : d.items[x] = c.items[x]
             /\ first # i /\ last # i /\ a \in DOMAIN c.items \ {i} /\ b \in DOMAIN c.items \ {i} =>
                  /\ CacheShape(d) /\ SameMasks(c, d)
                  /\ \A x \in DOMAIN c.items \ {i} :
                       /\ d.items[x].next = IF x = a THEN b ELSE c.items[x].next
                       /\ d.items[x].prev = IF x = b THEN a ELSE c.items[x].prev
<1> DEFINE d == Unlink(c, i)
           D == DOMAIN c.items
           first == c.list.first
           last == c.list.last
           a == c.items[i].prev
           b == c.items[i].next
<1>1. Whole(c) /\ c.items \in [D -> ItemType] /\ D \subseteq Nat \ {Null} /\ i \in Nat
      /\ Null \in Nat /\ first \in Nat /\ last \in Nat /\ c.list.size - 1 \in Nat
  BY DEF CacheShape, Null
<1>2. Whole(d) /\ d.map = c.map /\ d.fault = c.fault
      /\ d.list = [first |-> IF first = i THEN b ELSE first,
                   last |-> IF first # i /\ last = i THEN a ELSE last, size |-> c.list.size - 1]
  BY <1>1 DEF Unlink, Whole
<1>3. a \in Nat /\ b \in Nat
  BY <1>1 DEF ItemType
<1>4. d.list \in [first : Nat, last : Nat, size : Nat]
  BY <1>1, <1>2, <1>3
<1>5. CASE first = i
  <2>1. d.items = [c.items EXCEPT ![i].next = Null]
    BY <1>1, <1>5 DEF Unlink, Whole
  <2>2. /\ d.items \in [D -> ItemType]
        /\ \A x \in D : d.items[x].key = c.items[x].key
    BY <1>1, <2>1, NextSet
  <2>3. \A x \in D \ {i} : d.items[x] = c.items[x]
    BY <1>1, <2>1
  <2> HIDE DEF d
  <2>4. CacheShape(d) /\ SameMasks(c, d)
    BY <1>1, <1>2, <1>4, <2>2 DEF CacheShape, SameMasks
  <2> QED BY <1>2, <1>5, <2>3, <2>4 DEF d
<1>6. CASE first # i /\ last = i
  <2>1. d.items = [c.items EXCEPT ![i].prev = Null]
    BY <1>1, <1>6 DEF Unlink, Whole
  <2>2. /\ d.items \in [D -> ItemType]
        /\ \A x \in D : d.items[x].key = c.items[x].key
    BY <1>1, <2>1, PrevSet
  <2>3. \A x \in D \ {i} : d.items[x] = c.items[x]
    BY <1>1, <2>1
  <2> HIDE DEF d
  <2>4. CacheShape(d) /\ SameMasks(c, d)
    BY <1>1, <1>2, <1>4, <2>2 DEF CacheShape, SameMasks
  <2> QED BY <1>2, <1>6, <2>3, <2>4 DEF d
<1>7. CASE first # i /\ last # i /\ a \in D \ {i} /\ b \in D \ {i}
  <2> DEFINE f1 == [c.items EXCEPT ![a].next = b]
             f2 == [f1 EXCEPT ![b].prev = a]
             f3 == [f2 EXCEPT ![i].prev = Null]
             f4 == [f3 EXCEPT ![i].next = Null]
  <2>1. d.items = f4
    BY <1>1, <1>7 DEF Unlink, Whole
  <2>2. /\ f1 \in [D -> ItemType]
        /\ \A x \in D : /\ f1[x].key = c.items[x].key /\ f1[x].prev = c.items[x].prev
                        /\ f1[x].next = IF x = a THEN b ELSE c.items[x].next
    BY <1>1, <1>3, <1>7, NextSet
  <2> HIDE DEF f1
  <2>3. /\ f2 \in [D -> ItemType]
        /\ \A x \in D : /\ f2[x].key = f1[x].key /\ f2[x].next = f1[x].next
                        /\ f2[x].prev = IF x = b THEN a ELSE f1[x].prev
    BY <1>3, <1>7, <2>2, PrevSet
  <2> HIDE DEF f2
  <2>4. /\ f3 \in [D -> ItemType]
        /\ \A x \in D : /\ f3[x].key = f2[x].key /\ f3[x].next = f2[x].next
                        /\ f3[x].prev = IF x = i THEN Null ELSE f2[x].prev
    BY <1>1, <2>3, PrevSet
  <2> HIDE DEF f3
  <2>5. /\ f4 \in [D -> ItemType]
        /\ \A x \in D : /\ f4[x].key = f3[x].key /\ f4[x].prev = f3[x].prev
                        /\ f4[x].next = IF x = i THEN Null ELSE f3[x].next
    BY <1>1, <2>4, NextSet
  <2> HIDE DEF f4, d
  <2>6. CacheShape(d) /\ SameMasks(c, d)
    BY <1>1, <1>2, <1>4, <2>1, <2>2, <2>3, <2>4, <2>5 DEF CacheShape, SameMasks
  <2>7. \A x \in D \ {i} :
          /\ d.items[x].next = IF x = a THEN b ELSE c.items[x].next
          /\ d.items[x].prev = IF x = b THEN a ELSE c.items[x].prev
    BY <2>1, <2>2, <2>3, <2>4, <2>5
  <2> QED BY <1>2, <1>7, <2>6, <2>7 DEF d
<1>8. CASE first # i /\ last # i /\ ~(a \in D \ {i} /\ b \in D \ {i})
  BY <1>2, <1>8
<1> QED
  BY <1>5, <1>6, <1>7, <1>8

(* push_front puts the item before those of the list.                      *)
LEMMA PushFrontIs ==
  ASSUME NEW c, CacheShape(c), NEW s \in Seq(Nat), Linked(c, s),
         NEW i \in DOMAIN c.items, i \notin Range(s)
  PROVE  LET d == PushFront(c, i)
         IN  /\ CacheShape(d) /\ SameMasks(c, d)
             /\ Linked(d, <<i>> \o s) /\ LastHasNoNext(d, <<i>> \o s)
<1> DEFINE d == PushFront(c, i)
           t == <<i>> \o s
           first == c.list.first
<1>1. i \in Nat \ {Null} /\ Len(s) \in Nat /\ IsInjective(s) /\ DOMAIN s = 1 .. Len(s)
  BY DEF CacheShape, Linked
<1>2. t \in Seq(Nat) /\ Len(t) = Len(s) + 1 /\ t[1] = i
      /\ (\A n \in 2 .. Len(s) + 1 : t[n] = s[n - 1])
      /\ Range(t) = {i} \cup Range(s) /\ IsInjective(t)
  BY <1>1, PushedIs
<1>3. t # <<>>
  BY <1>1, <1>2
<1> HIDE DEF t
<1> SUFFICES CacheShape(d) /\ SameMasks(c, d) /\ Linked(d, t) /\ LastHasNoNext(d, t)
  BY DEF t
<1>5. CASE s = <<>>
  <2>1. Len(s) = 0 /\ first = Null
    BY <1>5 DEF Linked
  <2>2. d.list = [first |-> i, last |-> i, size |-> 1] /\ d.items[i].next = Null
        /\ CacheShape(d) /\ SameMasks(c, d)
    BY <2>1, PushFrontDoes DEF Linked
  <2> HIDE DEF d
  <2>3. Range(t) \subseteq DOMAIN d.items
    BY <2>2, <1>2 DEF Linked, SameMasks
  <2>4. Linked(d, t)
    BY <2>1, <2>2, <2>3, <1>1, <1>2, <1>3 DEF Linked
  <2>5. LastHasNoNext(d, t)
    BY <2>2, <1>2 DEF LastHasNoNext
  <2> QED BY <2>2, <2>4, <2>5
<1>6. CASE s # <<>>
  <2>1. Len(s) \in Nat \ {0} /\ first = s[1] /\ first \in Range(s) /\ first \in DOMAIN c.items
        /\ first # Null /\ first # i /\ first \in Nat
    BY <1>6, <1>1 DEF Linked, Range, CacheShape
  <2>2. /\ d.list = [first |-> i, last |-> c.list.last, size |-> c.list.size + 1]
        /\ CacheShape(d) /\ SameMasks(c, d)
        /\ \A x \in DOMAIN c.items :
             /\ d.items[x].next = IF x = i THEN first ELSE c.items[x].next
             /\ d.items[x].prev = IF x = i THEN Null ELSE IF x = first THEN i ELSE c.items[x].prev
    BY <2>1, PushFrontDoes
  <2> HIDE DEF d
  <2>5. ASSUME NEW n \in 1 .. Len(t) - 1
        PROVE  d.items[t[n]].next = t[n + 1] /\ d.items[t[n + 1]].prev = t[n]
    <3>1. CASE n = 1
      <4>1. t[n] = i /\ t[n + 1] = first
        BY <3>1, <2>1, <1>1, <1>2
      <4> QED BY <4>1, <2>1, <2>2
    <3>2. CASE n # 1
      <4>1. n - 1 \in 1 .. Len(s) - 1 /\ n \in 2 .. Len(s) + 1 /\ n + 1 \in 2 .. Len(s) + 1
            /\ n + 1 - 1 = n /\ n - 1 + 1 = n /\ n \in 1 .. Len(s) /\ n - 1 \in 1 .. Len(s)
        <5>1. Len(s) \in Nat /\ Len(t) = Len(s) + 1
          BY <1>1, <1>2
        <5>2. n \in Nat /\ n > 1 /\ n <= Len(s)
          BY <5>1, <3>2
        <5> HIDE DEF t
        <5> QED BY <5>1, <5>2
      <4>2. t[n] = s[n - 1] /\ t[n + 1] = s[n]
        BY <4>1, <1>2, SMTT(30)
      <4>3. s[n] \in Range(s) /\ s[n - 1] \in Range(s) /\ s[n] # first
        <5>1. n # 1 /\ n \in DOMAIN s /\ n - 1 \in DOMAIN s /\ 1 \in DOMAIN s
          BY <4>1, <2>1, <1>1, <3>2
        <5>2. s[n] # s[1]
          BY <5>1, <1>1 DEF IsInjective
        <5> QED BY <5>1, <5>2, <2>1 DEF Range
      <4>4. s[n] \in DOMAIN c.items /\ s[n - 1] \in DOMAIN c.items /\ s[n] # i /\ s[n - 1] # i
        BY <4>3 DEF Linked
      <4>5. c.items[s[n - 1]].next = s[n] /\ c.items[s[n]].prev = s[n - 1]
        BY <4>1 DEF Linked
      <4>6. d.items[s[n]].prev = c.items[s[n]].prev /\ d.items[s[n - 1]].next = c.items[s[n - 1]].next
        BY <4>3, <4>4, <2>2
      <4> QED BY <4>2, <4>5, <4>6
    <3> QED BY <3>1, <3>2
  <2>6. t[Len(t)] = s[Len(s)]
    <3>1. Len(t) \in 2 .. Len(s) + 1 /\ Len(t) - 1 = Len(s)
      BY <2>1, <1>2
    <3> QED BY <3>1, <1>2
  <2>7. d.list.size = Len(t) /\ d.list.first = t[1] /\ d.list.last = t[Len(t)]
    BY <2>2, <2>6, <1>2, <1>6 DEF Linked
  <2>8. Range(t) \subseteq DOMAIN d.items
    BY <1>2, <2>2 DEF Linked, SameMasks
  <2>9. Linked(d, t)
    BY <2>5, <2>7, <2>8, <1>2, <1>3 DEF Linked
  <2>10. LastHasNoNext(d, t)
    BY <2>1, <1>2 DEF LastHasNoNext
  <2> QED BY <2>2, <2>9, <2>10
<1> QED
  BY <1>5, <1>6

(* remove leaves the others linked, whatever it leaves in other pointers.  *)
LEMMA UnlinkIs ==
  ASSUME NEW c, CacheShape(c), NEW s \in Seq(Nat), Linked(c, s), LastHasNoNext(c, s),
         NEW p \in 1 .. Len(s)
  PROVE  LET d == Unlink(c, s[p])
         IN  CacheShape(d) /\ SameMasks(c, d) /\ Linked(d, RemoveAt(s, p))
<1> DEFINE i == s[p]
           d == Unlink(c, i)
           t == RemoveAt(s, p)
           L == Len(s)
<1>1. L \in Nat \ {0} /\ IsInjective(s) /\ DOMAIN s = 1 .. L /\ s # <<>>
  BY DEF Linked
<1>2. t \in Seq(Nat) /\ Len(t) = L - 1
      /\ (\A n \in 1 .. L - 1 : t[n] = IF n < p THEN s[n] ELSE s[n + 1])
      /\ Range(t) = Range(s) \ {i} /\ IsInjective(t)
  BY <1>1, RemovedIs
<1> HIDE DEF t
<1> SUFFICES CacheShape(d) /\ SameMasks(c, d) /\ Linked(d, t)
  BY DEF t
<1>3. \A n \in 1 .. L : s[n] \in DOMAIN c.items /\ s[n] \in Nat \ {Null}
  BY <1>1 DEF Linked, CacheShape, Range
<1>4. /\ c.list.size = L /\ c.list.first = s[1] /\ c.list.last = s[L]
      /\ \A n \in 1 .. L - 1 : c.items[s[n]].next = s[n + 1] /\ c.items[s[n + 1]].prev = s[n]
  BY <1>1 DEF Linked
<1>5. \A m, n \in 1 .. L : s[m] = s[n] => m = n
  BY <1>1 DEF IsInjective
<1>7. 1 \in 1 .. L /\ L \in 1 .. L
  BY <1>1
<1>8. i = s[p] /\ i \in DOMAIN c.items /\ p \in 1 .. L /\ c.list.size > 0
  BY <1>1, <1>3, <1>4
<1> HIDE DEF L, i
<1>9. CASE p = 1
  <2>1. d.list = [first |-> c.items[i].next, last |-> c.list.last, size |-> L - 1]
        /\ CacheShape(d) /\ SameMasks(c, d)
        /\ \A x \in DOMAIN c.items \ {i} : d.items[x] = c.items[x]
    <3>1. c.list.first = i
      BY <1>4, <1>8, <1>9
    <3> QED BY <3>1, <1>4, <1>8, UnlinkDoes
  <2> HIDE DEF d
  <2>5. \A n \in 1 .. L - 1 : t[n] = s[n + 1] /\ s[n + 1] # i
    <3> TAKE n \in 1 .. L - 1
    <3>1. ~(n < p) /\ n + 1 \in 1 .. L /\ n + 1 # p
      BY <1>1, <1>9
    <3> QED BY <3>1, <1>2, <1>5, <1>7, <1>8, <1>9
  <2>6. ASSUME NEW n \in 1 .. Len(t) - 1
        PROVE  d.items[t[n]].next = t[n + 1] /\ d.items[t[n + 1]].prev = t[n]
    <3>1. n \in 1 .. L - 1 /\ n + 1 \in 1 .. L - 1 /\ n + 1 \in 1 .. L /\ n + 1 + 1 \in 1 .. L
      BY <1>1, <1>2
    <3>2. t[n] = s[n + 1] /\ t[n + 1] = s[n + 1 + 1] /\ s[n + 1] # i /\ s[n + 1 + 1] # i
      BY <3>1, <2>5
    <3>3. d.items[s[n + 1]] = c.items[s[n + 1]] /\ d.items[s[n + 1 + 1]] = c.items[s[n + 1 + 1]]
      BY <3>1, <3>2, <2>1, <1>3
    <3> QED BY <3>1, <3>2, <3>3, <1>4
  <2>7. t # <<>> => d.list.first = t[1] /\ d.list.last = t[Len(t)]
    <3> SUFFICES ASSUME t # <<>> PROVE d.list.first = t[1] /\ d.list.last = t[Len(t)]
      OBVIOUS
    <3>1. 1 \in 1 .. L - 1 /\ L - 1 \in 1 .. L - 1 /\ L - 1 + 1 = L
      BY <1>1, <1>2
    <3>2. t[1] = s[1 + 1] /\ t[L - 1] = s[L]
      BY <3>1, <2>5
    <3>3. c.items[s[1]].next = s[1 + 1]
      BY <3>1, <1>4
    <3> QED BY <3>2, <3>3, <2>1, <1>2, <1>4, <1>8, <1>9
  <2>8. t = <<>> => d.list.first = Null
    <3> SUFFICES ASSUME t = <<>> PROVE d.list.first = Null
      OBVIOUS
    <3>1. L = 1
      BY <1>1, <1>2
    <3> QED BY <3>1, <2>1, <1>8, <1>9 DEF LastHasNoNext, L
  <2>9. Range(t) \subseteq DOMAIN d.items
    BY <2>1, <1>2 DEF Linked, SameMasks
  <2>10. d.list.size = Len(t)
    BY <2>1, <1>2
  <2> QED BY <2>1, <2>6, <2>7, <2>8, <2>9, <2>10, <1>2 DEF Linked
<1>10. CASE p = L /\ p # 1
  <2>0. s[1] # i
    BY <1>5, <1>7, <1>8, <1>10
  <2>1. d.list = [first |-> c.list.first, last |-> c.items[i].prev, size |-> L - 1]
        /\ CacheShape(d) /\ SameMasks(c, d)
        /\ \A x \in DOMAIN c.items \ {i} : d.items[x] = c.items[x]
    <3>1. c.list.first # i /\ c.list.last = i
      BY <2>0, <1>4, <1>8, <1>10
    <3> QED BY <3>1, <1>4, <1>8, UnlinkDoes
  <2> HIDE DEF d
  <2>5. \A n \in 1 .. L - 1 : t[n] = s[n] /\ s[n] # i
    <3> TAKE n \in 1 .. L - 1
    <3>1. n < p /\ n \in 1 .. L /\ n # p
      BY <1>1, <1>10
    <3> QED BY <3>1, <1>2, <1>5, <1>7, <1>8, <1>10
  <2>6. ASSUME NEW n \in 1 .. Len(t) - 1
        PROVE  d.items[t[n]].next = t[n + 1] /\ d.items[t[n + 1]].prev = t[n]
    <3>1. n \in 1 .. L - 1 /\ n + 1 \in 1 .. L - 1 /\ n + 1 \in 1 .. L /\ n \in 1 .. L
      BY <1>1, <1>2
    <3>2. t[n] = s[n] /\ t[n + 1] = s[n + 1] /\ s[n] # i /\ s[n + 1] # i
      BY <3>1, <2>5
    <3>3. d.items[s[n]] = c.items[s[n]] /\ d.items[s[n + 1]] = c.items[s[n + 1]]
      BY <3>1, <3>2, <2>1, <1>3
    <3> QED BY <3>1, <3>2, <3>3, <1>4
  <2>7. d.list.first = t[1] /\ d.list.last = t[Len(t)] /\ t # <<>>
    <3>1. 1 \in 1 .. L - 1 /\ L - 1 \in 1 .. L - 1 /\ L - 1 + 1 = L
      BY <1>1, <1>7, <1>10
    <3>2. t[1] = s[1] /\ t[L - 1] = s[L - 1] /\ Len(t) = L - 1
      BY <3>1, <2>5, <1>2
    <3>3. c.items[s[L]].prev = s[L - 1]
      BY <3>1, <1>4
    <3>4. t # <<>>
      BY <3>1, <3>2
    <3> QED BY <3>2, <3>3, <3>4, <2>1, <1>4, <1>8, <1>10
  <2>9. Range(t) \subseteq DOMAIN d.items
    BY <2>1, <1>2 DEF Linked, SameMasks
  <2>10. d.list.size = Len(t)
    BY <2>1, <1>2
  <2> QED BY <2>1, <2>6, <2>7, <2>9, <2>10, <1>2 DEF Linked
<1>11. CASE p # 1 /\ p # L
  <2> DEFINE a == s[p - 1]
             b == s[p + 1]
  <2>0. p - 1 \in 1 .. L /\ p + 1 \in 1 .. L /\ p \in 1 .. L /\ p - 1 + 1 = p
        /\ p \in 1 .. L - 1 /\ p - 1 \in 1 .. L - 1 /\ p - 1 # p /\ p + 1 # p /\ p - 1 # p + 1
    <3>1. p \in Nat /\ L \in Nat /\ 1 < p /\ p < L
      BY <1>1, <1>8, <1>11
    <3> QED BY <3>1
  <2>1. s[1] # i /\ s[L] # i /\ a # i /\ b # i /\ a # b
        /\ a \in DOMAIN c.items /\ b \in DOMAIN c.items /\ a \in Nat /\ b \in Nat
    BY <2>0, <1>3, <1>5, <1>7, <1>8, <1>11
  <2>2. c.items[i].next = b /\ c.items[i].prev = a
    BY <2>0, <1>4, <1>8
  <2> HIDE DEF a, b
  <2>3. d.list = [first |-> c.list.first, last |-> c.list.last, size |-> L - 1]
        /\ CacheShape(d) /\ SameMasks(c, d)
        /\ \A x \in DOMAIN c.items \ {i} :
             /\ d.items[x].next = IF x = a THEN b ELSE c.items[x].next
             /\ d.items[x].prev = IF x = b THEN a ELSE c.items[x].prev
    <3>1. c.list.first # i /\ c.list.last # i
      BY <2>1, <1>4
    <3> QED BY <3>1, <2>1, <2>2, <1>4, <1>8, UnlinkDoes
  <2> HIDE DEF d
  <2>6. ASSUME NEW n \in 1 .. L - 1
        PROVE  t[n] = (IF n < p THEN s[n] ELSE s[n + 1])
    BY <1>2
  <2>7. ASSUME NEW n \in 1 .. Len(t) - 1
        PROVE  d.items[t[n]].next = t[n + 1] /\ d.items[t[n + 1]].prev = t[n]
    <3>1. n \in 1 .. L - 1 /\ n + 1 \in 1 .. L - 1 /\ n + 1 \in 1 .. L /\ n \in 1 .. L
          /\ n + 1 + 1 \in 1 .. L /\ p \in Nat
      BY <1>1, <1>2 DEF L
    <3>2. CASE n + 1 < p
      <4>1. t[n] = s[n] /\ t[n + 1] = s[n + 1]
        BY <3>1, <3>2, <2>6
      <4>2. s[n] # i /\ s[n + 1] # i /\ s[n] # b /\ s[n + 1] # b /\ s[n] # a
        <5>1. n # p /\ n + 1 # p /\ n # p + 1 /\ n + 1 # p + 1 /\ n # p - 1
          BY <3>1, <3>2
        <5> QED BY <5>1, <3>1, <2>0, <1>5, <1>8 DEF a, b
      <4>3. d.items[s[n]].next = c.items[s[n]].next /\ d.items[s[n + 1]].prev = c.items[s[n + 1]].prev
        BY <4>2, <3>1, <2>3, <1>3
      <4> QED BY <4>1, <4>3, <3>1, <1>4
    <3>3. CASE n + 1 = p
      <4>1. t[n] = a /\ t[n + 1] = b
        <5>1. n < p /\ ~(n + 1 < p) /\ n = p - 1 /\ n + 1 + 1 = p + 1
          BY <3>1, <3>3
        <5> QED BY <5>1, <3>1, <2>6 DEF a, b
      <4> QED BY <4>1, <2>1, <2>3
    <3>4. CASE n + 1 > p
      <4>1. t[n] = s[n + 1] /\ t[n + 1] = s[n + 1 + 1]
        <5>1. ~(n < p) /\ ~(n + 1 < p)
          BY <3>1, <3>4
        <5> QED BY <5>1, <3>1, <2>6
      <4>2. s[n + 1] # i /\ s[n + 1 + 1] # i /\ s[n + 1] # a /\ s[n + 1 + 1] # a /\ s[n + 1 + 1] # b
        <5>1. n + 1 # p /\ n + 1 + 1 # p /\ n + 1 # p - 1 /\ n + 1 + 1 # p - 1 /\ n + 1 + 1 # p + 1
          BY <3>1, <3>4
        <5> QED BY <5>1, <3>1, <2>0, <1>5, <1>8 DEF a, b
      <4>3. /\ d.items[s[n + 1]].next = c.items[s[n + 1]].next
            /\ d.items[s[n + 1 + 1]].prev = c.items[s[n + 1 + 1]].prev
        BY <4>2, <3>1, <2>3, <1>3
      <4> QED BY <4>1, <4>3, <3>1, <1>4
    <3> QED BY <3>1, <3>2, <3>3, <3>4
  <2>8. d.list.first = t[1] /\ d.list.last = t[Len(t)] /\ t # <<>>
    <3>1. 1 \in 1 .. L - 1 /\ L - 1 \in 1 .. L - 1 /\ L - 1 + 1 = L /\ 1 < p /\ ~(L - 1 < p)
      BY <2>0, <1>1, <1>11
    <3>2. t[1] = s[1] /\ t[L - 1] = s[L] /\ Len(t) = L - 1
      BY <3>1, <2>6, <1>2
    <3>3. t # <<>>
      BY <3>1, <3>2
    <3> QED BY <3>2, <3>3, <2>3, <1>4
  <2>9. Range(t) \subseteq DOMAIN d.items
    BY <2>3, <1>2 DEF Linked, SameMasks
  <2>10. d.list.size = Len(t)
    BY <2>3, <1>2
  <2> QED BY <2>3, <2>7, <2>8, <2>9, <2>10, <1>2 DEF Linked
<1> QED
  BY <1>9, <1>10, <1>11

-----------------------------------------------------------------------------
(* Enforcing the budget.                                                   *)

LEMMA SetInduction ==
  ASSUME NEW S, 0 \in S, \A n \in Nat : n \in S => n + 1 \in S
  PROVE  Nat \subseteq S
<1> SUFFICES ASSUME Nat \ S # {} PROVE FALSE
  OBVIOUS
<1> DEFINE R == OpToRel(<, Nat)
<1>1. PICK x \in Nat \ S : \A y \in Nat \ S : ~ (<<y, x>> \in R)
  <2>1. IsWellFoundedOn(R, Nat)
    BY NatLessThanWellFounded
  <2> HIDE DEF R
  <2> QED BY <2>1, WFMin
<1>2. \A y \in Nat \ S : ~ (y < x)
  BY <1>1 DEF OpToRel
<1>3. x # 0 /\ x - 1 \in Nat /\ x - 1 \in S
  BY <1>2
<1>4. x - 1 + 1 = x
  OBVIOUS
<1> QED
  BY <1>3, <1>4

(* Every key of the map leads to an item of that key.                      *)
MapsOwn(c) ==
  \A key \in DOMAIN c.map :
    c.map[key] \in DOMAIN c.items /\ c.items[c.map[key]].key = key

(* An eviction takes the last item and its key.                            *)
LEMMA EvictBackDoes ==
  ASSUME NEW c, CacheShape(c), MapsOwn(c), c.list.size > 0, c.list.last \in DOMAIN c.items
  PROVE  LET d == EvictBack(c)
             i == c.list.last
         IN  /\ CacheShape(d) /\ MapsOwn(d) /\ d.fault = c.fault
             /\ d.list = Unlink(c, i).list
             /\ DOMAIN d.items = DOMAIN c.items \ {i}
             /\ \A x \in DOMAIN c.items \ {i} : d.items[x] = c.items[x]
<1> DEFINE i == c.list.last
           r == Unlink(c, i)
           d == EvictBack(c)
           key == c.items[i].key
<1>1. CacheShape(r) /\ SameMasks(c, r)
      /\ \A x \in DOMAIN c.items \ {i} : r.items[x] = c.items[x]
  BY UnlinkDoes
<1>2. d = [r EXCEPT !.map = Without(@, key), !.items = Without(@, i)]
  BY DEF EvictBack
<1> HIDE DEF r, d
<1>3. Whole(d) /\ d.map = Without(r.map, key) /\ d.items = Without(r.items, i)
      /\ d.fault = r.fault /\ d.list = r.list
  BY <1>1, <1>2 DEF CacheShape, Whole
<1>4. DOMAIN d.items = DOMAIN c.items \ {i}
      /\ \A x \in DOMAIN c.items \ {i} : d.items[x] = r.items[x]
  BY <1>1, <1>3 DEF Without, SameMasks
<1>5. d.items \in [DOMAIN d.items -> ItemType]
  BY <1>1, <1>3 DEF Without, CacheShape
<1>6. CacheShape(d)
  BY <1>1, <1>3, <1>4, <1>5 DEF CacheShape, SameMasks
<1>7. DOMAIN d.map = DOMAIN c.map \ {key} /\ \A k \in DOMAIN d.map : d.map[k] = c.map[k]
  BY <1>1, <1>3 DEF Without, SameMasks
<1>8. MapsOwn(d)
  <2> SUFFICES ASSUME NEW k \in DOMAIN d.map
               PROVE  d.map[k] \in DOMAIN d.items /\ d.items[d.map[k]].key = k
    BY DEF MapsOwn
  <2>1. k \in DOMAIN c.map /\ k # key /\ d.map[k] = c.map[k]
    BY <1>7
  <2>2. c.map[k] \in DOMAIN c.items /\ c.items[c.map[k]].key = k /\ c.map[k] # i
    BY <2>1 DEF MapsOwn
  <2> QED BY <2>1, <2>2, <1>1, <1>4
<1> QED
  BY <1>1, <1>3, <1>4, <1>6, <1>8 DEF r, d, SameMasks

(* A cache from which n items were evicted, and in which s was linked.     *)
Evicted(c, d, s, n) ==
  /\ CacheShape(d) /\ MapsOwn(d) /\ d.fault = c.fault
  /\ d.items[s[1]].next = c.items[s[1]].next
  /\ \E q \in Seq(Nat) : /\ Len(q) = Len(s) - n /\ q[1] = s[1]
                         /\ Linked(d, q) /\ Range(q) = DOMAIN d.items

LEMMA EvictBackIs ==
  ASSUME NEW c, NEW d, NEW s \in Seq(Nat), NEW n \in Nat, n < Len(s) - 1, Evicted(c, d, s, n)
  PROVE  Evicted(c, EvictBack(d), s, n + 1)
<1> PICK q \in Seq(Nat) : /\ Len(q) = Len(s) - n /\ q[1] = s[1]
                          /\ Linked(d, q) /\ Range(q) = DOMAIN d.items
  BY DEF Evicted
<1> DEFINE L == Len(q)
           i == d.list.last
           e == EvictBack(d)
           t == RemoveAt(q, L)
<1>1. L \in Nat /\ L > 1 /\ Len(s) \in Nat /\ DOMAIN q = 1 .. L /\ q # <<>>
  OBVIOUS
<1>2. i = q[L] /\ 1 \in 1 .. L /\ L \in 1 .. L /\ d.list.size > 0 /\ IsInjective(q)
  BY <1>1 DEF Linked
<1>3. i \in DOMAIN d.items /\ q[1] \in DOMAIN d.items \ {i}
  <2>1. q[1] # q[L]
    <3>1. 1 # L /\ 1 \in DOMAIN q /\ L \in DOMAIN q
      BY <1>1
    <3> HIDE DEF L
    <3> QED BY <3>1, <1>2 DEF IsInjective
  <2>2. q[1] \in Range(q) /\ q[L] \in Range(q)
    BY <1>1, <1>2 DEF Range
  <2> QED BY <1>2, <2>1, <2>2
<1>4. CacheShape(d) /\ MapsOwn(d) /\ LastHasNoNext(d, q)
  BY <1>1 DEF Evicted, LastHasNoNext
<1>5. /\ CacheShape(e) /\ MapsOwn(e) /\ e.fault = d.fault /\ e.list = Unlink(d, i).list
      /\ DOMAIN e.items = DOMAIN d.items \ {i}
      /\ \A x \in DOMAIN d.items \ {i} : e.items[x] = d.items[x]
  BY <1>2, <1>3, <1>4, EvictBackDoes
<1>6. Linked(Unlink(d, i), t)
  BY <1>2, <1>4, UnlinkIs
<1>7. /\ t \in Seq(Nat) /\ Len(t) = L - 1 /\ Range(t) = Range(q) \ {q[L]} /\ IsInjective(t)
      /\ \A m \in 1 .. L - 1 : t[m] = IF m < L THEN q[m] ELSE q[m + 1]
  BY <1>2, RemovedIs
<1> HIDE DEF L, i, e, t
<1>8. \A m \in 1 .. L - 1 : t[m] = q[m]
  BY <1>1, <1>7
<1>9. Len(t) = Len(s) - (n + 1) /\ t[1] = s[1]
  BY <1>1, <1>7, <1>8 DEF L
<1>10. Range(t) = DOMAIN e.items
  BY <1>2, <1>5, <1>7
<1>11. Linked(e, t)
  <2>1. ASSUME NEW m \in 1 .. Len(t) - 1
        PROVE  e.items[t[m]].next = t[m + 1] /\ e.items[t[m + 1]].prev = t[m]
    <3>1. m \in 1 .. Len(t) /\ m + 1 \in 1 .. Len(t) /\ m \in 1 .. L - 1 /\ m + 1 \in 1 .. L - 1
      BY <1>1, <1>7
    <3>2. t[m] \in DOMAIN e.items /\ t[m + 1] \in DOMAIN e.items
      <4>1. DOMAIN t = 1 .. Len(t)
        BY <1>7
      <4> QED BY <3>1, <4>1, <1>10 DEF Range
    <3>3. e.items[t[m]] = d.items[t[m]] /\ e.items[t[m + 1]] = d.items[t[m + 1]]
      BY <3>2, <1>5
    <3>4. d.items[q[m]].next = q[m + 1] /\ d.items[q[m + 1]].prev = q[m]
      BY <3>1 DEF Linked, L
    <3> QED BY <3>1, <3>3, <3>4, <1>8
  <2> QED BY <2>1, <1>5, <1>6, <1>7, <1>10 DEF Linked
<1>12. e.items[s[1]].next = c.items[s[1]].next /\ e.fault = c.fault
  BY <1>3, <1>5 DEF Evicted
<1> QED
  BY <1>5, <1>7, <1>9, <1>10, <1>11, <1>12 DEF Evicted, e

Emptied(c, e, s) ==
  /\ CacheShape(e) /\ e.fault = c.fault
  /\ DOMAIN e.items = {} /\ DOMAIN e.map = {}
  /\ e.list.size = 0 /\ e.list.first = c.items[s[1]].next

(* The last eviction leaves the successor the item once had as the first.  *)
LEMMA LastEvictionIs ==
  ASSUME NEW c, NEW d, NEW s \in Seq(Nat), s # <<>>, Evicted(c, d, s, Len(s) - 1)
  PROVE  Emptied(c, EvictBack(d), s)
<1> PICK q \in Seq(Nat) : /\ Len(q) = Len(s) - (Len(s) - 1) /\ q[1] = s[1]
                          /\ Linked(d, q) /\ Range(q) = DOMAIN d.items
  BY DEF Evicted
<1> DEFINE i == d.list.last
           e == EvictBack(d)
<1>1. Len(q) = 1 /\ DOMAIN q = {1} /\ q # <<>>
  <2>1. Len(q) = 1
    <3>1. Len(s) \in Nat
      OBVIOUS
    <3> QED BY <3>1
  <2>2. DOMAIN q = 1 .. Len(q) /\ 1 .. 1 = {1}
    OBVIOUS
  <2>3. q # <<>>
    <3>1. Len(<<>>) = 0 /\ 0 # 1
      BY EmptySeq
    <3> QED BY <2>1, <3>1, Zenon
  <2> QED BY <2>1, <2>2, <2>3
<1>2. i = s[1] /\ d.list.first = i /\ d.list.size = 1 /\ DOMAIN d.items = {i}
  BY <1>1 DEF Linked, Range
<1>3. CacheShape(d) /\ MapsOwn(d) /\ d.list.size > 0
  BY <1>2 DEF Evicted
<1>4. /\ CacheShape(e) /\ MapsOwn(e) /\ e.fault = d.fault /\ e.list = Unlink(d, i).list
      /\ DOMAIN e.items = {}
  BY <1>2, <1>3, EvictBackDoes
<1>5. Unlink(d, i).list.first = d.items[i].next /\ Unlink(d, i).list.size = 0
  <2>1. i \in DOMAIN d.items
    BY <1>2
  <2>2. Unlink(d, i).list = [first |-> IF d.list.first = i THEN d.items[i].next ELSE d.list.first,
                            last |-> IF d.list.first # i /\ d.list.last = i
                                     THEN d.items[i].prev ELSE d.list.last,
                            size |-> d.list.size - 1]
    BY <1>3, <2>1, UnlinkDoes
  <2> QED BY <1>2, <2>2
<1> QED
  BY <1>2, <1>4, <1>5 DEF Evicted, MapsOwn, Emptied

(* enforce_budget with its budget of 0 evicts everything.                  *)
LEMMA EnforceBudgetIs ==
  ASSUME NEW c, CacheShape(c), MapsOwn(c), NEW s \in Seq(Nat), s # <<>>,
         Linked(c, s), Range(s) = DOMAIN c.items
  PROVE  Emptied(c, EnforceBudget(c), s)
<1> DEFINE L == Len(s)
           Step(g, n) == IF n = 0 THEN c ELSE EvictBack(g[n - 1])
           S == {m \in Nat : \E g : g = [n \in 0 .. m |-> Step(g, n)]}
<1>1. L \in Nat /\ L > 0 /\ c.list.size = L
  BY DEF Linked
<1>2. Nat \subseteq S
  <2>1. 0 \in S
    <3>1. [n \in 0 .. 0 |-> c] = [n \in 0 .. 0 |-> Step([k \in 0 .. 0 |-> c], n)]
      OBVIOUS
    <3> QED BY <3>1
  <2>2. ASSUME NEW m \in Nat, m \in S PROVE m + 1 \in S
    <3>1. PICK g : g = [n \in 0 .. m |-> Step(g, n)]
      BY <2>2
    <3> DEFINE h == [n \in 0 .. m + 1 |-> IF n = m + 1 THEN EvictBack(g[m]) ELSE g[n]]
    <3>2. ASSUME NEW n \in 0 .. m + 1 PROVE h[n] = Step(h, n)
      <4>1. CASE n = 0
        <5>1. h[n] = g[0] /\ g[0] = c
          BY <4>1, <3>1
        <5> QED BY <4>1, <5>1
      <4>2. CASE n \in 1 .. m
        <5>1. h[n] = g[n] /\ h[n - 1] = g[n - 1] /\ n \in 0 .. m
          BY <4>2
        <5>2. g[n] = EvictBack(g[n - 1])
          BY <4>2, <5>1, <3>1
        <5> QED BY <4>2, <5>1, <5>2
      <4>3. CASE n = m + 1
        <5>1. h[n] = EvictBack(g[m]) /\ h[n - 1] = g[m]
          BY <4>3
        <5> QED BY <4>3, <5>1
      <4> QED BY <4>1, <4>2, <4>3
    <3>3. h = [n \in 0 .. m + 1 |-> Step(h, n)]
      BY <3>2
    <3> HIDE DEF h
    <3>4. \E f : f = [n \in 0 .. m + 1 |-> Step(f, n)]
      BY <3>3, Zenon
    <3>5. m + 1 \in Nat
      OBVIOUS
    <3> QED BY <3>4, <3>5, Zenon
  <2> HIDE DEF S
  <2> QED BY <2>1, <2>2, SetInduction
<1> DEFINE after == CHOOSE g : g = [n \in 0 .. L |-> Step(g, n)]
<1>3. after = [n \in 0 .. L |-> Step(after, n)]
  BY <1>1, <1>2
<1>4. EnforceBudget(c) = after[L]
  BY <1>1 DEF EnforceBudget
<1> HIDE DEF after
<1>5. after[0] = c /\ \A n \in 1 .. L : after[n] = EvictBack(after[n - 1])
  <2>1. \A n \in 0 .. L : after[n] = Step(after, n)
    BY <1>3, Zenon
  <2>2. 0 \in 0 .. L /\ \A n \in 1 .. L : n \in 0 .. L /\ n # 0
    BY <1>1
  <2> QED BY <2>1, <2>2
<1> DEFINE T == {n \in Nat : n < L => Evicted(c, after[n], s, n)}
<1>6. Nat \subseteq T
  <2>1. 0 \in T
    BY <1>1, <1>5 DEF Evicted
  <2>2. ASSUME NEW n \in Nat, n \in T PROVE n + 1 \in T
    <3> SUFFICES ASSUME n + 1 < L PROVE Evicted(c, after[n + 1], s, n + 1)
      OBVIOUS
    <3>1. Evicted(c, after[n], s, n) /\ n < Len(s) - 1
      BY <2>2, <1>1
    <3>2. after[n + 1] = EvictBack(after[n])
      BY <1>1, <1>5
    <3> QED BY <3>1, <3>2, EvictBackIs
  <2> HIDE DEF T
  <2> QED BY <2>1, <2>2, SetInduction
<1>7. Evicted(c, after[L - 1], s, L - 1)
  BY <1>1, <1>6
<1>8. EnforceBudget(c) = EvictBack(after[L - 1])
  BY <1>1, <1>4, <1>5
<1> DEFINE d == after[L - 1]
<1> HIDE DEF d, S, T
<1>9. Evicted(c, d, s, Len(s) - 1) /\ EnforceBudget(c) = EvictBack(d)
  BY <1>7, <1>8 DEF d
<1> QED
  BY <1>9, LastEvictionIs

-----------------------------------------------------------------------------
(* The actions.                                                            *)

LEMMA SequenceOver ==
  ASSUME NEW U, NEW s \in Seq(Nat), Range(s) \subseteq U
  PROVE  s \in Seq(U)
<1>1. Len(s) \in Nat /\ s \in [1 .. Len(s) -> Nat] /\ DOMAIN s = 1 .. Len(s)
  BY LenProperties
<1>2. \A n \in 1 .. Len(s) : s[n] \in U
  BY <1>1 DEF Range
<1> QED
  BY <1>1, <1>2

LEMMA CacheIs ==
  ASSUME IInv
  PROVE  /\ Cache.items = items /\ Cache.list = list /\ Cache.map = map /\ Cache.fault = fault
         /\ CacheShape(Cache) /\ MapsOwn(Cache)
         /\ recent \in Seq(Nat)
<1>1. Whole(Cache) /\ Cache.items = items /\ Cache.list = list /\ Cache.map = map
      /\ Cache.fault = fault
  BY DEF Cache, Whole
<1>2. CacheShape(Cache)
  BY <1>1 DEF CacheShape, IInv, Shapes, TypeOK, Null
<1>3. MapsOwn(Cache)
  BY <1>1 DEF MapsOwn, IInv, FindsOwnMask
<1>4. recent \in Seq(Nat)
  <2>1. recent \in Seq(1 .. created) /\ created \in Nat
    BY DEF IInv, TypeOK, Shapes
  <2> QED BY <2>1
<1> QED
  BY <1>1, <1>2, <1>3, <1>4

LEMMA InitIInv == Init => IInv
<1> SUFFICES ASSUME Init PROVE IInv
  OBVIOUS
<1>1. /\ items = <<>> /\ map = <<>> /\ recent = <<>> /\ targets = {} /\ created = 0
      /\ list = [first |-> Null, last |-> Null, size |-> 0] /\ trimmed = FALSE /\ fault = FALSE
  BY DEF Init
<1>2. DOMAIN items = {} /\ DOMAIN map = {} /\ Len(recent) = 0 /\ Range(recent) = {}
      /\ items = [x \in {} |-> items[x]] /\ DOMAIN recent = {}
  BY <1>1 DEF Range
<1>3. TypeOK
  <2>1. recent \in Seq(1 .. created)
    BY <1>1, EmptySeq
  <2>2. list \in [first : Nat, last : Nat, size : Nat]
    BY <1>1 DEF Null
  <2> QED BY <1>1, <1>2, <2>1, <2>2 DEF TypeOK
<1>4. Shapes
  BY <1>1, <1>2 DEF Shapes
<1>5. FindsOwnMask /\ ComputedOnce /\ ItemsMapped
  BY <1>2 DEF FindsOwnMask, ComputedOnce, ItemsMapped
<1>6. Cache.items = items /\ Cache.list = list
  BY DEF Cache
<1>7. Ordered
  BY <1>1, <1>2, <1>6 DEF Ordered, Linked, LastHasNoNext, IsInjective
<1> QED
  BY <1>1, <1>3, <1>4, <1>5, <1>7 DEF IInv

(* What the invariant says of the next state, for a cache c that becomes it *)
(* and holds masks with the same keys as before.                           *)
LEMMA SameMasksKeep ==
  ASSUME IInv, NEW c, CacheShape(c), SameMasks(Cache, c), Becomes(c),
         created' = created
  PROVE  /\ FindsOwnMask' /\ ComputedOnce' /\ ItemsMapped' /\ Shapes'
         /\ DOMAIN items' = DOMAIN items /\ map' = map /\ fault' = fault
         /\ \A i \in DOMAIN items' : items'[i] \in ItemType
         /\ list' \in [first : Nat, last : Nat, size : Nat]
<1>1. items' = c.items /\ list' = c.list /\ map' = map /\ fault' = fault
      /\ DOMAIN items' = DOMAIN items
      /\ \A i \in DOMAIN items : items'[i].key = items[i].key
  BY CacheIs DEF SameMasks, Becomes
<1>2. Shapes' /\ \A i \in DOMAIN items' : items'[i] \in ItemType
  BY <1>1 DEF CacheShape, Shapes, IInv
<1>3. list' \in [first : Nat, last : Nat, size : Nat]
  BY <1>1 DEF CacheShape
<1>4. FindsOwnMask'
  BY <1>1 DEF IInv, FindsOwnMask
<1>5. ComputedOnce' /\ ItemsMapped'
  BY <1>1 DEF IInv, ComputedOnce, ItemsMapped
<1> QED
  BY <1>1, <1>2, <1>3, <1>4, <1>5

LEMMA HitKeepsIInv ==
  ASSUME IInv, NEW key \in Keys, Hit(key)
  PROVE  IInv'
<1> DEFINE i == map[key]
           p == CHOOSE n \in DOMAIN recent : recent[n] = i
           u == Unlink(Cache, i)
           d == PushFront(u, i)
           t == RemoveAt(recent, p)
<1>1. ~fault /\ key \in DOMAIN map /\ Becomes(d) /\ targets' = targets \cup {i}
      /\ recent' = <<i>> \o t /\ created' = created /\ trimmed' = trimmed
  BY DEF Hit, Known, Touch
<1>2. i \in DOMAIN items
  BY <1>1 DEF IInv, FindsOwnMask
<1>3. Ordered
  BY <1>1 DEF IInv, Dangling
<1>4. p \in 1 .. Len(recent) /\ recent[p] = i
  <2>1. DOMAIN recent = 1 .. Len(recent)
    BY CacheIs
  <2>2. \E n \in DOMAIN recent : recent[n] = i
    BY <1>2, <1>3 DEF Ordered, Range
  <2> QED BY <2>1, <2>2
<1>5. IsInjective(recent) /\ Range(recent) = DOMAIN items
  BY <1>3 DEF Ordered, Linked
<1> HIDE DEF p
<1>6. CacheShape(u) /\ SameMasks(Cache, u) /\ Linked(u, t)
  BY <1>3, <1>4, CacheIs, UnlinkIs DEF Ordered
<1>7. t \in Seq(Nat) /\ Range(t) = DOMAIN items \ {i} /\ IsInjective(t)
  BY <1>4, <1>5, CacheIs, RemovedIs
<1>8. i \in DOMAIN u.items /\ i \notin Range(t) /\ i \in Nat
  BY <1>2, <1>6, <1>7, CacheIs DEF SameMasks, CacheShape
<1> HIDE DEF t, u
<1>9. /\ CacheShape(d) /\ SameMasks(u, d)
      /\ Linked(d, <<i>> \o t) /\ LastHasNoNext(d, <<i>> \o t)
  BY <1>6, <1>7, <1>8, PushFrontIs
<1>10. SameMasks(Cache, d)
  BY <1>6, <1>9 DEF SameMasks
<1>11. recent' \in Seq(Nat) /\ Range(recent') = DOMAIN items
  <2>1. <<i>> \o t \in Seq(Nat) /\ Range(<<i>> \o t) = {i} \cup Range(t)
    BY <1>7, <1>8, PushedIs
  <2> QED BY <2>1, <1>1, <1>2, <1>7
<1> HIDE DEF d, i
<1>12. /\ FindsOwnMask' /\ ComputedOnce' /\ ItemsMapped' /\ Shapes'
       /\ DOMAIN items' = DOMAIN items /\ map' = map /\ fault' = fault
       /\ \A x \in DOMAIN items' : items'[x] \in ItemType
       /\ list' \in [first : Nat, last : Nat, size : Nat]
  BY <1>1, <1>9, <1>10, SameMasksKeep
<1>13. Ordered'
  <2>1. Cache'.items = d.items /\ Cache'.list = d.list
    BY <1>1 DEF Becomes, Cache
  <2>2. Linked(Cache', recent') /\ LastHasNoNext(Cache', recent')
    BY <1>1, <1>9, <2>1 DEF Linked, LastHasNoNext
  <2> QED BY <1>11, <1>12, <2>2 DEF Ordered
<1>14. TypeOK'
  <2>1. recent' \in Seq(1 .. created')
    <3>1. Range(recent') \subseteq 1 .. created
      BY <1>11 DEF IInv, Shapes
    <3>2. recent' \in Seq(1 .. created)
      BY <3>1, <1>11, SequenceOver
    <3> QED BY <3>2, <1>1
  <2>2. targets' \subseteq 1 .. created'
    BY <1>1, <1>2 DEF IInv, Shapes, TypeOK
  <2>3. DOMAIN map' \subseteq Keys /\ \A k \in DOMAIN map' : map'[k] \in 1 .. created'
    BY <1>1, <1>12 DEF IInv, TypeOK
  <2>4. trimmed' \in BOOLEAN /\ fault' \in BOOLEAN
    BY <1>1, <1>12 DEF IInv, TypeOK
  <2> QED BY <1>12, <2>1, <2>2, <2>3, <2>4 DEF TypeOK, ItemType
<1>15. ~trimmed' => ~fault' /\ targets' \subseteq DOMAIN items'
  BY <1>1, <1>2, <1>12 DEF IInv
<1> QED
  BY <1>12, <1>13, <1>14, <1>15 DEF IInv

LEMMA RunQueryKeepsIInv ==
  ASSUME IInv, RunQuery
  PROVE  IInv'
<1>1. /\ ~fault /\ fault' = ~(targets \subseteq DOMAIN items) /\ targets' = {}
      /\ items' = items /\ list' = list /\ map' = map /\ created' = created
      /\ recent' = recent /\ trimmed' = trimmed
  BY DEF RunQuery
<1>2. Cache'.items = Cache.items /\ Cache'.list = Cache.list
  BY <1>1 DEF Cache
<1>3. Ordered => Ordered'
  BY <1>1, <1>2 DEF Ordered, Linked, LastHasNoNext
<1>4. Dangling => Dangling'
  BY <1>1 DEF Dangling
<1>5. TypeOK' /\ Shapes'
  BY <1>1 DEF IInv, TypeOK, Shapes
<1>6. FindsOwnMask' /\ ComputedOnce' /\ ItemsMapped'
  BY <1>1 DEF IInv, FindsOwnMask, ComputedOnce, ItemsMapped
<1>7. ~trimmed' => ~fault' /\ targets' \subseteq DOMAIN items'
  BY <1>1 DEF IInv
<1> QED
  BY <1>1, <1>3, <1>4, <1>5, <1>6, <1>7 DEF IInv

(* The new item, in the map and not yet in the list.                       *)
Added(key, i) ==
  [Cache EXCEPT !.items = With(@, i, [key |-> key, next |-> Null, prev |-> Null]),
                !.map   = With(@, key, i)]

LEMMA AddedIs ==
  ASSUME IInv, NEW key \in Keys, ~Known(key), NEW i, i = created + 1, NEW c, c = Added(key, i)
  PROVE  /\ CacheShape(c) /\ MapsOwn(c) /\ c.list = list /\ c.fault = fault
         /\ DOMAIN c.items = DOMAIN items \cup {i} /\ i \in Nat /\ i \notin DOMAIN items
         /\ c.items[i].key = key /\ \A x \in DOMAIN items : c.items[x] = items[x]
         /\ DOMAIN c.map = DOMAIN map \cup {key} /\ c.map[key] = i
         /\ \A k \in DOMAIN map \ {key} : c.map[k] = map[k]
<1> DEFINE new == [key |-> key, next |-> Null, prev |-> Null]
<1>1. created \in Nat /\ i \in Nat \ {Null} /\ DOMAIN items \subseteq 1 .. created /\ i \notin DOMAIN items
      /\ items \in [DOMAIN items -> ItemType]
  BY DEF IInv, Shapes, Null
<1>2. Whole(c) /\ c.list = list /\ c.fault = fault
      /\ c.items = With(items, i, new) /\ c.map = With(map, key, i)
  BY CacheIs DEF CacheShape, Whole, Added
<1>3. new \in ItemType /\ new.key = key
  BY DEF ItemType, Null
<1> HIDE DEF new
<1>4. DOMAIN c.items = DOMAIN items \cup {i} /\ c.items[i] = new
      /\ \A x \in DOMAIN items : c.items[x] = items[x]
  BY <1>1, <1>2 DEF With
<1>5. c.items \in [DOMAIN c.items -> ItemType]
  BY <1>1, <1>2, <1>3 DEF With
<1>6. DOMAIN c.map = DOMAIN map \cup {key} /\ c.map[key] = i
      /\ \A k \in DOMAIN map \ {key} : c.map[k] = map[k]
  BY <1>2 DEF With
<1>7. CacheShape(c)
  <2>1. list \in [first : Nat, last : Nat, size : Nat]
    BY DEF IInv, TypeOK
  <2>2. DOMAIN c.items \subseteq Nat \ {Null}
    BY <1>1, <1>4 DEF Null
  <2> QED BY <1>2, <1>5, <2>1, <2>2 DEF CacheShape
<1>8. MapsOwn(c)
  <2> SUFFICES ASSUME NEW k \in DOMAIN c.map
               PROVE  c.map[k] \in DOMAIN c.items /\ c.items[c.map[k]].key = k
    BY DEF MapsOwn
  <2>1. CASE k = key
    BY <2>1, <1>3, <1>4, <1>6
  <2>2. CASE k # key
    <3>1. k \in DOMAIN map /\ c.map[k] = map[k]
      BY <2>2, <1>6
    <3>2. map[k] \in DOMAIN items /\ items[map[k]].key = k
      BY <3>1 DEF IInv, FindsOwnMask
    <3> QED BY <3>1, <3>2, <1>4
  <2> QED BY <2>1, <2>2
<1> QED
  BY <1>1, <1>2, <1>3, <1>4, <1>6, <1>7, <1>8

(* What the invariant says of the next state, for a cache d that becomes it *)
(* and holds the masks of before and one more.                             *)
LEMMA AddedKeeps ==
  ASSUME IInv, NEW key \in Keys, ~Known(key), NEW i, i = created + 1,
         NEW c, c = Added(key, i),
         NEW d, CacheShape(d), Becomes(d), created' = i,
         DOMAIN d.items = DOMAIN c.items, d.map = c.map,
         \A x \in DOMAIN c.items : d.items[x].key = c.items[x].key
  PROVE  /\ FindsOwnMask' /\ ComputedOnce' /\ ItemsMapped' /\ Shapes'
         /\ \A x \in DOMAIN items' : items'[x] \in ItemType
         /\ list' \in [first : Nat, last : Nat, size : Nat]
         /\ DOMAIN map' \subseteq Keys /\ \A k \in DOMAIN map' : map'[k] \in 1 .. created'
<1>1. /\ MapsOwn(c) /\ DOMAIN c.items = DOMAIN items \cup {i} /\ i \in Nat /\ i \notin DOMAIN items
      /\ c.items[i].key = key /\ (\A x \in DOMAIN items : c.items[x] = items[x])
      /\ DOMAIN c.map = DOMAIN map \cup {key} /\ c.map[key] = i
      /\ \A k \in DOMAIN map \ {key} : c.map[k] = map[k]
  BY AddedIs
<1>2. items' = d.items /\ list' = d.list /\ map' = d.map
  BY DEF Becomes
<1>3. created \in Nat /\ DOMAIN items \subseteq 1 .. created
  BY DEF IInv, Shapes
<1>4. /\ DOMAIN items' = DOMAIN items \cup {i} /\ items'[i].key = key
      /\ \A x \in DOMAIN items : items'[x].key = items[x].key
  BY <1>1, <1>2
<1>5. /\ DOMAIN map' = DOMAIN map \cup {key} /\ map'[key] = i
      /\ \A k \in DOMAIN map \ {key} : map'[k] = map[k]
  BY <1>1, <1>2
<1>6. Shapes' /\ (\A x \in DOMAIN items' : items'[x] \in ItemType)
      /\ list' \in [first : Nat, last : Nat, size : Nat]
  BY <1>1, <1>2, <1>3, <1>4 DEF CacheShape, Shapes
<1>7. FindsOwnMask'
  <2> SUFFICES ASSUME NEW k \in DOMAIN map'
               PROVE  /\ map'[k] \in DOMAIN items' /\ items'[map'[k]].key = k
                      /\ \A x \in DOMAIN items' : items'[x].key = k => x <= map'[k]
    BY DEF FindsOwnMask
  <2>1. CASE k = key
    <3>1. \A x \in DOMAIN items' : x <= i
      BY <1>1, <1>3, <1>4
    <3> QED BY <2>1, <3>1, <1>4, <1>5
  <2>2. CASE k # key
    <3>1. k \in DOMAIN map /\ map'[k] = map[k]
      BY <2>2, <1>5
    <3>2. /\ map[k] \in DOMAIN items /\ items[map[k]].key = k
          /\ \A x \in DOMAIN items : items[x].key = k => x <= map[k]
      BY <3>1 DEF IInv, FindsOwnMask
    <3> QED BY <2>2, <3>1, <3>2, <1>4
  <2> QED BY <2>1, <2>2
<1>8. ItemsMapped'
  <2>1. \A x \in DOMAIN items : items[x].key \in DOMAIN map
    BY DEF IInv, ItemsMapped
  <2>2. \A x \in DOMAIN items' : items'[x].key \in DOMAIN map'
    BY <2>1, <1>4, <1>5
  <2> QED BY <2>2 DEF ItemsMapped
<1>9. ComputedOnce'
  <2> SUFFICES ASSUME NEW x \in DOMAIN items', NEW y \in DOMAIN items', x # y,
                      items'[x].key = items'[y].key
               PROVE  items'[x].key \in Regions
    BY DEF ComputedOnce
  <2>1. \A z \in DOMAIN items : items[z].key = key => key \in Regions
    BY DEF IInv, ItemsMapped, Known
  <2>2. CASE x \in DOMAIN items /\ y \in DOMAIN items
    BY <2>2, <1>4 DEF IInv, ComputedOnce
  <2>3. CASE x = i
    BY <2>1, <2>3, <1>4
  <2>4. CASE y = i
    BY <2>1, <2>4, <1>4
  <2> QED BY <2>2, <2>3, <2>4, <1>4
<1>10. DOMAIN map' \subseteq Keys /\ \A k \in DOMAIN map' : map'[k] \in 1 .. created'
  <2>1. DOMAIN map \subseteq Keys /\ \A k \in DOMAIN map : map[k] \in 1 .. created
    BY DEF IInv, TypeOK
  <2> QED BY <2>1, <1>3, <1>5
<1> QED
  BY <1>6, <1>7, <1>8, <1>9, <1>10

LEMMA MissKeepsIInv ==
  ASSUME IInv, NEW key \in Keys, Miss(key)
  PROVE  IInv'
<1> DEFINE i == created + 1
           b == Added(key, i)
           c == InsertItem(Cache, i, key)
           trim == ~c.fault /\ Excess(c)
           s == <<i>> \o recent
<1>1. /\ ~fault /\ ~Known(key)
      /\ Becomes(IF trim THEN EnforceBudget(c) ELSE c)
      /\ targets' = targets \cup {i} /\ recent' = (IF trim THEN <<>> ELSE s)
      /\ trimmed' = (trimmed \/ trim) /\ created' = i
  BY DEF Miss
<1>2. c = PushFront(b, i)
  BY DEF InsertItem, Added
<1>3. /\ CacheShape(b) /\ MapsOwn(b) /\ b.list = list /\ b.fault = fault
      /\ DOMAIN b.items = DOMAIN items \cup {i} /\ i \in Nat /\ i \notin DOMAIN items
      /\ b.items[i].key = key /\ (\A x \in DOMAIN items : b.items[x] = items[x])
      /\ DOMAIN b.map = DOMAIN map \cup {key}
  BY <1>1, AddedIs
<1>4. ASSUME NEW d, CacheShape(d), Becomes(d), DOMAIN d.items = DOMAIN b.items, d.map = b.map,
             \A x \in DOMAIN b.items : d.items[x].key = b.items[x].key
      PROVE  /\ FindsOwnMask' /\ ComputedOnce' /\ ItemsMapped' /\ Shapes'
             /\ \A x \in DOMAIN items' : items'[x] \in ItemType
             /\ list' \in [first : Nat, last : Nat, size : Nat]
             /\ DOMAIN map' \subseteq Keys /\ \A k \in DOMAIN map' : map'[k] \in 1 .. created'
  BY <1>1, <1>4, AddedKeeps
<1>5. created \in Nat /\ DOMAIN items \subseteq 1 .. created /\ recent \in Seq(Nat)
      /\ targets' \subseteq 1 .. created'
  BY <1>1, CacheIs DEF IInv, Shapes, TypeOK
<1>6. trim \in BOOLEAN /\ trimmed \in BOOLEAN
  BY DEF IInv, TypeOK
<1> HIDE DEF b, c, trim, s
<1>7. CASE Ordered
  <2>1. Linked(b, recent)
    <3>1. Linked(Cache, recent) /\ Range(recent) = DOMAIN items
      BY <1>7 DEF Ordered
    <3>2. \A n \in 1 .. Len(recent) : recent[n] \in DOMAIN items
      BY <3>1, <1>5 DEF Range
    <3>3. ASSUME NEW n \in 1 .. Len(recent) - 1
          PROVE  b.items[recent[n]].next = recent[n + 1] /\ b.items[recent[n + 1]].prev = recent[n]
      <4>1. n \in 1 .. Len(recent) /\ n + 1 \in 1 .. Len(recent)
        BY <1>5
      <4>2. b.items[recent[n]] = items[recent[n]] /\ b.items[recent[n + 1]] = items[recent[n + 1]]
        BY <4>1, <3>2, <1>3
      <4> QED BY <4>2, <3>1, CacheIs DEF Linked
    <3> QED BY <3>1, <3>3, <1>3, CacheIs DEF Linked
  <2>2. Range(recent) = DOMAIN items /\ IsInjective(recent)
    BY <1>7 DEF Ordered, Linked
  <2>3. CacheShape(c) /\ SameMasks(b, c) /\ Linked(c, s) /\ LastHasNoNext(c, s)
    BY <2>1, <2>2, <1>2, <1>3, <1>5, PushFrontIs DEF s
  <2>4. s \in Seq(Nat) /\ Len(s) = Len(recent) + 1 /\ Range(s) = DOMAIN b.items
    <3>1. s \in Seq(Nat) /\ Len(s) = Len(recent) + 1 /\ Range(s) = {i} \cup Range(recent)
      BY <2>2, <1>3, <1>5, PushedIs DEF s
    <3> QED BY <3>1, <2>2, <1>3
  <2>5. CASE ~trim
    <3>1. Becomes(c)
      BY <2>5, <1>1
    <3>2. /\ FindsOwnMask' /\ ComputedOnce' /\ ItemsMapped' /\ Shapes'
          /\ \A x \in DOMAIN items' : items'[x] \in ItemType
          /\ list' \in [first : Nat, last : Nat, size : Nat]
          /\ DOMAIN map' \subseteq Keys /\ \A k \in DOMAIN map' : map'[k] \in 1 .. created'
      BY <2>3, <3>1, <1>4 DEF SameMasks
    <3>3. items' = c.items /\ DOMAIN items' = DOMAIN items \cup {i} /\ fault' = FALSE /\ recent' = s
          /\ trimmed' = trimmed
      BY <2>3, <2>5, <3>1, <1>1, <1>3, <1>6 DEF SameMasks, Becomes, IInv, TypeOK
    <3>4. Ordered'
      <4>1. Cache'.items = c.items /\ Cache'.list = c.list
        BY <3>1 DEF Becomes, Cache
      <4>2. Linked(Cache', s) /\ LastHasNoNext(Cache', s)
        BY <2>3, <4>1 DEF Linked, LastHasNoNext
      <4> QED BY <4>2, <2>4, <3>3, <1>3 DEF Ordered
    <3>5. recent' \in Seq(1 .. created')
      <4>1. Range(s) \subseteq 1 .. created'
        BY <2>4, <1>1, <1>3, <1>5
      <4> QED BY <4>1, <2>4, <3>3, SequenceOver
    <3>6. TypeOK'
      BY <3>2, <3>3, <3>5, <1>5, <1>6 DEF TypeOK, ItemType
    <3>7. ~trimmed' => ~fault' /\ targets' \subseteq DOMAIN items'
      BY <3>3, <1>1 DEF IInv
    <3> QED BY <3>2, <3>4, <3>6, <3>7 DEF IInv
  <2>6. CASE trim
    <3> DEFINE e == EnforceBudget(c)
    <3>1. Becomes(e) /\ recent' = <<>> /\ trimmed' = TRUE
      BY <2>6, <1>1
    <3>2. MapsOwn(c) /\ Range(s) = DOMAIN c.items /\ s # <<>> /\ c.fault = FALSE
      <4>1. MapsOwn(c)
        BY <2>3, <1>3 DEF MapsOwn, SameMasks
      <4>2. s # <<>>
        BY <2>4, <1>5, EmptySeq
      <4> QED BY <4>1, <4>2, <2>3, <2>4, <1>1, <1>3 DEF SameMasks, IInv, TypeOK
    <3>3. Emptied(c, e, s)
      BY <2>3, <2>4, <3>2, EnforceBudgetIs
    <3> HIDE DEF e
    <3>4. /\ DOMAIN items' = {} /\ DOMAIN map' = {} /\ list'.size = 0 /\ fault' = FALSE
          /\ list'.first = c.items[s[1]].next /\ CacheShape(e) /\ items' = e.items /\ list' = e.list
      BY <3>1, <3>2, <3>3 DEF Emptied, Becomes
    <3>5. FindsOwnMask' /\ ComputedOnce' /\ ItemsMapped'
      BY <3>4 DEF FindsOwnMask, ComputedOnce, ItemsMapped
    <3>6. Shapes'
      BY <3>4, <1>1, <1>3 DEF Shapes, CacheShape
    <3>7. TypeOK'
      <4>1. recent' \in Seq(1 .. created')
        BY <3>1, EmptySeq
      <4>2. list' \in [first : Nat, last : Nat, size : Nat]
        BY <3>4 DEF CacheShape
      <4> QED BY <4>1, <4>2, <3>1, <3>4, <1>5 DEF TypeOK
    <3>8. Ordered' \/ Dangling'
      <4>1. CASE Len(s) = 1
        <5>1. list'.first = Null
          BY <4>1, <2>3, <3>4 DEF LastHasNoNext
        <5>2. Len(recent') = 0 /\ Range(recent') = {} /\ DOMAIN recent' = {}
          BY <3>1 DEF Range
        <5>3. Cache'.list = list' /\ Cache'.items = items'
          BY DEF Cache
        <5> QED BY <5>1, <5>2, <5>3, <3>1, <3>4 DEF Ordered, Linked, LastHasNoNext, IsInjective
      <4>2. CASE Len(s) # 1
        <5>1. 1 \in 1 .. Len(s) - 1 /\ 1 + 1 \in 1 .. Len(s)
          BY <4>2, <2>4, <1>5
        <5>2. c.items[s[1]].next = s[1 + 1]
          BY <5>1, <2>3 DEF Linked
        <5>3. s[1 + 1] \in Range(s)
          BY <5>1, <2>4 DEF Range
        <5>4. list'.first \in 1 .. created'
          BY <5>2, <5>3, <3>4, <2>4, <1>1, <1>3, <1>5
        <5> QED BY <5>4, <3>1, <3>4 DEF Dangling
      <4> QED BY <4>1, <4>2
    <3> QED BY <3>1, <3>5, <3>6, <3>7, <3>8 DEF IInv
  <2> QED BY <2>5, <2>6, <1>6
<1>8. CASE Dangling
  <2>1. list.first # Null /\ list.first \notin DOMAIN b.items /\ recent = <<>> /\ list.first \in Nat
    BY <1>3, <1>5, <1>8 DEF Dangling, Null
  <2>2. trimmed = TRUE
    <3>1. Ordered => list.first = Null
      BY <2>1, CacheIs DEF Ordered, Linked
    <3> QED BY <2>1, <3>1, <1>6 DEF IInv
  <2>3. c = [b EXCEPT !.fault = TRUE]
    BY <2>1, <1>2, <1>3 DEF PushFront
  <2>4. CacheShape(c) /\ c.items = b.items /\ c.map = b.map /\ c.fault = TRUE
    BY <2>3, <1>3 DEF CacheShape, Whole
  <2>5. ~trim
    BY <2>4 DEF trim
  <2>6. Becomes(c) /\ recent' = s /\ trimmed' = TRUE
    BY <2>2, <2>5, <1>1
  <2>7. /\ FindsOwnMask' /\ ComputedOnce' /\ ItemsMapped' /\ Shapes'
        /\ \A x \in DOMAIN items' : items'[x] \in ItemType
        /\ list' \in [first : Nat, last : Nat, size : Nat]
        /\ DOMAIN map' \subseteq Keys /\ \A k \in DOMAIN map' : map'[k] \in 1 .. created'
    BY <2>4, <2>6, <1>4
  <2>8. fault' = TRUE
    BY <2>4, <2>6 DEF Becomes
  <2>9. recent' \in Seq(1 .. created')
    <3>1. i \in 1 .. i
      BY <1>3, <1>5
    <3>2. s = <<i>>
      BY <2>1 DEF s
    <3> QED BY <3>1, <3>2, <2>6, <1>1
  <2>10. TypeOK'
    BY <2>6, <2>7, <2>8, <2>9, <1>5 DEF TypeOK, ItemType
  <2> QED BY <2>6, <2>7, <2>8, <2>10 DEF IInv
<1> QED
  BY <1>1, <1>7, <1>8 DEF IInv

-----------------------------------------------------------------------------
(* The theorems.                                                           *)

LEMMA NextIInv == IInv /\ [Next]_vars => IInv'
<1> SUFFICES ASSUME IInv, [Next]_vars PROVE IInv'
  OBVIOUS
<1>1. ASSUME NEW key \in Keys, Hit(key) PROVE IInv'
  BY <1>1, HitKeepsIInv
<1>2. ASSUME NEW key \in Keys, Miss(key) PROVE IInv'
  BY <1>2, MissKeepsIInv
<1>3. CASE RunQuery
  BY <1>3, RunQueryKeepsIInv
<1>4. CASE UNCHANGED vars
  BY <1>4 DEF vars, IInv, TypeOK, Shapes, FindsOwnMask, ComputedOnce, ItemsMapped,
              Ordered, Dangling, Linked, LastHasNoNext, Cache
<1> QED
  BY <1>1, <1>2, <1>3, <1>4 DEF Next

LEMMA AlwaysIInv == Spec => []IInv
<1> QED
  BY InitIInv, NextIInv, PTL DEF Spec

(* n steps of next from the first item lead to the item used as the n+1st  *)
(* last, and of prev from the last one to the n+1st first.                 *)
LEMMA WalksAre ==
  ASSUME Linked(Cache, recent), recent \in Seq(Nat), NEW n \in Nat, n < Len(recent)
  PROVE  Forward(n) = recent[n + 1] /\ Backward(n) = recent[Len(recent) - n]
<1> DEFINE L == Len(recent)
           F(g, m) == IF m = 0 THEN list.first ELSE items[g[m - 1]].next
           B(g, m) == IF m = 0 THEN list.last ELSE items[g[m - 1]].prev
           f == CHOOSE g : g = [m \in 0 .. n |-> F(g, m)]
           b == CHOOSE g : g = [m \in 0 .. n |-> B(g, m)]
           there == [m \in 0 .. n |-> recent[m + 1]]
           back == [m \in 0 .. n |-> recent[L - m]]
<1>1. L \in Nat /\ n < L /\ recent # <<>>
  BY EmptySeq
<1>2. Cache.items = items /\ Cache.list = list
  BY DEF Cache
<1>3. /\ list.first = recent[1] /\ list.last = recent[L]
      /\ \A m \in 1 .. L - 1 : items[recent[m]].next = recent[m + 1] /\ items[recent[m + 1]].prev = recent[m]
  BY <1>1, <1>2 DEF Linked
<1>4. Forward(n) = f[n] /\ Backward(n) = b[n]
  BY DEF Forward, Backward
<1>5. there = [m \in 0 .. n |-> F(there, m)]
  <2> SUFFICES ASSUME NEW m \in 0 .. n PROVE recent[m + 1] = F(there, m)
    OBVIOUS
  <2>1. CASE m = 0
    BY <2>1, <1>3
  <2>2. CASE m # 0
    <3>1. m - 1 \in 0 .. n /\ m \in 1 .. L - 1 /\ m - 1 + 1 = m
      BY <2>2, <1>1
    <3>2. there[m - 1] = recent[m]
      BY <3>1
    <3> QED BY <2>2, <3>1, <3>2, <1>3
  <2> QED BY <2>1, <2>2
<1>6. back = [m \in 0 .. n |-> B(back, m)]
  <2> SUFFICES ASSUME NEW m \in 0 .. n PROVE recent[L - m] = B(back, m)
    OBVIOUS
  <2>1. CASE m = 0
    BY <2>1, <1>1, <1>3
  <2>2. CASE m # 0
    <3>1. m - 1 \in 0 .. n /\ L - m \in 1 .. L - 1 /\ L - (m - 1) = L - m + 1
      BY <2>2, <1>1
    <3>2. back[m - 1] = recent[L - m + 1]
      BY <3>1
    <3> QED BY <2>2, <3>1, <3>2, <1>3
  <2> QED BY <2>1, <2>2
<1>7. there[n] = recent[n + 1] /\ back[n] = recent[L - n]
  OBVIOUS
<1> HIDE DEF there, back
<1>8. f = [m \in 0 .. n |-> F(f, m)]
  <2>1. \E g : g = [m \in 0 .. n |-> F(g, m)]
    BY <1>5, Zenon
  <2> QED BY <2>1, Zenon
<1>9. b = [m \in 0 .. n |-> B(b, m)]
  <2>1. \E g : g = [m \in 0 .. n |-> B(g, m)]
    BY <1>6, Zenon
  <2> QED BY <2>1, Zenon
<1> HIDE DEF f, b
<1> DEFINE S == {k \in Nat : k <= n => f[k] = there[k] /\ b[k] = back[k]}
<1>10. Nat \subseteq S
  <2>1. \A m \in 0 .. n : /\ f[m] = F(f, m) /\ there[m] = F(there, m)
                          /\ b[m] = B(b, m) /\ back[m] = B(back, m)
    <3>1. \A m \in 0 .. n : f[m] = F(f, m)
      BY <1>8, Zenon
    <3>2. \A m \in 0 .. n : there[m] = F(there, m)
      BY <1>5, Zenon
    <3>3. \A m \in 0 .. n : b[m] = B(b, m)
      BY <1>9, Zenon
    <3>4. \A m \in 0 .. n : back[m] = B(back, m)
      BY <1>6, Zenon
    <3> QED BY <3>1, <3>2, <3>3, <3>4
  <2>2. 0 \in S
    <3>1. 0 \in 0 .. n
      OBVIOUS
    <3> QED BY <2>1, <3>1
  <2>3. ASSUME NEW k \in Nat, k \in S PROVE k + 1 \in S
    <3> SUFFICES ASSUME k + 1 <= n PROVE f[k + 1] = there[k + 1] /\ b[k + 1] = back[k + 1]
      OBVIOUS
    <3>1. k + 1 \in 0 .. n /\ k + 1 # 0 /\ k + 1 - 1 = k /\ k <= n
      OBVIOUS
    <3>2. f[k] = there[k] /\ b[k] = back[k]
      BY <2>3, <3>1
    <3>3. /\ f[k + 1] = F(f, k + 1) /\ there[k + 1] = F(there, k + 1)
          /\ b[k + 1] = B(b, k + 1) /\ back[k + 1] = B(back, k + 1)
      BY <2>1, <3>1
    <3>4. /\ F(f, k + 1) = items[f[k]].next /\ F(there, k + 1) = items[there[k]].next
          /\ B(b, k + 1) = items[b[k]].prev /\ B(back, k + 1) = items[back[k]].prev
      BY <3>1
    <3> HIDE DEF F, B
    <3> QED BY <3>2, <3>3, <3>4
  <2> HIDE DEF S
  <2> QED BY <2>2, <2>3, SetInduction
<1> QED
  BY <1>4, <1>7, <1>10

LEMMA IInvOrder == IInv => RecencyOrder
<1> SUFFICES ASSUME IInv, ~trimmed
             PROVE  /\ ~fault /\ list.size = Len(recent)
                    /\ \A n \in 1 .. Len(recent) :
                         Forward(n - 1) = recent[n] /\ Backward(n - 1) = recent[Len(recent) + 1 - n]
  BY DEF RecencyOrder
<1>1. ~fault /\ Linked(Cache, recent) /\ recent \in Seq(Nat) /\ list.size = Len(recent)
  BY CacheIs DEF IInv, Ordered, Linked
<1>2. ASSUME NEW n \in 1 .. Len(recent)
      PROVE  Forward(n - 1) = recent[n] /\ Backward(n - 1) = recent[Len(recent) + 1 - n]
  <2>1. Len(recent) \in Nat /\ n - 1 \in Nat /\ n - 1 < Len(recent) /\ n - 1 + 1 = n
        /\ Len(recent) - (n - 1) = Len(recent) + 1 - n
    BY <1>1
  <2>2. Forward(n - 1) = recent[n - 1 + 1] /\ Backward(n - 1) = recent[Len(recent) - (n - 1)]
    BY <2>1, <1>1, WalksAre
  <2> QED BY <2>1, <2>2
<1> QED
  BY <1>1, <1>2

(* The cache, its list and the masks of a query have their shape, also     *)
(* after the budget was enforced.                                          *)
THEOREM TypeCorrect == Spec => []TypeOK
<1>1. IInv => TypeOK
  BY DEF IInv
<1> QED
  BY <1>1, AlwaysIInv, PTL

(* Until the budget is first enforced, the list is walked in the order of  *)
(* the last use from both ends, over any history of insertions and moves   *)
(* to the front: no pointer that remove leaves stale is followed.          *)
THEOREM OrderedByUse == Spec => []RecencyOrder
<1> QED
  BY IInvOrder, AlwaysIInv, PTL

(* A lookup finds a mask that is in the cache, of the key asked for.       *)
THEOREM LookupsFindTheirMask == Spec => []FindsOwnMask
<1>1. IInv => FindsOwnMask
  BY DEF IInv
<1> QED
  BY <1>1, AlwaysIInv, PTL

(* No mask but a region's is computed while the cache has it.              *)
THEOREM MasksComputedOnce == Spec => []ComputedOnce
<1>1. IInv => ComputedOnce
  BY DEF IInv
<1> QED
  BY <1>1, AlwaysIInv, PTL
=============================================================================
