--------------------------- MODULE CubeWalkProofs ---------------------------
(***************************************************************************)
(* The way down of an insertion: each step of the walk in a quadtree, from *)
(* an insertion under way (Going) leads to another one, in which the walk  *)
(* is further down or over.                                                *)
(***************************************************************************)
EXTENDS CubeHeapProofs

-----------------------------------------------------------------------------
(* Where the insertion is, and what is ahead of it.                        *)

(* The calls 1 to n are on their way up, and not at the end of the path.   *)
Levels(st, a, n) == \A i \in 1 .. n : st.calls[i].level \in -1 .. Len(a[i]) - 1

Inside(c, b) == Len(c) >= Len(b) /\ \A i \in 1 .. Len(b) : c[i] = b[i]

LEMMA HereIs ==
  ASSUME DimsAssumption, NEW a \in Addresses, NEW st, NEW j \in 1 .. Len(Kind) + 1,
         Levels(st, a, j - 1)
  PROVE  /\ Here(st, a, j) \in Bin /\ Len(Here(st, a, j)) = j - 1
         /\ \A i \in 1 .. j - 1 :
              /\ Here(st, a, j)[i] = Pre(a[i], st.calls[i].level + 1)
              /\ Here(st, a, j)[i] \in Path
              /\ Len(Here(st, a, j)[i]) = st.calls[i].level + 1
              /\ Starts(Here(st, a, j)[i], a[i])
<1>1. ASSUME NEW i \in 1 .. j - 1
      PROVE  LET q == Pre(a[i], st.calls[i].level + 1)
             IN  q \in Path /\ Len(q) = st.calls[i].level + 1 /\ Starts(q, a[i])
  <2>1. i \in Dims
    BY DimsAre
  <2>2. a[i] \in Path /\ Len(a[i]) \in Nat
    BY <2>1, AddressIs
  <2>3. st.calls[i].level + 1 \in 0 .. Len(a[i])
    BY <2>2 DEF Levels
  <2> QED BY <2>2, <2>3, PreIs, PreStarts DEF Path
<1>2. j - 1 \in Nat
  BY DimsAre
<1>3. Here(st, a, j) = [i \in 1 .. j - 1 |-> Pre(a[i], st.calls[i].level + 1)]
  BY DEF Here
<1>4. Here(st, a, j) \in Bin /\ Len(Here(st, a, j)) = j - 1
  BY <1>1, <1>2, <1>3 DEF Bin
<1> QED BY <1>1, <1>3, <1>4

LEMMA HereSame ==
  ASSUME NEW a, NEW st, NEW st2, NEW j \in Nat,
         \A i \in 1 .. j - 1 : st2.calls[i].level = st.calls[i].level
  PROVE  Here(st2, a, j) = Here(st, a, j)
BY DEF Here

LEMMA HereNext ==
  ASSUME DimsAssumption, NEW a \in Addresses, NEW st, NEW j \in Dims, Levels(st, a, j)
  PROVE  Here(st, a, j + 1) = Append(Here(st, a, j), Pre(a[j], st.calls[j].level + 1))
<1>1. j \in 1 .. Len(Kind) /\ Len(Kind) \in Nat
  BY DimsAre
<1>2. Levels(st, a, j - 1) /\ j \in 1 .. Len(Kind) + 1 /\ j + 1 \in 1 .. Len(Kind) + 1
      /\ j + 1 - 1 = j
  BY <1>1 DEF Levels
<1> DEFINE b == Here(st, a, j)
           c == Here(st, a, j + 1)
           q == Pre(a[j], st.calls[j].level + 1)
<1>3. b \in Bin /\ Len(b) = j - 1 /\ \A i \in 1 .. j - 1 : b[i] = Pre(a[i], st.calls[i].level + 1)
  BY <1>2, HereIs
<1>4. c \in Bin /\ Len(c) = j
      /\ \A i \in 1 .. j : c[i] = Pre(a[i], st.calls[i].level + 1) /\ c[i] \in Path
  <2>1. /\ c \in Bin /\ Len(c) = j + 1 - 1
        /\ \A i \in 1 .. j + 1 - 1 : c[i] = Pre(a[i], st.calls[i].level + 1) /\ c[i] \in Path
    BY <1>2, HereIs
  <2> QED BY <2>1, <1>2
<1>5. q \in Path /\ c[j] = q
  BY <1>1, <1>4
<1> HIDE DEF b, c, q
<1>6. /\ Append(b, q) \in Bin /\ Len(Append(b, q)) = j /\ Append(b, q)[j] = q
      /\ \A i \in 1 .. j - 1 : Append(b, q)[i] = b[i]
  <2>1. Len(b) + 1 = j
    BY <1>1, <1>3
  <2> QED BY <2>1, <1>3, <1>5, AppendIs DEF Bin
<1>7. \A i \in 1 .. j : Append(b, q)[i] = c[i]
  BY <1>1, <1>3, <1>4, <1>5, <1>6
<1>8. Append(b, q) = c
  BY <1>1, <1>4, <1>6, <1>7 DEF Bin
<1> QED BY <1>8 DEF b, c, q

(* The conditions on the levels of the calls.                              *)
UpTo(st, b, n) == \A j \in 1 .. n : Len(b[j]) <= st.calls[j].level + 1

Now(st, b, q) ==
  \/ st.d <= Len(b) /\ Len(b[st.d]) <= st.calls[st.d].level
  \/ st.calls[st.d].walking /\ (Len(b) = st.d - 1 => Len(q) > st.calls[st.d].level)

Before(st, b) ==
  \E i \in 1 .. st.d - 1 : i <= Len(b) /\ Len(b[i]) <= st.calls[i].level /\ UpTo(st, b, i - 1)

LEMMA AheadIs ==
  ASSUME NEW st, st.d \in Nat \ {0}, NEW a, NEW b \in Bin, NEW q \in Path
  PROVE  <<b, q>> \in Ahead(st, a) <=>
           /\ Covers(b, q, a)
           /\ Before(st, b) \/ (Len(b) >= st.d - 1 /\ UpTo(st, b, st.d - 1) /\ Now(st, b, q))
<1>1. <<b, q>> \in Ahead(st, a) <=> Covers(b, q, a) /\ Comes(st, b, q)
  BY DEF Ahead
<1>2. Comes(st, b, q) <=>
        \/ \E i \in 1 .. st.d :
             i <= Len(b) /\ Len(b[i]) <= st.calls[i].level /\ UpTo(st, b, i - 1)
        \/ /\ st.calls[st.d].walking /\ Len(b) >= st.d - 1 /\ UpTo(st, b, st.d - 1)
           /\ Len(b) = st.d - 1 => Len(q) > st.calls[st.d].level
  BY DEF Comes, UpTo
<1>3. (\E i \in 1 .. st.d :
          i <= Len(b) /\ Len(b[i]) <= st.calls[i].level /\ UpTo(st, b, i - 1))
      <=> \/ Before(st, b)
          \/ /\ st.d <= Len(b) /\ Len(b[st.d]) <= st.calls[st.d].level
             /\ UpTo(st, b, st.d - 1)
  BY SMTT(20) DEF Before
<1>4. Len(b) \in Nat
  BY DEF Bin
<1> QED BY <1>1, <1>2, <1>3, <1>4 DEF Now

(* What is ahead and not before is in the tree, or inside it.              *)
LEMMA AheadHere ==
  ASSUME DimsAssumption, NEW a \in Addresses, NEW st, st.d \in Dims, Levels(st, a, st.d - 1),
         NEW b \in Bin, NEW q \in Path, Covers(b, q, a),
         Len(b) >= st.d - 1, UpTo(st, b, st.d - 1), ~Before(st, b)
  PROVE  Inside(b, Here(st, a, st.d))
<1>1. st.d \in 1 .. Len(Kind) /\ st.d \in 1 .. Len(Kind) + 1 /\ Len(Kind) \in Nat
  BY DimsAre
<1> DEFINE H == Here(st, a, st.d)
<1>2. H \in Bin /\ Len(H) = st.d - 1
      /\ \A i \in 1 .. st.d - 1 : H[i] = Pre(a[i], st.calls[i].level + 1)
  BY <1>1, HereIs
<1> HIDE DEF H
<1>3. Len(b) \in Nat
  BY DEF Bin
<1>4. ASSUME NEW i \in 1 .. st.d - 1 PROVE b[i] = H[i]
  <2>1. i <= Len(b) /\ i \in 1 .. Len(b)
    BY <1>1, <1>3
  <2>2. UpTo(st, b, i - 1)
    BY <1>1 DEF UpTo
  <2>3. ~ (Len(b[i]) <= st.calls[i].level)
    BY <2>1, <2>2 DEF Before
  <2>4. Len(b[i]) <= st.calls[i].level + 1
    BY DEF UpTo
  <2>5. b[i] \in Path /\ Len(b[i]) \in Nat
    BY <2>1 DEF Bin, Path
  <2>6. st.calls[i].level \in Int
    BY DEF Levels
  <2>7. Len(b[i]) = st.calls[i].level + 1
    BY <2>3, <2>4, <2>5, <2>6
  <2>8. b[i] = Pre(a[i], Len(b[i]))
    BY <2>1 DEF Covers, Starts
  <2> QED BY <2>7, <2>8, <1>2
<1>5. Inside(b, H)
  BY <1>2, <1>4 DEF Inside
<1> QED BY <1>5 DEF H

LEMMA InsideAhead ==
  ASSUME DimsAssumption, NEW a \in Addresses, NEW st, st.d \in Dims, Levels(st, a, st.d - 1),
         NEW b \in Bin, NEW q \in Path, Covers(b, q, a),
         Inside(b, Here(st, a, st.d)), Now(st, b, q)
  PROVE  <<b, q>> \in Ahead(st, a)
<1>1. st.d \in 1 .. Len(Kind) /\ st.d \in 1 .. Len(Kind) + 1 /\ Len(Kind) \in Nat
  BY DimsAre
<1>2. Len(Here(st, a, st.d)) = st.d - 1
      /\ \A i \in 1 .. st.d - 1 : Len(Here(st, a, st.d)[i]) = st.calls[i].level + 1
  BY <1>1, HereIs
<1>3. Len(b) >= st.d - 1 /\ \A i \in 1 .. st.d - 1 : b[i] = Here(st, a, st.d)[i]
  BY <1>2 DEF Inside
<1>4. UpTo(st, b, st.d - 1)
  <2> SUFFICES ASSUME NEW i \in 1 .. st.d - 1 PROVE Len(b[i]) <= st.calls[i].level + 1
    BY DEF UpTo
  <2>1. st.calls[i].level \in Int
    BY DEF Levels
  <2> QED BY <2>1, <1>2, <1>3
<1> QED BY <1>1, <1>3, <1>4, AheadIs

(* What a step of the innermost call leaves behind.                        *)
LEMMA Leaving ==
  ASSUME DimsAssumption, NEW a \in Addresses, NEW st, st.d \in Dims, Levels(st, a, st.d - 1),
         NEW st2, st2.d = st.d, \A i \in 1 .. st.d - 1 : st2.calls[i].level = st.calls[i].level,
         NEW b \in Bin, NEW q \in Path,
         <<b, q>> \in Ahead(st, a), <<b, q>> \notin Ahead(st2, a)
  PROVE  /\ Inside(b, Here(st, a, st.d)) /\ Covers(b, q, a)
         /\ Now(st, b, q) /\ ~Now(st2, b, q)
<1>1. st.d \in Nat \ {0}
  BY DimsAre
<1>2. Before(st2, b) <=> Before(st, b)
  <2>1. \A i \in 1 .. st.d - 1 : UpTo(st2, b, i - 1) <=> UpTo(st, b, i - 1)
    BY SMTT(20), <1>1 DEF UpTo
  <2> QED BY <2>1 DEF Before
<1>3. UpTo(st2, b, st.d - 1) <=> UpTo(st, b, st.d - 1)
  BY DEF UpTo
<1>4. /\ Covers(b, q, a)
      /\ Before(st, b) \/ (Len(b) >= st.d - 1 /\ UpTo(st, b, st.d - 1) /\ Now(st, b, q))
  BY <1>1, AheadIs
<1>5. ~ (Before(st2, b) \/ (Len(b) >= st.d - 1 /\ UpTo(st2, b, st.d - 1) /\ Now(st2, b, q)))
  BY <1>1, <1>4, AheadIs
<1> QED BY <1>2, <1>3, <1>4, <1>5, AheadHere

(* What is ahead for a bin is ahead for those it is within.                *)
LEMMA AheadCoarser ==
  ASSUME DimsAssumption, NEW a \in Addresses, NEW st, st.d \in Dims,
         \A i \in 1 .. st.d : st.calls[i].level \in Int,
         NEW b \in Bin, NEW c \in Bin, NEW q \in Path, Within(c, b), <<c, q>> \in Ahead(st, a)
  PROVE  <<b, q>> \in Ahead(st, a)
<1>1. st.d \in Nat \ {0} /\ st.d \in 1 .. Len(Kind)
  BY DimsAre
<1>2. /\ Covers(c, q, a)
      /\ Before(st, c) \/ (Len(c) >= st.d - 1 /\ UpTo(st, c, st.d - 1) /\ Now(st, c, q))
  BY <1>1, AheadIs
<1>3. Len(b) = Len(c) /\ Len(b) \in Nat
  BY DEF Within, Bin
<1>4. ASSUME NEW i \in 1 .. Len(b)
      PROVE  /\ b[i] \in Path /\ c[i] \in Path /\ Starts(b[i], c[i])
             /\ Len(b[i]) \in Nat /\ Len(c[i]) \in Nat /\ Len(b[i]) <= Len(c[i])
  <2>1. b[i] \in Path /\ c[i] \in Path
    BY <1>3 DEF Bin
  <2>2. Starts(b[i], c[i])
    BY DEF Within, Bin
  <2> QED BY <2>1, <2>2 DEF Starts, Path
<1>5. Covers(b, q, a)
  <2>1. ASSUME NEW i \in 1 .. Len(b) PROVE Starts(b[i], a[i])
    <3>1. Starts(c[i], a[i])
      BY <1>2, <1>3 DEF Covers
    <3>2. i \in Dims
      <4>1. Len(c) + 1 \in Dims
        BY <1>2 DEF Covers
      <4> QED BY <4>1, <1>3, DimsAre
    <3>3. a[i] \in Path
      BY <3>2, AddressIs
    <3> QED BY <3>1, <3>3, <1>4, StartsTransitive DEF Path
  <2> QED BY <2>1, <1>2, <1>3 DEF Covers
<1>6. ASSUME NEW n \in 0 .. st.d, n <= Len(b), UpTo(st, c, n) PROVE UpTo(st, b, n)
  <2> SUFFICES ASSUME NEW j \in 1 .. n PROVE Len(b[j]) <= st.calls[j].level + 1
    BY DEF UpTo
  <2>1. Len(c[j]) <= st.calls[j].level + 1
    BY <1>6 DEF UpTo
  <2>2. j \in 1 .. Len(b) /\ j \in 1 .. st.d
    BY <1>6, <1>3, <1>1
  <2>3. st.calls[j].level + 1 \in Int
    BY <2>2
  <2> QED BY <2>1, <2>2, <2>3, <1>4
<1>7. ASSUME NEW i \in 1 .. st.d, i <= Len(c), Len(c[i]) <= st.calls[i].level
      PROVE  Len(b[i]) <= st.calls[i].level
  <2>1. i \in 1 .. Len(b)
    BY <1>1, <1>3, <1>7
  <2>2. st.calls[i].level \in Int
    OBVIOUS
  <2> QED BY <2>1, <2>2, <1>4, <1>7
<1>8. CASE Before(st, c)
  <2>1. PICK i \in 1 .. st.d - 1 :
          i <= Len(c) /\ Len(c[i]) <= st.calls[i].level /\ UpTo(st, c, i - 1)
    BY <1>8 DEF Before
  <2>2. i \in 1 .. st.d /\ i - 1 \in 0 .. st.d /\ i - 1 <= Len(b) /\ i <= Len(b)
    BY <2>1, <1>1, <1>3
  <2>3. Len(b[i]) <= st.calls[i].level /\ UpTo(st, b, i - 1)
    BY <2>1, <2>2, <1>6, <1>7
  <2>4. Before(st, b)
    BY <2>2, <2>3 DEF Before
  <2> QED BY <2>4, <1>1, <1>5, AheadIs
<1>9. CASE Len(c) >= st.d - 1 /\ UpTo(st, c, st.d - 1) /\ Now(st, c, q)
  <2>1. UpTo(st, b, st.d - 1)
    BY <1>1, <1>3, <1>6, <1>9
  <2>2. Now(st, b, q)
    BY SMTT(20), <1>1, <1>3, <1>7, <1>9 DEF Now
  <2> QED BY <2>1, <2>2, <1>1, <1>3, <1>5, <1>9, AheadIs
<1> QED BY <1>2, <1>8, <1>9

(* The trees that the one of the call is part of are still ahead.          *)
LEMMA CoarserAhead ==
  ASSUME DimsAssumption, NEW a \in Addresses, NEW st, st.d \in Dims, Levels(st, a, st.d - 1),
         NEW b \in Bin, NEW q \in Path, Within(Here(st, a, st.d), b), b # Here(st, a, st.d),
         Starts(q, a[st.d])
  PROVE  <<b, q>> \in Ahead(st, a)
<1>1. st.d \in 1 .. Len(Kind) /\ st.d \in 1 .. Len(Kind) + 1 /\ Len(Kind) \in Nat
      /\ st.d \in Nat \ {0}
  BY DimsAre
<1> DEFINE H == Here(st, a, st.d)
<1>2. H \in Bin /\ Len(H) = st.d - 1
      /\ \A i \in 1 .. st.d - 1 : /\ H[i] \in Path /\ Len(H[i]) = st.calls[i].level + 1
                                  /\ Starts(H[i], a[i])
  BY <1>1, HereIs
<1>3. Within(H, b) /\ b # H
  OBVIOUS
<1> HIDE DEF H
<1>4. Len(b) = st.d - 1
  BY <1>2, <1>3 DEF Within
<1>5. ASSUME NEW i \in 1 .. st.d - 1
      PROVE  /\ b[i] \in Path /\ Starts(b[i], H[i]) /\ st.calls[i].level \in Int
             /\ Len(b[i]) \in Nat /\ Len(b[i]) <= st.calls[i].level + 1
  <2>1. b[i] \in Path /\ Starts(b[i], H[i])
    BY <1>3, <1>4 DEF Within, Bin
  <2>2. Len(b[i]) <= Len(H[i])
    BY <2>1 DEF Starts
  <2>3. st.calls[i].level \in Int
    BY DEF Levels
  <2> QED BY <2>1, <2>2, <2>3, <1>2 DEF Path
<1>6. PICK j \in 1 .. st.d - 1 : b[j] # H[j]
  BY <1>2, <1>3, <1>4 DEF Bin
<1>7. Len(b[j]) <= st.calls[j].level
  <2>1. Len(b[j]) # Len(H[j])
    <3> SUFFICES ASSUME Len(b[j]) = Len(H[j]) PROVE FALSE
      OBVIOUS
    <3>1. b[j] = Pre(H[j], Len(H[j]))
      BY <1>5 DEF Starts
    <3>2. Pre(H[j], Len(H[j])) = H[j]
      BY <1>2, PreEnds DEF Path
    <3> QED BY <3>1, <3>2, <1>6
  <2>2. Len(H[j]) = st.calls[j].level + 1
    BY <1>2
  <2> QED BY <2>1, <2>2, <1>5
<1>8. Before(st, b)
  <2>1. UpTo(st, b, j - 1)
    BY <1>1, <1>5 DEF UpTo
  <2> QED BY <2>1, <1>1, <1>4, <1>7 DEF Before
<1>9. Covers(b, q, a)
  <2>1. ASSUME NEW i \in 1 .. Len(b) PROVE Starts(b[i], a[i])
    <3>1. i \in Dims /\ i \in 1 .. st.d - 1
      BY <1>1, <1>4, DimsAre
    <3>2. a[i] \in Path
      BY <3>1, AddressIs
    <3>3. b[i] \in Path /\ H[i] \in Path /\ Starts(b[i], H[i]) /\ Starts(H[i], a[i])
      BY <3>1, <1>2, <1>5
    <3> QED BY <3>2, <3>3, StartsTransitive DEF Path
  <2>2. Len(b) + 1 = st.d
    BY <1>1, <1>4
  <2> QED BY <2>1, <2>2 DEF Covers
<1> QED BY <1>1, <1>8, <1>9, AheadIs

(* The finer trees are not.                                                *)
LEMMA FinerNotAhead ==
  ASSUME DimsAssumption, NEW a \in Addresses, NEW st, st.d \in Dims, Levels(st, a, st.d - 1),
         NEW c \in Bin, NEW q \in Path, Finer(c, Here(st, a, st.d))
  PROVE  <<c, q>> \notin Ahead(st, a)
<1>1. st.d \in 1 .. Len(Kind) /\ st.d \in 1 .. Len(Kind) + 1 /\ Len(Kind) \in Nat
      /\ st.d \in Nat \ {0}
  BY DimsAre
<1> DEFINE H == Here(st, a, st.d)
<1>2. H \in Bin /\ Len(H) = st.d - 1
      /\ \A i \in 1 .. st.d - 1 : H[i] \in Path /\ Len(H[i]) = st.calls[i].level + 1
  BY <1>1, HereIs
<1>3. Within(c, H) /\ Len(H) \in Nat \ {0} /\ Len(c) = Len(H) /\ Len(c[Len(H)]) > Len(H[Len(H)])
  BY <1>2, FinerIs
<1> HIDE DEF H
<1>4. ASSUME NEW i \in 1 .. st.d - 1
      PROVE  Len(c[i]) \in Nat /\ st.calls[i].level \in Int /\ Len(c[i]) >= st.calls[i].level + 1
  <2>1. Starts(H[i], c[i]) /\ c[i] \in Path
    BY <1>2, <1>3 DEF Within, Bin
  <2>2. st.calls[i].level \in Int
    BY DEF Levels
  <2>3. Len(H[i]) = st.calls[i].level + 1 /\ Len(H[i]) <= Len(c[i])
    BY <2>1, <1>2 DEF Starts
  <2> QED BY <2>1, <2>2, <2>3 DEF Path
<1>5. ~Before(st, c)
  <2> SUFFICES ASSUME NEW i \in 1 .. st.d - 1, Len(c[i]) <= st.calls[i].level PROVE FALSE
    BY DEF Before
  <2> QED BY <1>4
<1>6. ~UpTo(st, c, st.d - 1)
  <2>1. Len(H) \in 1 .. st.d - 1
    BY <1>1, <1>2, <1>3
  <2>2. Len(c[Len(H)]) > st.calls[Len(H)].level + 1
    BY <2>1, <1>2, <1>3, <1>4
  <2>3. ~ (Len(c[Len(H)]) <= st.calls[Len(H)].level + 1)
    BY <2>1, <2>2, <1>4
  <2> QED BY <2>1, <2>3 DEF UpTo
<1> QED BY <1>1, <1>5, <1>6, AheadIs

-----------------------------------------------------------------------------
(* Sharing: an object with an only child has the content of that child,    *)
(* except where the insertion still comes by on its way up.                *)

KidContent(h, x, k) ==
  IF h[x].kind = "flat" THEN h[x].kids[k].c ELSE h[h[x].kids[k].c].self.c
Shares(h, x) ==
  h[x].kind \in {"flat", "node"} =>
    \A k \in DOMAIN h[x].kids :
      DOMAIN h[x].kids = {k} => h[x].self = Holder(KidContent(h, x, k), FALSE)

PlaceOf(spot) == <<spot.tree, spot.path>>
SharesBut(h, P, V) == \A x \in DOMAIN P : PlaceOf(P[x]) \in V \/ Shares(h, x)

(* The i-th call comes by on its way up.                                   *)
Open(st, i, b, q) ==
  \/ i = st.d /\ st.calls[i].walking
  \/ IF Len(b) = i - 1 THEN Len(q) <= st.calls[i].level ELSE Len(b[i]) <= st.calls[i].level
Pending(st, i, b, q) == Len(b) >= i - 1 /\ UpTo(st, b, i - 1) /\ Open(st, i, b, q)
Due(st, a) ==
  { w \in Bin \X Path :
      Covers(w[1], w[2], a) /\ \E i \in 1 .. st.d : Pending(st, i, w[1], w[2]) }
Settled(st, P, a) == SharesBut(st.heap, P, Due(st, a))

(* Where a node is in V, those that it may be a child of are, too.         *)
Upwards(V) ==
  \A b \in Bin, c \in Bin, q \in Path, k \in Names :
    Within(c, b) /\ <<c, Append(q, k)>> \in V => <<b, q>> \in V

LEMMA AheadDue ==
  ASSUME NEW st, st.d \in Nat, NEW a
  PROVE  Ahead(st, a) \subseteq Due(st, a)
<1> SUFFICES ASSUME NEW b \in Bin, NEW q \in Path, <<b, q>> \in Ahead(st, a)
             PROVE  <<b, q>> \in Due(st, a)
  BY DEF Ahead
<1>1. Covers(b, q, a) /\ Comes(st, b, q) /\ Len(b) \in Nat
  BY DEF Ahead, Bin
<1>2. CASE \E i \in 1 .. st.d :
             i <= Len(b) /\ Len(b[i]) <= st.calls[i].level /\ UpTo(st, b, i - 1)
  <2>1. PICK i \in 1 .. st.d :
          i <= Len(b) /\ Len(b[i]) <= st.calls[i].level /\ UpTo(st, b, i - 1)
    BY <1>2
  <2>2. Pending(st, i, b, q)
    BY <2>1, <1>1 DEF Pending, Open
  <2> QED BY <2>2, <1>1 DEF Due
<1>3. CASE st.d # 0 /\ st.calls[st.d].walking /\ Len(b) >= st.d - 1 /\ UpTo(st, b, st.d - 1)
  <2>1. Pending(st, st.d, b, q) /\ st.d \in 1 .. st.d
    BY <1>3 DEF Pending, Open
  <2> QED BY <2>1, <1>1 DEF Due
<1> QED BY <1>1, <1>2, <1>3 DEF Comes, UpTo

LEMMA DueUpwards ==
  ASSUME DimsAssumption, NEW a \in Addresses, NEW st, st.d \in Nat,
         \A i \in 1 .. st.d : st.calls[i].level \in Int
  PROVE  Upwards(Due(st, a))
<1> SUFFICES ASSUME NEW b \in Bin, NEW c \in Bin, NEW q \in Path, NEW k \in Names,
                    Within(c, b), <<c, Append(q, k)>> \in Due(st, a)
             PROVE  <<b, q>> \in Due(st, a)
  BY DEF Upwards
<1>1. /\ Append(q, k) \in Path /\ Len(q) \in Nat /\ Len(Append(q, k)) = Len(q) + 1
      /\ \A i \in 1 .. Len(q) : Append(q, k)[i] = q[i]
  BY AppendIs DEF Path
<1>2. PICK i \in 1 .. st.d : Covers(c, Append(q, k), a) /\ Pending(st, i, c, Append(q, k))
  BY DEF Due
<1>3. Len(b) = Len(c) /\ Len(b) \in Nat
  BY DEF Within, Bin
<1>4. ASSUME NEW j \in 1 .. Len(b)
      PROVE  /\ b[j] \in Path /\ c[j] \in Path /\ Starts(b[j], c[j])
             /\ Len(b[j]) \in Nat /\ Len(c[j]) \in Nat /\ Len(b[j]) <= Len(c[j])
  <2>1. b[j] \in Path /\ c[j] \in Path
    BY <1>3 DEF Bin
  <2>2. Starts(b[j], c[j])
    BY DEF Within, Bin
  <2> QED BY <2>1, <2>2 DEF Starts, Path
<1>5. Covers(b, q, a)
  <2>0. Len(b) + 1 \in Dims
    BY <1>2, <1>3 DEF Covers
  <2>1. ASSUME NEW j \in 1 .. Len(b) PROVE Starts(b[j], a[j])
    <3>1. Starts(c[j], a[j])
      BY <1>2, <1>3 DEF Covers
    <3>2. a[j] \in Path
      BY <2>0, <1>3, DimsAre, AddressIs
    <3> QED BY <3>1, <3>2, <1>4, StartsTransitive DEF Path
  <2>2. Starts(q, a[Len(b) + 1])
    <3>1. a[Len(b) + 1] \in Path
      BY <2>0, AddressIs
    <3>2. Starts(Append(q, k), a[Len(b) + 1])
      BY <1>2, <1>3 DEF Covers
    <3>3. Starts(q, Append(q, k))
      <4>1. q \in Seq(Names) /\ Append(q, k) \in Seq(Names)
        BY <1>1 DEF Path
      <4>2. Len(q) <= Len(Append(q, k)) /\ \A j \in 1 .. Len(q) : q[j] = Append(q, k)[j]
        BY <1>1
      <4> QED BY <4>1, <4>2, StartsIs
    <3> QED BY <3>1, <3>2, <3>3, <1>1, StartsTransitive DEF Path
  <2> QED BY <2>0, <2>1, <2>2 DEF Covers
<1>6. Pending(st, i, b, q)
  <2>1. Len(c) >= i - 1 /\ UpTo(st, c, i - 1) /\ Open(st, i, c, Append(q, k))
    BY <1>2 DEF Pending
  <2>2. UpTo(st, b, i - 1)
    <3> SUFFICES ASSUME NEW j \in 1 .. i - 1 PROVE Len(b[j]) <= st.calls[j].level + 1
      BY DEF UpTo
    <3>1. j \in 1 .. Len(b) /\ st.calls[j].level \in Int
      BY <2>1, <1>3
    <3>2. Len(c[j]) <= st.calls[j].level + 1
      BY <2>1 DEF UpTo
    <3> QED BY SMTT(20), <3>1, <3>2, <1>4
  <2>3. Open(st, i, b, q)
    <3>1. st.calls[i].level \in Int
      OBVIOUS
    <3>2. CASE Len(b) = i - 1
      <4>1. Len(c) = i - 1
        BY <3>2, <1>3
      <4>2. (i = st.d /\ st.calls[i].walking) \/ Len(q) + 1 <= st.calls[i].level
        BY <4>1, <2>1, <1>1 DEF Open
      <4>3. Len(q) + 1 <= st.calls[i].level => Len(q) <= st.calls[i].level
        BY <3>1, <1>1
      <4> QED BY <3>2, <4>2, <4>3 DEF Open
    <3>3. CASE Len(b) # i - 1
      <4>1. i \in 1 .. Len(b)
        <5>1. i \in Int /\ i >= 1 /\ Len(b) >= i - 1
          BY <2>1, <1>3
        <5> QED BY <5>1, <3>3, <1>3
      <4>2. Len(b[i]) \in Nat /\ Len(c[i]) \in Nat /\ Len(b[i]) <= Len(c[i])
        BY <4>1, <1>4
      <4> QED BY <3>1, <3>3, <4>2, <2>1, <1>3 DEF Open
    <3> QED BY <3>2, <3>3
  <2> QED BY <2>1, <2>2, <2>3, <1>3 DEF Pending
<1> QED BY <1>5, <1>6 DEF Due

LEMMA InsideDue ==
  ASSUME DimsAssumption, NEW a \in Addresses, NEW st, st.d \in Dims, Levels(st, a, st.d - 1),
         NEW b \in Bin, NEW q \in Path, Covers(b, q, a),
         Inside(b, Here(st, a, st.d)), Open(st, st.d, b, q)
  PROVE  <<b, q>> \in Due(st, a)
<1>1. st.d \in 1 .. Len(Kind) /\ st.d \in 1 .. Len(Kind) + 1 /\ Len(Kind) \in Nat /\ st.d \in 1 .. st.d
  BY DimsAre
<1> DEFINE H == Here(st, a, st.d)
<1>2. H \in Bin /\ Len(H) = st.d - 1
      /\ \A i \in 1 .. st.d - 1 : Len(H[i]) = st.calls[i].level + 1
  BY <1>1, HereIs
<1>3. Len(b) >= st.d - 1 /\ \A i \in 1 .. st.d - 1 : b[i] = H[i]
  BY <1>2 DEF Inside
<1>4. UpTo(st, b, st.d - 1)
  <2> SUFFICES ASSUME NEW j \in 1 .. st.d - 1 PROVE Len(b[j]) <= st.calls[j].level + 1
    BY DEF UpTo
  <2>1. st.calls[j].level \in Int
    BY DEF Levels
  <2> QED BY <2>1, <1>2, <1>3
<1>5. Pending(st, st.d, b, q)
  BY <1>3, <1>4 DEF Pending
<1> QED BY <1>1, <1>5 DEF Due

(* What a step of the innermost call is through with.                      *)
LEMMA DueLess ==
  ASSUME DimsAssumption, NEW a \in Addresses, NEW st, st.d \in Dims, Levels(st, a, st.d - 1),
         NEW st2, st2.d = st.d, \A j \in 1 .. st.d - 1 : st2.calls[j] = st.calls[j],
         NEW b \in Bin, NEW q \in Path, <<b, q>> \in Due(st, a), <<b, q>> \notin Due(st2, a)
  PROVE  /\ Inside(b, Here(st, a, st.d)) /\ Covers(b, q, a)
         /\ Open(st, st.d, b, q) /\ ~Open(st2, st.d, b, q)
<1>1. st.d \in Nat \ {0} /\ Len(b) \in Nat
  BY DimsAre DEF Bin
<1>2. PICK i \in 1 .. st.d : Covers(b, q, a) /\ Pending(st, i, b, q)
  BY DEF Due
<1>3. \A j \in 1 .. st.d : ~Pending(st2, j, b, q)
  BY <1>2 DEF Due
<1>4. ASSUME NEW n \in 1 .. st.d PROVE UpTo(st2, b, n - 1) <=> UpTo(st, b, n - 1)
  <2>1. \A j \in 1 .. n - 1 : j \in 1 .. st.d - 1
    BY <1>1
  <2>2. \A j \in 1 .. n - 1 : st2.calls[j] = st.calls[j]
    BY <2>1
  <2> QED BY <2>2 DEF UpTo
<1>5. ASSUME NEW j \in 1 .. st.d - 1 PROVE ~Pending(st, j, b, q)
  <2>1. j # st.d /\ j \in 1 .. st.d /\ st2.calls[j] = st.calls[j]
    BY <1>1
  <2>2. ~Pending(st2, j, b, q) /\ (UpTo(st2, b, j - 1) <=> UpTo(st, b, j - 1))
    BY <2>1, <1>3, <1>4
  <2> QED BY <2>1, <2>2 DEF Pending, Open
<1>6. i = st.d
  BY <1>1, <1>2, <1>5
<1>7. Len(b) >= st.d - 1 /\ UpTo(st, b, st.d - 1) /\ Open(st, st.d, b, q)
  BY <1>2, <1>6 DEF Pending
<1>8. ~Open(st2, st.d, b, q)
  <2>1. UpTo(st2, b, st.d - 1) /\ st.d \in 1 .. st.d
    BY <1>1, <1>4, <1>7
  <2> QED BY <2>1, <1>3, <1>7 DEF Pending
<1>9. ~Before(st, b)
  <2> SUFFICES ASSUME NEW j \in 1 .. st.d - 1, j <= Len(b), Len(b[j]) <= st.calls[j].level,
                      UpTo(st, b, j - 1)
               PROVE  FALSE
    BY DEF Before
  <2>1. Pending(st, j, b, q)
    BY <1>1 DEF Pending, Open
  <2> QED BY <2>1, <1>5
<1> QED BY <1>2, <1>7, <1>8, <1>9, AheadHere

(* The heap is changed in the places V only.                               *)
Kept(h, P, g, Q, V) ==
  \A x \in DOMAIN Q :
    PlaceOf(Q[x]) \in V \/ (x \in DOMAIN P /\ Q[x] = P[x] /\ g[x] = h[x])

LEMMA KeptShares ==
  ASSUME NEW h, NEW P, NEW V, SharesBut(h, P, V), Upwards(V),
         NEW g, NEW Q, NEW R, NEW W, Sound(g, Q, R, W), W \subseteq V, Kept(h, P, g, Q, V)
  PROVE  SharesBut(g, Q, V)
<1> SUFFICES ASSUME NEW x \in DOMAIN Q, PlaceOf(Q[x]) \notin V PROVE Shares(g, x)
  BY DEF SharesBut
<1>1. x \in DOMAIN P /\ Q[x] = P[x] /\ g[x] = h[x] /\ Shares(h, x)
  BY DEF Kept, SharesBut
<1>2. CASE g[x].kind # "node"
  BY <1>1, <1>2 DEF Shares, KidContent
<1>3. CASE g[x].kind = "node"
  <2>1. Q[x].node /\ Q[x].tree \in Bin /\ Q[x].path \in Path
    <3>1. Q[x].node
      BY <1>3, SpotOfNode, SpotIs DEF QuadFits, FlatFits, LeafFits
    <3> QED BY <3>1, SpotIs
  <2>2. NodeFits(Q, R, W, g[x], Q[x].tree, Q[x].path)
    BY <2>1, SpotOfNode
  <2>3. ASSUME NEW k \in DOMAIN g[x].kids PROVE g[g[x].kids[k].c] = h[g[x].kids[k].c]
    <3>1. k \in Names /\ Append(Q[x].path, k) \in Path
      BY <2>1, <2>2, AppendIs DEF NodeFits, Branches, Path
    <3>2. <<Q[x].tree, Append(Q[x].path, k)>> \notin W
      BY <2>1, <3>1, WithinItself DEF Upwards, PlaceOf
    <3>3. NodeRef(Q, g[x].kids[k], Q[x].tree, Append(Q[x].path, k))
      BY <2>2, <3>2 DEF NodeFits, KidFits
    <3> DEFINE m == g[x].kids[k].c
    <3>4. m \in DOMAIN Q /\ Q[m].path = Append(Q[x].path, k) /\ Within(Q[m].tree, Q[x].tree)
      BY <3>3 DEF NodeRef
    <3>5. Q[m].tree \in Bin
      BY <3>4, SpotIs
    <3>6. PlaceOf(Q[m]) \notin V
      BY <2>1, <3>1, <3>4, <3>5 DEF Upwards, PlaceOf
    <3> QED BY <3>4, <3>6 DEF Kept
  <2> QED BY <1>1, <1>3, <2>3 DEF Shares, KidContent
<1> QED BY <1>2, <1>3

LEMMA KeptTogether ==
  ASSUME NEW h, NEW P, NEW h1, NEW Q1, NEW V1, Kept(h, P, h1, Q1, V1),
         NEW g, NEW Q, NEW V2, Kept(h1, Q1, g, Q, V2), NEW V, V1 \subseteq V, V2 \subseteq V
  PROVE  Kept(h, P, g, Q, V)
BY DEF Kept

(* The places on the way to that of path p in the tree of b.               *)
Way(b, p) == { <<b, q>> : q \in { r \in Path : Starts(r, p) } }

(* A step to an insertion under way that leaves the rest as it was.        *)
Leads(h, P, V, st2, Q, a) ==
  /\ Going(st2, Q, a) /\ Kept(h, P, st2.heap, Q, Due(st2, a))
  /\ \A x \in DOMAIN P : PlaceOf(P[x]) \in V => PlaceOf(P[x]) \in Due(st2, a)

LEMMA LeadsSettled ==
  ASSUME DimsAssumption, NEW a \in Addresses, NEW h, NEW P, NEW V, SharesBut(h, P, V),
         NEW st2, NEW Q, Leads(h, P, V, st2, Q, a)
  PROVE  Going(st2, Q, a) /\ Settled(st2, Q, a)
<1>1. /\ Going(st2, Q, a) /\ Kept(h, P, st2.heap, Q, Due(st2, a))
      /\ SharesBut(h, P, Due(st2, a))
  BY DEF Leads, SharesBut
<1>2. st2.d \in Nat /\ Sound(st2.heap, Q, st2.replaced, Ahead(st2, a))
  BY <1>1, DimsAre DEF Going
<1>3. ASSUME NEW i \in 1 .. st2.d PROVE st2.calls[i].level \in Int
  <2>1. CallFits(st2.heap, Q, st2.calls[i], Here(st2, a, i), a[i], i = st2.d)
    BY <1>1 DEF Going
  <2> QED BY <2>1 DEF CallFits
<1>4. Upwards(Due(st2, a)) /\ Ahead(st2, a) \subseteq Due(st2, a)
  BY <1>2, <1>3, DueUpwards, AheadDue
<1> QED BY <1>1, <1>2, <1>4, KeptShares DEF Settled

-----------------------------------------------------------------------------
(* A step of the walk: what is ahead gets less.                            *)

Shape(st) ==
  /\ DOMAIN st = {"heap", "calls", "d", "updated", "replaced", "fault"}
  /\ st.d \in {0} \cup Dims
  /\ 1 .. st.d \subseteq DOMAIN st.calls

Outer(h, P, st, a, n) ==
  \A j \in 1 .. n : CallFits(h, P, st.calls[j], Here(st, a, j), a[j], FALSE)

LEMMA OnCallIs ==
  ASSUME NEW st, Shape(st), st.d \in Dims, NEW call
  PROVE  /\ Shape(OnCall(st, call)) /\ OnCall(st, call).d = st.d
         /\ OnCall(st, call).heap = st.heap /\ OnCall(st, call).replaced = st.replaced
         /\ OnCall(st, call).updated = st.updated /\ OnCall(st, call).fault = st.fault
         /\ OnCall(st, call).calls[st.d] = call
         /\ \A j \in 1 .. st.d : j # st.d => OnCall(st, call).calls[j] = st.calls[j]
<1> DEFINE s == OnCall(st, call)
<1>1. /\ DOMAIN s = DOMAIN st /\ s.d = st.d /\ s.heap = st.heap /\ s.replaced = st.replaced
      /\ s.updated = st.updated /\ s.fault = st.fault /\ s.calls = Put(st.calls, st.d, call)
  BY DEF OnCall, Shape
<1>2. /\ DOMAIN s.calls = DOMAIN st.calls \cup {st.d} /\ s.calls[st.d] = call
      /\ \A j \in DOMAIN st.calls : j # st.d => s.calls[j] = st.calls[j]
  BY <1>1 DEF Put
<1> HIDE DEF s
<1>3. Shape(s)
  BY <1>1, <1>2 DEF Shape
<1>4. \A j \in 1 .. st.d : j # st.d => s.calls[j] = st.calls[j]
  BY <1>2 DEF Shape
<1> QED BY <1>1, <1>2, <1>3, <1>4 DEF s

LEMMA OnHeapIs ==
  ASSUME NEW st, Shape(st), NEW h
  PROVE  /\ Shape(OnHeap(st, h)) /\ OnHeap(st, h).d = st.d
         /\ OnHeap(st, h).heap = h /\ OnHeap(st, h).replaced = st.replaced
         /\ OnHeap(st, h).updated = st.updated /\ OnHeap(st, h).fault = st.fault
         /\ OnHeap(st, h).calls = st.calls
BY DEF OnHeap, Shape

LEMMA HereLevels ==
  ASSUME NEW h, NEW P, NEW st, NEW a, NEW n \in Nat, Outer(h, P, st, a, n)
  PROVE  Levels(st, a, n)
<1> SUFFICES ASSUME NEW i \in 1 .. n PROVE st.calls[i].level \in -1 .. Len(a[i]) - 1
  BY DEF Levels
<1>1. CallFits(h, P, st.calls[i], Here(st, a, i), a[i], FALSE)
  BY DEF Outer
<1>2. st.calls[i].level \in -1 .. Len(a[i]) /\ st.calls[i].level < Len(a[i])
  BY <1>1 DEF CallFits
<1> QED BY <1>2

LEMMA OuterSame ==
  ASSUME NEW h, NEW P, NEW st, NEW a, NEW n \in Nat, Outer(h, P, st, a, n),
         NEW st2, \A j \in 1 .. n : st2.calls[j] = st.calls[j]
  PROVE  Outer(h, P, st2, a, n)
<1> SUFFICES ASSUME NEW j \in 1 .. n
             PROVE  CallFits(h, P, st2.calls[j], Here(st2, a, j), a[j], FALSE)
  BY DEF Outer
<1>1. Here(st2, a, j) = Here(st, a, j)
  BY HereSame
<1>2. CallFits(h, P, st.calls[j], Here(st, a, j), a[j], FALSE)
  BY DEF Outer
<1> QED BY <1>1, <1>2

(* The pointers of the places left behind are up to date.                  *)
UpToDate(h, P, W, V) ==
  \A n \in DOMAIN P : P[n].node =>
    \A k \in DOMAIN h[n].kids :
      <<P[n].tree, Append(P[n].path, k)>> \in W \ V
        => NodeRef(P, h[n].kids[k], P[n].tree, Append(P[n].path, k))

LEMMA Shrink ==
  ASSUME NEW h, NEW P, NEW R, NEW W, Sound(h, P, R, W), NEW V, UpToDate(h, P, W, V)
  PROVE  Sound(h, P, R, V)
<1>1. ASSUME NEW x \in DOMAIN P PROVE Fits(P, R, V, h[x], P[x])
  <2>1. CASE P[x].node
    <3>1. NodeFits(P, R, W, h[x], P[x].tree, P[x].path)
      BY <2>1, SpotOfNode
    <3>2. ASSUME NEW k \in DOMAIN h[x].kids
          PROVE  KidFits(P, R, V, h[x].kids[k], P[x].tree, Append(P[x].path, k))
      <4>1. KidFits(P, R, W, h[x].kids[k], P[x].tree, Append(P[x].path, k))
        BY <3>1 DEF NodeFits
      <4>2. <<P[x].tree, Append(P[x].path, k)>> \in W \ V
              => NodeRef(P, h[x].kids[k], P[x].tree, Append(P[x].path, k))
        BY <2>1 DEF UpToDate
      <4> QED BY <4>1, <4>2 DEF KidFits
    <3>3. NodeFits(P, R, V, h[x], P[x].tree, P[x].path)
      BY <3>1, <3>2 DEF NodeFits
    <3> QED BY <2>1, <3>3 DEF Fits
  <2>2. CASE ~P[x].node
    BY <2>2, SpotOfNode DEF Fits
  <2> QED BY <2>1, <2>2
<1> QED BY <1>1 DEF Sound

ParFits(P, m, b, q) ==
  m # Null => m \in DOMAIN P /\ P[m].node /\ P[m].path = q /\ Finer(P[m].tree, b)

CallShape(call) ==
  DOMAIN call = {"s", "parallel", "walking", "level", "node", "prev", "parNode", "stack", "child"}

(* The innermost call is walking, and at node n.                           *)
WalksAt(st, P, a, n) ==
  /\ Shape(st) /\ st.d \in Dims
  /\ Sound(st.heap, P, st.replaced, Ahead(st, a))
  /\ Outer(st.heap, P, st, a, st.d - 1)
  /\ LET call == st.calls[st.d]
         b    == Here(st, a, st.d)
         p    == a[st.d]
     IN  /\ CallShape(call) /\ call.walking /\ call.walking \in BOOLEAN
         /\ call.s \in DOMAIN P /\ P[call.s] = Of(b)
         /\ call.parallel # Null =>
              /\ call.parallel \in DOMAIN P /\ ~P[call.parallel].node
              /\ Finer(P[call.parallel].tree, b)
         /\ call.level \in 0 .. Len(p) - 1 /\ Kind[Len(b) + 1] = "quad"
         /\ n \in DOMAIN P /\ P[n] = At(b, Pre(p, call.level))
         /\ call.prev = IF call.level = 0 THEN Null ELSE call.stack[call.level - 1].o
         /\ 0 .. call.level - 1 \subseteq DOMAIN call.stack
         /\ call.child = NoEntry
         /\ \A l \in 0 .. call.level - 1 :
              EntryFits(st.heap, P, call.stack[l], b, Pre(p, l))

LEMMA Walking ==
  ASSUME DimsAssumption, NEW st, NEW P, NEW a, Going(st, P, a), st.d # 0, st.calls[st.d].walking
  PROVE  /\ WalksAt(st, P, a, st.calls[st.d].node)
         /\ ParFits(P, st.calls[st.d].parNode, Here(st, a, st.d),
                    Pre(a[st.d], st.calls[st.d].level))
         /\ st.calls[st.d].parallel = Null => st.calls[st.d].parNode = Null
<1>1. Shape(st) /\ st.d \in Dims
  BY DEF Going, Shape
<1>2. CallFits(st.heap, P, st.calls[st.d], Here(st, a, st.d), a[st.d], TRUE)
  <2>1. st.d \in 1 .. st.d
    BY <1>1, DimsAre
  <2>2. CallFits(st.heap, P, st.calls[st.d], Here(st, a, st.d), a[st.d], st.d = st.d)
    BY <2>1 DEF Going
  <2>3. (st.d = st.d) = TRUE
    OBVIOUS
  <2> QED BY <2>2, <2>3
<1>3. Outer(st.heap, P, st, a, st.d - 1)
  <2> SUFFICES ASSUME NEW j \in 1 .. st.d - 1
               PROVE  CallFits(st.heap, P, st.calls[j], Here(st, a, j), a[j], FALSE)
    BY DEF Outer
  <2>1. st.d \in Int
    BY <1>1, DimsAre
  <2>2. j \in 1 .. st.d /\ j # st.d
    BY <2>1
  <2>3. CallFits(st.heap, P, st.calls[j], Here(st, a, j), a[j], j = st.d)
    BY <2>2 DEF Going
  <2>4. (j = st.d) = FALSE
    BY <2>2
  <2> QED BY <2>3, <2>4
<1> QED BY Zenon, <1>1, <1>2, <1>3 DEF Going, WalksAt, CallFits, ParFits, CallShape

LEMMA GoesOn ==
  ASSUME DimsAssumption, NEW a, NEW st, NEW P, Shape(st), st.d \in Dims,
         Sound(st.heap, P, st.replaced, Ahead(st, a)), Outer(st.heap, P, st, a, st.d - 1),
         CallFits(st.heap, P, st.calls[st.d], Here(st, a, st.d), a[st.d], TRUE)
  PROVE  Going(st, P, a)
<1>1. \A j \in 1 .. st.d : CallFits(st.heap, P, st.calls[j], Here(st, a, j), a[j], j = st.d)
  <2> TAKE j \in 1 .. st.d
  <2>1. CASE j = st.d
    <3>1. (j = st.d) = TRUE
      BY <2>1
    <3> QED BY <3>1, <2>1
  <2>2. CASE j # st.d
    <3>1. st.d \in Int
      BY DimsAre
    <3>2. j \in 1 .. st.d - 1 /\ (j = st.d) = FALSE
      BY <3>1, <2>2
    <3>3. CallFits(st.heap, P, st.calls[j], Here(st, a, j), a[j], FALSE)
      BY <3>2 DEF Outer
    <3> QED BY <3>2, <3>3
  <2> QED BY <2>1, <2>2
<1> QED BY <1>1 DEF Going, Shape

LEMMA StartsLonger ==
  ASSUME NEW S, NEW p \in Seq(S), NEW n \in 0 .. Len(p), NEW q \in Seq(S),
         Starts(q, p), n <= Len(q)
  PROVE  Starts(Pre(p, n), q)
<1>1. Len(q) <= Len(p) /\ \A i \in 1 .. Len(q) : q[i] = p[i]
  BY StartsIs
<1>2. Pre(p, n) \in Seq(S) /\ Len(Pre(p, n)) = n /\ \A i \in 1 .. n : Pre(p, n)[i] = p[i]
  BY PreIs
<1>3. \A i \in 1 .. n : Pre(p, n)[i] = q[i]
  BY <1>1, <1>2
<1> QED BY <1>2, <1>3, StartsIs

(* Where the walk is: at node n, the l-th of path p in the tree of b.      *)
WalkIs(P, n, d, l, b, p) ==
  /\ d \in Dims /\ d \in 1 .. Len(Kind) /\ d \in Nat \ {0}
  /\ b \in Bin /\ Len(b) = d - 1 /\ Len(b) + 1 = d
  /\ p \in Path /\ Len(p) \in Nat \ {0} /\ Len(p) = Depth(d)
  /\ l \in 0 .. Len(p) - 1 /\ l + 1 \in 0 .. Len(p) /\ p[l + 1] \in Names
  /\ Pre(p, l) \in Path /\ Len(Pre(p, l)) = l
  /\ Pre(p, l + 1) \in Path /\ Len(Pre(p, l + 1)) = l + 1
  /\ Append(Pre(p, l), p[l + 1]) = Pre(p, l + 1)
  /\ n \in DOMAIN P /\ P[n].node /\ P[n].tree = b /\ P[n].path = Pre(p, l)
  /\ P[n] = At(b, Pre(p, l))

LEMMA WalkPlace ==
  ASSUME DimsAssumption, NEW a \in Addresses, NEW st, NEW P, NEW n, WalksAt(st, P, a, n)
  PROVE  /\ WalkIs(P, n, st.d, st.calls[st.d].level, Here(st, a, st.d), a[st.d])
         /\ Levels(st, a, st.d - 1)
<1>0. PICK d, l, b, p : d = st.d /\ l = st.calls[st.d].level /\ b = Here(st, a, st.d) /\ p = a[st.d]
  OBVIOUS
<1>1. d \in Dims /\ Outer(st.heap, P, st, a, d - 1) /\ l \in 0 .. Len(p) - 1
      /\ n \in DOMAIN P /\ P[n] = At(b, Pre(p, l))
  BY <1>0 DEF WalksAt
<1>2. d \in 1 .. Len(Kind) /\ d \in Nat \ {0} /\ d - 1 \in Nat /\ d \in 1 .. Len(Kind) + 1
  BY <1>1, DimsAre
<1>3. Levels(st, a, d - 1)
  BY <1>1, <1>2, HereLevels
<1>4. b \in Bin /\ Len(b) = d - 1
  BY <1>0, <1>2, <1>3, HereIs
<1>5. p \in Path /\ Len(p) \in Nat \ {0} /\ Len(p) = Depth(d)
  BY <1>0, <1>1, AddressIs
<1>6. l + 1 \in 0 .. Len(p) /\ l \in 0 .. Len(p) /\ p[l + 1] \in Names
  BY <1>1, <1>5 DEF Path
<1>7. /\ Pre(p, l) \in Path /\ Len(Pre(p, l)) = l
      /\ Pre(p, l + 1) \in Path /\ Len(Pre(p, l + 1)) = l + 1
  BY <1>5, <1>6, PreIs DEF Path
<1>8. Append(Pre(p, l), p[l + 1]) = Pre(p, l + 1)
  BY <1>1, <1>5, PreGrows DEF Path
<1>9. P[n].node /\ P[n].tree = b /\ P[n].path = Pre(p, l)
  BY <1>1 DEF At
<1>10. Len(b) + 1 = d
  BY <1>2, <1>4
<1>11. WalkIs(P, n, d, l, b, p)
  BY <1>1, <1>2, <1>4, <1>5, <1>6, <1>7, <1>8, <1>9, <1>10 DEF WalkIs
<1> QED BY <1>0, <1>3, <1>11

(* The place below node n on the path is that of its kid of that name.     *)
LEMMA PlaceBelow ==
  ASSUME NEW h, NEW P, NEW R, NEW W, Sound(h, P, R, W),
         NEW n, NEW d, NEW l, NEW b, NEW p, WalkIs(P, n, d, l, b, p),
         NEW m \in DOMAIN P, P[m].node, P[m].tree = b, NEW k \in Names,
         Append(P[m].path, k) = Pre(p, l + 1)
  PROVE  m = n /\ k = p[l + 1]
<1>1. /\ p[l + 1] \in Names /\ Pre(p, l) \in Path /\ n \in DOMAIN P
      /\ Append(Pre(p, l), p[l + 1]) = Pre(p, l + 1) /\ P[n] = At(b, Pre(p, l))
  BY DEF WalkIs
<1>2. P[m].path \in Path /\ P[m] = At(P[m].tree, P[m].path)
  BY SpotIs
<1>3. P[m].path = Pre(p, l) /\ k = p[l + 1]
  <2>1. Append(P[m].path, k) = Append(Pre(p, l), p[l + 1])
    BY <1>1
  <2> QED BY <2>1, <1>1, <1>2, AppendSame DEF Path
<1>4. P[m] = P[n]
  BY <1>1, <1>2, <1>3
<1>5. m = n
  BY <1>1, <1>4 DEF Sound
<1> QED BY <1>3, <1>5

(* The rest of what WalksAt says.                                          *)
WalkCall(P, h, call, l, b, p) ==
  /\ CallShape(call) /\ call.walking = TRUE /\ call.level = l /\ call.child = NoEntry
  /\ call.s \in DOMAIN P /\ P[call.s] = Of(b)
  /\ call.parallel # Null =>
       /\ call.parallel \in DOMAIN P /\ ~P[call.parallel].node
       /\ Finer(P[call.parallel].tree, b)
  /\ Kind[Len(b) + 1] = "quad"
  /\ call.prev = IF l = 0 THEN Null ELSE call.stack[l - 1].o
  /\ 0 .. l - 1 \subseteq DOMAIN call.stack
  /\ \A k \in 0 .. l - 1 : EntryFits(h, P, call.stack[k], b, Pre(p, k))

LEMMA WalkParts ==
  ASSUME NEW a, NEW st, NEW P, NEW n, WalksAt(st, P, a, n)
  PROVE  /\ Shape(st) /\ st.d \in Dims
         /\ Sound(st.heap, P, st.replaced, Ahead(st, a))
         /\ Outer(st.heap, P, st, a, st.d - 1)
         /\ WalkCall(P, st.heap, st.calls[st.d], st.calls[st.d].level,
                     Here(st, a, st.d), a[st.d])
BY DEF WalksAt, WalkCall

LEMMA DescendLeaves ==
  ASSUME DimsAssumption, NEW a \in Addresses, NEW st, NEW P, NEW n, WalksAt(st, P, a, n),
         NEW st2, st2.d = st.d, \A j \in 1 .. st.d - 1 : st2.calls[j] = st.calls[j],
         st2.calls[st.d].level = st.calls[st.d].level + 1,
         st2.calls[st.d].walking <=> st.calls[st.d].level + 1 < Len(a[st.d]),
         NEW c \in Bin, NEW r \in Path, <<c, r>> \in Ahead(st, a) \ Ahead(st2, a)
  PROVE  c = Here(st, a, st.d) /\ r = Pre(a[st.d], st.calls[st.d].level + 1)
<1>0. PICK d, l, b, p : d = st.d /\ l = st.calls[st.d].level /\ b = Here(st, a, st.d) /\ p = a[st.d]
  OBVIOUS
<1>1. WalkIs(P, n, d, l, b, p) /\ Levels(st, a, d - 1)
  BY <1>0, WalkPlace
<1>2. /\ d \in Dims /\ d \in Nat \ {0} /\ b \in Bin /\ Len(b) = d - 1
      /\ p \in Path /\ Len(p) \in Nat \ {0} /\ l \in 0 .. Len(p) - 1
  BY <1>1 DEF WalkIs
<1>3. Inside(c, b) /\ Covers(c, r, a) /\ Now(st, c, r) /\ ~Now(st2, c, r)
  BY <1>0, <1>1, <1>2, Leaving
<1>4. Len(c) \in Nat /\ Len(r) \in Nat
  BY DEF Bin, Path
<1>5. Len(c) >= d - 1
  BY <1>3, <1>2 DEF Inside
<1>6. \/ d <= Len(c) /\ Len(c[d]) <= l
      \/ Len(c) = d - 1 => Len(r) > l
  BY <1>0, <1>3 DEF Now
<1>7. ~ (d <= Len(c) /\ Len(c[d]) <= l + 1)
      /\ ~ (l + 1 < Len(p) /\ (Len(c) = d - 1 => Len(r) > l + 1))
  BY <1>0, <1>3 DEF Now
<1>8. ~ (d <= Len(c))
  <2> SUFFICES ASSUME d <= Len(c) PROVE FALSE
    OBVIOUS
  <2>1. Starts(c[d], p) /\ c[d] \in Path
    <3>1. d \in 1 .. Len(c)
      BY <1>2, <1>4
    <3> QED BY <3>1, <1>0, <1>3 DEF Covers, Bin
  <2>2. Len(c[d]) <= Len(p) /\ Len(c[d]) \in Nat
    BY <2>1 DEF Starts, Path
  <2>3. Len(c[d]) > l + 1
    BY <2>2, <1>7, <1>2
  <2> QED BY <2>2, <2>3, <1>2, <1>7
<1>9. Len(c) = d - 1
  BY <1>4, <1>5, <1>8, <1>2
<1>10. c = b
  BY <1>3, <1>9, <1>2 DEF Inside, Bin
<1>11. Starts(r, p)
  <2>1. Len(c) + 1 = d
    BY <1>9, <1>2
  <2> QED BY <2>1, <1>0, <1>3 DEF Covers
<1>12. Len(r) = l + 1
  <2>1. Len(r) <= Len(p)
    BY <1>11 DEF Starts
  <2>2. Len(r) > l
    BY <1>6, <1>8, <1>9
  <2>3. l + 1 < Len(p) => Len(r) <= l + 1
    BY <1>4, <1>7, <1>9, <1>2
  <2> QED BY <2>1, <2>2, <2>3, <1>4, <1>2
<1>13. r = Pre(p, l + 1)
  BY <1>11, <1>12 DEF Starts
<1> QED BY <1>0, <1>10, <1>13

(* The kid of node n on the path.                                          *)
HasKid(h, n, k, kid) == k \in DOMAIN h[n].kids /\ h[n].kids[k] = kid
NameAfter(p, l) == p[l + 1]
PathAfter(p, l) == Pre(p, l + 1)

(* The walk goes on to a node that is up to date and its own.              *)
LEMMA DescendGoes ==
  ASSUME DimsAssumption, NEW a \in Addresses, NEW st, NEW P, NEW n, WalksAt(st, P, a, n),
         NEW child, 
         HasKid(st.heap, n, NameAfter(a[st.d], st.calls[st.d].level), Pointer(child, TRUE)),
         NEW par, ParFits(P, par, Here(st, a, st.d), PathAfter(a[st.d], st.calls[st.d].level)),
         st.calls[st.d].parallel = Null => par = Null
  PROVE  Going(Descend(st, n, child, par, a[st.d]), P, a)
<1>0. PICK d, call, l, b, p, q, h, name :
        /\ d = st.d /\ call = st.calls[st.d] /\ l = st.calls[st.d].level
        /\ b = Here(st, a, st.d) /\ p = a[st.d] /\ h = st.heap
        /\ q = PathAfter(a[st.d], st.calls[st.d].level)
        /\ name = NameAfter(a[st.d], st.calls[st.d].level)
  OBVIOUS
<1>0a. /\ name \in DOMAIN h[n].kids /\ h[n].kids[name].c = child /\ h[n].kids[name].proper
       /\ ParFits(P, par, b, q) /\ (call.parallel = Null => par = Null)
  <2>1. HasKid(h, n, name, Pointer(child, TRUE)) /\ ParFits(P, par, b, q)
    BY <1>0
  <2>2. call.parallel = Null => par = Null
    BY <1>0
  <2> QED BY <2>1, <2>2 DEF HasKid, Pointer
<1>1. WalkIs(P, n, d, l, b, p) /\ Levels(st, a, d - 1) /\ q = Pre(p, l + 1) /\ name = p[l + 1]
  <2>1. WalkIs(P, n, d, l, b, p) /\ Levels(st, a, d - 1)
    BY <1>0, WalkPlace
  <2>2. q = PathAfter(p, l) /\ name = NameAfter(p, l)
    BY <1>0
  <2> QED BY <2>1, <2>2 DEF PathAfter, NameAfter
<1>2. /\ d \in Dims /\ d \in Nat \ {0} /\ b \in Bin /\ Len(b) = d - 1 /\ Len(b) + 1 = d
      /\ p \in Path /\ Len(p) \in Nat \ {0}
      /\ l \in 0 .. Len(p) - 1 /\ p[l + 1] \in Names /\ name = p[l + 1]
      /\ Pre(p, l) \in Path /\ q \in Path /\ Append(Pre(p, l), p[l + 1]) = q
      /\ n \in DOMAIN P /\ P[n].node /\ P[n].tree = b /\ P[n].path = Pre(p, l)
  BY <1>1 DEF WalkIs
<1>3. /\ Shape(st) /\ Sound(h, P, st.replaced, Ahead(st, a)) /\ Outer(h, P, st, a, d - 1)
      /\ WalkCall(P, h, call, l, b, p)
  BY <1>0, WalkParts
<1>4. /\ CallShape(call) /\ call.level = l /\ call.child = NoEntry
      /\ call.s \in DOMAIN P /\ P[call.s] = Of(b)
      /\ call.parallel # Null =>
           /\ call.parallel \in DOMAIN P /\ ~P[call.parallel].node
           /\ Finer(P[call.parallel].tree, b)
      /\ Kind[Len(b) + 1] = "quad" /\ 0 .. l - 1 \subseteq DOMAIN call.stack
      /\ \A k \in 0 .. l - 1 : EntryFits(h, P, call.stack[k], b, Pre(p, k))
  BY <1>3 DEF WalkCall
<1>5. PICK goes \in BOOLEAN : goes = (l + 1 < Len(p))
  <2>1. (l + 1 < Len(p)) \in BOOLEAN
    OBVIOUS
  <2> QED BY <2>1
<1>6. PICK stack2 :
        stack2 = Put(Put(call.stack, l, Entry(n, Self)), l + 1, Entry(child, Self))
  OBVIOUS
<1>7. PICK call2 :
        call2 = [call EXCEPT !.walking = goes, !.level = l + 1, !.prev = n,
                             !.node = child, !.parNode = par, !.stack = stack2]
  OBVIOUS
<1>8. /\ CallShape(call2) /\ call2.s = call.s /\ call2.parallel = call.parallel
      /\ call2.walking = goes /\ call2.level = l + 1 /\ call2.prev = n
      /\ call2.node = child /\ call2.parNode = par /\ call2.stack = stack2
      /\ call2.child = NoEntry
  BY <1>4, <1>7 DEF CallShape
<1>9. PICK s2 : s2 = Descend(st, n, child, par, a[st.d])
  OBVIOUS
<1>10. s2 = OnCall(st, call2)
  <2>1. s2 = OnCall(st, [call EXCEPT
          !.walking = call.level + 1 < Len(p), !.level = call.level + 1,
          !.prev = n, !.node = child, !.parNode = par,
          !.stack = Put(Put(call.stack, call.level, Entry(n, Self)),
                        call.level + 1, Entry(child, Self))])
    BY <1>9, <1>0 DEF Descend
  <2> QED BY <2>1, <1>4, <1>5, <1>6, <1>7
<1>11. /\ Shape(s2) /\ s2.d = d /\ s2.heap = h /\ s2.replaced = st.replaced
       /\ s2.calls[d] = call2 /\ \A j \in 1 .. d : j # d => s2.calls[j] = st.calls[j]
  <2>1. Shape(st) /\ st.d \in Dims
    BY Zenon, <1>0, <1>2, <1>3
  <2>2. /\ Shape(s2) /\ s2.d = st.d /\ s2.heap = st.heap /\ s2.replaced = st.replaced
        /\ s2.calls[st.d] = call2
        /\ \A j \in 1 .. st.d : j # st.d => s2.calls[j] = st.calls[j]
    BY <2>1, <1>10, OnCallIs
  <2> QED BY <2>2, <1>0
<1>12. \A j \in 1 .. d - 1 : s2.calls[j] = st.calls[j]
  BY <1>2, <1>11
<1>13. Here(s2, a, d) = b /\ Outer(h, P, s2, a, d - 1)
  <2>1. Here(s2, a, d) = b
    <3>1. d \in Nat
      BY <1>2
    <3>2. \A j \in 1 .. d - 1 : s2.calls[j].level = st.calls[j].level
      BY <1>12
    <3>3. Here(s2, a, d) = Here(st, a, d)
      BY <3>1, <3>2, HereSame
    <3> QED BY <3>3, <1>0
  <2>2. Outer(h, P, s2, a, d - 1)
    BY <1>2, <1>3, <1>12, OuterSame
  <2> QED BY <2>1, <2>2
<1>14. NodeRef(P, h[n].kids[name], b, q)
  <2>1. NodeFits(P, st.replaced, Ahead(st, a), h[n], b, Pre(p, l))
    BY <1>2, <1>3, SpotOfNode
  <2>2. KidFits(P, st.replaced, Ahead(st, a), h[n].kids[name], b, q)
    BY <2>1, <1>0a, <1>2 DEF NodeFits
  <2> QED BY <2>2, <1>0a DEF KidFits
<1>15. child \in DOMAIN P /\ P[child].node /\ P[child].tree = b /\ P[child].path = q
       /\ P[child] = At(b, q)
  <2>1. child \in DOMAIN P /\ P[child].node /\ P[child].tree = b /\ P[child].path = q
    BY <1>0a, <1>14 DEF NodeRef
  <2> QED BY <2>1, <1>3, SpotIs
<1>16. UpToDate(h, P, Ahead(st, a), Ahead(s2, a))
  <2> SUFFICES ASSUME NEW m \in DOMAIN P, P[m].node, NEW k \in DOMAIN h[m].kids,
                      <<P[m].tree, Append(P[m].path, k)>> \in Ahead(st, a) \ Ahead(s2, a)
               PROVE  NodeRef(P, h[m].kids[k], P[m].tree, Append(P[m].path, k))
    BY DEF UpToDate
  <2>1. P[m].tree \in Bin /\ k \in Names /\ Append(P[m].path, k) \in Path
    <3>1. k \in Names
      BY <1>3, SpotOfNode DEF NodeFits, Branches
    <3> QED BY <3>1, <1>3, SpotIs, AppendIs DEF Path
  <2>2. P[m].tree = b /\ Append(P[m].path, k) = q
    <3>1. s2.d = st.d /\ \A j \in 1 .. st.d - 1 : s2.calls[j] = st.calls[j]
      BY <1>0, <1>11, <1>12
    <3>2. s2.calls[st.d].level = st.calls[st.d].level + 1
      BY <1>0, <1>8, <1>11
    <3>3. s2.calls[st.d].walking <=> st.calls[st.d].level + 1 < Len(a[st.d])
      BY <1>0, <1>5, <1>8, <1>11
    <3>4. /\ P[m].tree = Here(st, a, st.d)
          /\ Append(P[m].path, k) = Pre(a[st.d], st.calls[st.d].level + 1)
      BY <2>1, <3>1, <3>2, <3>3, DescendLeaves
    <3> QED BY Zenon, <3>4, <1>0, <1>1
  <2>3. m = n /\ k = name
    <3>1. Sound(h, P, st.replaced, Ahead(st, a)) /\ WalkIs(P, n, d, l, b, p)
      BY <1>1, <1>3
    <3>2. P[m].tree = b /\ k \in Names /\ Append(P[m].path, k) = Pre(p, l + 1)
      BY <2>1, <2>2, <1>1
    <3>3. m = n /\ k = p[l + 1]
      BY <3>1, <3>2, PlaceBelow
    <3> QED BY <3>3, <1>2
  <2> QED BY <2>2, <2>3, <1>14
<1>17. Sound(h, P, st.replaced, Ahead(s2, a))
  BY <1>3, <1>16, Shrink
(* The stack.                                                              *)
<1>18. /\ l \in DOMAIN stack2 /\ l + 1 \in DOMAIN stack2 /\ 0 .. l - 1 \subseteq DOMAIN stack2
       /\ stack2[l] = Entry(n, Self) /\ stack2[l + 1] = Entry(child, Self)
       /\ \A k \in 0 .. l - 1 : stack2[k] = call.stack[k]
  BY <1>2, <1>4, <1>6 DEF Put
<1>19. EntryFits(h, P, Entry(n, Self), b, Pre(p, l)) /\ EntryFits(h, P, Entry(child, Self), b, q)
  BY <1>2, <1>15 DEF EntryFits, Entry
<1>20. \A k \in 0 .. l + 1 : EntryFits(h, P, stack2[k], b, Pre(p, k))
  <2> TAKE k \in 0 .. l + 1
  <2>1. k \in 0 .. l - 1 \/ k = l \/ k = l + 1
    BY <1>2
  <2> QED BY <2>1, <1>1, <1>4, <1>18, <1>19
<1>21. CallFits(h, P, call2, b, p, TRUE)
  <2>1. l + 1 - 1 = l /\ l + 1 # 0 /\ 0 .. l = 0 .. l - 1 \cup {l} /\ 0 .. l \subseteq 0 .. l + 1
    BY <1>2
  <2>2. /\ call2.parallel = Null => par = Null
        /\ par # Null => /\ par \in DOMAIN P
                         /\ P[par].node /\ P[par].path = Pre(p, l + 1)
                         /\ Finer(P[par].tree, b)
    BY <1>0a, <1>1, <1>8 DEF ParFits
  <2>3. ChildFits(h, P, call2.child, b, Pre(p, call2.level + 1))
    BY <1>8 DEF ChildFits
  <2>4. call2.level \in -1 .. Len(p)
    BY <1>2, <1>8
  <2>5. \A k \in 0 .. call2.level : EntryFits(h, P, call2.stack[k], b, Pre(p, k))
    BY <1>8, <1>20
  <2>6. goes => /\ call2.level \in 0 .. Len(p) - 1
                /\ call2.node \in DOMAIN P /\ P[call2.node] = At(b, Pre(p, call2.level))
                /\ call2.prev = IF call2.level = 0 THEN Null ELSE call2.stack[call2.level - 1].o
                /\ 0 .. call2.level - 1 \subseteq DOMAIN call2.stack
                /\ \A k \in 0 .. call2.level - 1 : EntryFits(h, P, call2.stack[k], b, Pre(p, k))
    <3>1. call2.level - 1 = l /\ call2.level # 0 /\ call2.level = l + 1
      BY <1>8, <2>1
    <3>2. goes => call2.level \in 0 .. Len(p) - 1
      <4>1. l \in Int /\ Len(p) \in Int /\ l >= 0
        BY <1>2
      <4> SUFFICES ASSUME goes PROVE l + 1 \in 0 .. Len(p) - 1
        BY <3>1
      <4>2. l + 1 < Len(p)
        BY <1>5
      <4> QED BY <4>1, <4>2
    <3>3. call2.node \in DOMAIN P /\ P[call2.node] = At(b, Pre(p, call2.level))
      BY <3>1, <1>1, <1>8, <1>15
    <3>4. call2.prev = IF call2.level = 0 THEN Null ELSE call2.stack[call2.level - 1].o
      BY <3>1, <1>8, <1>18 DEF Entry
    <3>5. 0 .. call2.level - 1 \subseteq DOMAIN call2.stack
      BY <3>1, <2>1, <1>8, <1>18
    <3>6. \A k \in 0 .. call2.level - 1 : EntryFits(h, P, call2.stack[k], b, Pre(p, k))
      BY <3>1, <2>1, <1>8, <1>20
    <3> QED BY <3>2, <3>3, <3>4, <3>5, <3>6
  <2>7. call2.walking = goes /\ call2.walking \in BOOLEAN
    BY <1>8
  <2>8. /\ call2.parNode # Null =>
              /\ call2.parNode \in DOMAIN P
              /\ P[call2.parNode].node /\ P[call2.parNode].path = Pre(p, call2.level)
              /\ Finer(P[call2.parNode].tree, b)
        /\ call2.parallel = Null => call2.parNode = Null
    BY <2>2, <1>8
  <2>9. call2.parallel # Null =>
          /\ call2.parallel \in DOMAIN P /\ ~P[call2.parallel].node
          /\ Finer(P[call2.parallel].tree, b)
    BY <1>4, <1>8
  <2>10. /\ CallShape(call2) /\ call2.s \in DOMAIN P /\ P[call2.s] = Of(b)
         /\ call2.child = NoEntry /\ Kind[Len(b) + 1] = "quad"
    BY <1>4, <1>8
  <2>11. ~goes => OnPath(h, P, call2, b, p, TRUE)
    <3> SUFFICES ASSUME ~goes PROVE OnPath(h, P, call2, b, p, TRUE)
      OBVIOUS
    <3>1. ~(l + 1 < Len(p))
      BY <1>5
    <3>2. ~(l + 1 \in 0 .. Len(p) - 1)
      BY <3>1, <1>2
    <3> QED BY <3>1, <3>2, <1>8 DEF OnPath
  <2> QED BY <2>3, <2>4, <2>5, <2>6, <2>7, <2>8, <2>9, <2>10, <2>11 DEF CallFits, CallShape
<1> QED
  <2>1. /\ Shape(s2) /\ s2.d \in Dims /\ Sound(s2.heap, P, s2.replaced, Ahead(s2, a))
        /\ Outer(s2.heap, P, s2, a, s2.d - 1)
    BY <1>2, <1>11, <1>13, <1>17
  <2>2. CallFits(s2.heap, P, s2.calls[s2.d], Here(s2, a, s2.d), a[s2.d], TRUE)
    BY <1>0, <1>11, <1>13, <1>21
  <2>3. Going(s2, P, a)
    BY <2>1, <2>2, GoesOn
  <2> QED BY <2>3, <1>9

LEMMA StopLeaves ==
  ASSUME DimsAssumption, NEW a \in Addresses, NEW st, NEW P, NEW n, WalksAt(st, P, a, n),
         NEW st2, st2.d = st.d, \A j \in 1 .. st.d - 1 : st2.calls[j] = st.calls[j],
         st2.calls[st.d].level = st.calls[st.d].level, ~st2.calls[st.d].walking,
         NEW c \in Bin, NEW r \in Path, <<c, r>> \in Ahead(st, a) \ Ahead(st2, a)
  PROVE  UnderPlace(At(c, r), Here(st, a, st.d), PathAfter(a[st.d], st.calls[st.d].level))
<1>0. PICK d, l, b, p : d = st.d /\ l = st.calls[st.d].level /\ b = Here(st, a, st.d) /\ p = a[st.d]
  OBVIOUS
<1>1. WalkIs(P, n, d, l, b, p) /\ Levels(st, a, d - 1)
  BY <1>0, WalkPlace
<1>2. /\ d \in Dims /\ d \in Nat \ {0} /\ b \in Bin /\ Len(b) = d - 1 /\ Len(b) + 1 = d
      /\ p \in Path /\ Len(p) \in Nat \ {0} /\ l \in 0 .. Len(p) - 1 /\ l + 1 \in 0 .. Len(p)
  BY <1>1 DEF WalkIs
<1>3. Inside(c, b) /\ Covers(c, r, a) /\ Now(st, c, r) /\ ~Now(st2, c, r)
  BY <1>0, <1>1, <1>2, Leaving
<1>4. Len(c) \in Nat /\ Len(r) \in Nat
  BY DEF Bin, Path
<1>5. Len(c) >= d - 1 /\ \A i \in 1 .. Len(b) : c[i] = b[i]
  BY <1>3, <1>2 DEF Inside
<1>6. \/ d <= Len(c) /\ Len(c[d]) <= l
      \/ Len(c) = d - 1 => Len(r) > l
  BY <1>0, <1>3 DEF Now
<1>7. ~ (d <= Len(c) /\ Len(c[d]) <= l)
  BY <1>0, <1>3 DEF Now
<1>8. CASE d <= Len(c)
  <2>1. Starts(c[d], p) /\ c[d] \in Path
    <3>1. d \in 1 .. Len(c)
      BY <1>2, <1>4, <1>8
    <3> QED BY <3>1, <1>0, <1>3 DEF Covers, Bin
  <2>2. l + 1 <= Len(c[d])
    BY <2>1, <1>2, <1>7, <1>8 DEF Path
  <2>3. Starts(Pre(p, l + 1), c[d])
    BY <2>1, <2>2, <1>2, StartsLonger DEF Path
  <2>4. UnderPlace(At(c, r), b, Pre(p, l + 1))
    BY <2>3, <1>2, <1>4, <1>5, <1>8 DEF UnderPlace, At
  <2> QED BY <2>4, <1>0 DEF PathAfter
<1>9. CASE ~ (d <= Len(c))
  <2>1. Len(c) = d - 1
    BY <1>2, <1>4, <1>5, <1>9
  <2>2. c = b
    BY <2>1, <1>2, <1>5 DEF Bin
  <2>3. Starts(r, p)
    <3>1. Len(c) + 1 = d
      BY <2>1, <1>2
    <3> QED BY <3>1, <1>0, <1>3 DEF Covers
  <2>4. l + 1 <= Len(r)
    BY <2>1, <1>2, <1>4, <1>6, <1>9
  <2>5. Starts(Pre(p, l + 1), r)
    BY <2>3, <2>4, <1>2, StartsLonger DEF Path
  <2>6. UnderPlace(At(c, r), b, Pre(p, l + 1))
    BY <2>2, <2>5 DEF UnderPlace, At
  <2> QED BY <2>6, <1>0 DEF PathAfter
<1> QED BY <1>8, <1>9

(* The walk ends above a node that is shared.                              *)
LEMMA StopGoes ==
  ASSUME DimsAssumption, NEW a \in Addresses, NEW st, NEW P, NEW n, WalksAt(st, P, a, n),
         NEW child,
         HasKid(st.heap, n, NameAfter(a[st.d], st.calls[st.d].level), Pointer(child, FALSE)),
         NodeRef(P, Pointer(child, FALSE), Here(st, a, st.d),
                 PathAfter(a[st.d], st.calls[st.d].level))
  PROVE  Going(Stop(st, n, child), P, a)
<1>0. PICK d, call, l, b, p, q, h, name :
        /\ d = st.d /\ call = st.calls[st.d] /\ l = st.calls[st.d].level
        /\ b = Here(st, a, st.d) /\ p = a[st.d] /\ h = st.heap
        /\ q = PathAfter(a[st.d], st.calls[st.d].level)
        /\ name = NameAfter(a[st.d], st.calls[st.d].level)
  OBVIOUS
<1>0a. /\ name \in DOMAIN h[n].kids /\ h[n].kids[name].c = child /\ ~h[n].kids[name].proper
       /\ NodeRef(P, h[n].kids[name], b, q)
  <2>1. HasKid(h, n, name, Pointer(child, FALSE)) /\ NodeRef(P, Pointer(child, FALSE), b, q)
    BY <1>0
  <2> QED BY <2>1 DEF HasKid, Pointer
<1>1. WalkIs(P, n, d, l, b, p) /\ Levels(st, a, d - 1) /\ q = Pre(p, l + 1) /\ name = p[l + 1]
  <2>1. WalkIs(P, n, d, l, b, p) /\ Levels(st, a, d - 1)
    BY <1>0, WalkPlace
  <2>2. q = PathAfter(p, l) /\ name = NameAfter(p, l)
    BY <1>0
  <2> QED BY <2>1, <2>2 DEF PathAfter, NameAfter
<1>2. /\ d \in Dims /\ d \in Nat \ {0} /\ b \in Bin /\ Len(b) = d - 1 /\ Len(b) + 1 = d
      /\ p \in Path /\ Len(p) \in Nat \ {0}
      /\ l \in 0 .. Len(p) - 1 /\ p[l + 1] \in Names /\ name = p[l + 1]
      /\ Pre(p, l) \in Path /\ q \in Path /\ Append(Pre(p, l), p[l + 1]) = q
      /\ n \in DOMAIN P /\ P[n].node /\ P[n].tree = b /\ P[n].path = Pre(p, l)
  BY <1>1 DEF WalkIs
<1>3. /\ Shape(st) /\ Sound(h, P, st.replaced, Ahead(st, a)) /\ Outer(h, P, st, a, d - 1)
      /\ WalkCall(P, h, call, l, b, p)
  BY <1>0, WalkParts
<1>4. /\ CallShape(call) /\ call.level = l
      /\ call.s \in DOMAIN P /\ P[call.s] = Of(b)
      /\ call.parallel # Null =>
           /\ call.parallel \in DOMAIN P /\ ~P[call.parallel].node
           /\ Finer(P[call.parallel].tree, b)
      /\ Kind[Len(b) + 1] = "quad" /\ 0 .. l - 1 \subseteq DOMAIN call.stack
      /\ \A k \in 0 .. l - 1 : EntryFits(h, P, call.stack[k], b, Pre(p, k))
  BY <1>3 DEF WalkCall
<1>6. PICK stack2 : stack2 = Put(call.stack, l, Entry(n, Self))
  OBVIOUS
<1>7. PICK call2 :
        call2 = [call EXCEPT !.walking = FALSE, !.stack = stack2, !.child = Entry(child, Self)]
  OBVIOUS
<1>8. /\ CallShape(call2) /\ call2.s = call.s /\ call2.parallel = call.parallel
      /\ call2.walking = FALSE /\ call2.level = l /\ call2.stack = stack2
      /\ call2.child = Entry(child, Self)
  BY <1>4, <1>7 DEF CallShape
<1>9. PICK s2 : s2 = Stop(st, n, child)
  OBVIOUS
<1>10. s2 = OnCall(st, call2)
  <2>1. s2 = OnCall(st, [call EXCEPT
          !.walking = FALSE, !.stack = Put(call.stack, call.level, Entry(n, Self)),
          !.child = Entry(child, Self)])
    BY <1>9, <1>0 DEF Stop
  <2> QED BY <2>1, <1>4, <1>6, <1>7
<1>11. /\ Shape(s2) /\ s2.d = d /\ s2.heap = h /\ s2.replaced = st.replaced
       /\ s2.calls[d] = call2 /\ \A j \in 1 .. d : j # d => s2.calls[j] = st.calls[j]
  <2>1. Shape(st) /\ st.d \in Dims
    BY Zenon, <1>0, <1>2, <1>3
  <2>2. /\ Shape(s2) /\ s2.d = st.d /\ s2.heap = st.heap /\ s2.replaced = st.replaced
        /\ s2.calls[st.d] = call2
        /\ \A j \in 1 .. st.d : j # st.d => s2.calls[j] = st.calls[j]
    BY <2>1, <1>10, OnCallIs
  <2> QED BY <2>2, <1>0
<1>12. \A j \in 1 .. d - 1 : s2.calls[j] = st.calls[j]
  BY <1>2, <1>11
<1>13. Here(s2, a, d) = b /\ Outer(h, P, s2, a, d - 1)
  <2>1. Here(s2, a, d) = b
    <3>1. d \in Nat
      BY <1>2
    <3>2. \A j \in 1 .. d - 1 : s2.calls[j].level = st.calls[j].level
      BY <1>12
    <3>3. Here(s2, a, d) = Here(st, a, d)
      BY <3>1, <3>2, HereSame
    <3> QED BY <3>3, <1>0
  <2>2. Outer(h, P, s2, a, d - 1)
    BY <1>2, <1>3, <1>12, OuterSame
  <2> QED BY <2>1, <2>2
<1>15. /\ child \in DOMAIN P /\ P[child].node /\ P[child].path = q
       /\ Within(P[child].tree, b)
  BY <1>0a DEF NodeRef
(* There is no node of its own below.                                      *)
<1>16. \A m \in DOMAIN P : ~UnderPlace(P[m], b, q)
  <2>1. Self \notin Names /\ Sound(h, P, st.replaced, Ahead(st, a))
    BY <1>3, NoNameIsSelf
  <2>2. \A m \in DOMAIN P : P[m] # At(b, q)
    <3> TAKE m \in DOMAIN P
    <3>1. P[m] # At(P[n].tree, Append(P[n].path, name))
      BY <2>1, <1>0a, <1>2, NoNodeBelow
    <3> QED BY <3>1, <1>2
  <2> QED BY <2>1, <2>2, <1>2, <1>4, NothingUnder
<1>17. UpToDate(h, P, Ahead(st, a), Ahead(s2, a))
  <2> SUFFICES ASSUME NEW m \in DOMAIN P, P[m].node, NEW k \in DOMAIN h[m].kids,
                      <<P[m].tree, Append(P[m].path, k)>> \in Ahead(st, a) \ Ahead(s2, a)
               PROVE  NodeRef(P, h[m].kids[k], P[m].tree, Append(P[m].path, k))
    BY DEF UpToDate
  <2>1. P[m].tree \in Bin /\ P[m].path \in Path /\ k \in Names /\ Append(P[m].path, k) \in Path
    <3>1. k \in Names
      BY <1>3, SpotOfNode DEF NodeFits, Branches
    <3> QED BY <3>1, <1>3, SpotIs, AppendIs DEF Path
  <2>2. UnderPlace(At(P[m].tree, Append(P[m].path, k)), b, q)
    <3>1. s2.d = st.d /\ \A j \in 1 .. st.d - 1 : s2.calls[j] = st.calls[j]
      BY <1>0, <1>11, <1>12
    <3>2. s2.calls[st.d].level = st.calls[st.d].level
      BY <1>0, <1>8, <1>11
    <3>3. ~s2.calls[st.d].walking
      BY <1>0, <1>8, <1>11
    <3>4. UnderPlace(At(P[m].tree, Append(P[m].path, k)), Here(st, a, st.d),
                     PathAfter(a[st.d], st.calls[st.d].level))
      BY <2>1, <3>1, <3>2, <3>3, StopLeaves
    <3> QED BY <3>4, <1>0
  <2>3. ~UnderPlace(P[m], b, q)
    BY <1>16
  <2>4. P[m].tree = b /\ Starts(q, Append(P[m].path, k))
    BY <2>2, <2>3 DEF UnderPlace, At
  <2>5. ~Starts(q, P[m].path)
    BY <2>3, <2>4 DEF UnderPlace
  <2>6. Append(P[m].path, k) = q
    BY <2>1, <2>4, <2>5, <1>2, StartsAppend
  <2>7. m = n /\ k = name
    <3>1. Sound(h, P, st.replaced, Ahead(st, a)) /\ WalkIs(P, n, d, l, b, p)
      BY <1>1, <1>3
    <3>2. P[m].tree = b /\ k \in Names /\ Append(P[m].path, k) = Pre(p, l + 1)
      BY <2>1, <2>4, <2>6, <1>1
    <3>3. m = n /\ k = p[l + 1]
      BY <3>1, <3>2, PlaceBelow
    <3> QED BY <3>3, <1>2
  <2> QED BY <2>4, <2>6, <2>7, <1>0a
<1>18. Sound(h, P, st.replaced, Ahead(s2, a))
  BY <1>3, <1>17, Shrink
<1>19. \A k \in 0 .. l : EntryFits(h, P, stack2[k], b, Pre(p, k))
  <2>1. /\ stack2[l] = Entry(n, Self)
        /\ \A k \in 0 .. l - 1 : stack2[k] = call.stack[k]
    BY <1>2, <1>4, <1>6 DEF Put
  <2>2. EntryFits(h, P, Entry(n, Self), b, Pre(p, l))
    BY <1>2 DEF EntryFits, Entry
  <2> TAKE k \in 0 .. l
  <2>3. k \in 0 .. l - 1 \/ k = l
    BY <1>2
  <2> QED BY <2>1, <2>2, <2>3, <1>4
<1>20. ChildFits(h, P, Entry(child, Self), b, q)
  <2>1. Entry(child, Self).o = child /\ Entry(child, Self).e = Self
    BY DEF Entry
  <2>2. EntryFits(h, P, Entry(child, Self), P[child].tree, q)
    BY <2>1, <1>15 DEF EntryFits
  <2> QED BY <2>1, <2>2, <1>15 DEF ChildFits
<1>21. CallFits(h, P, call2, b, p, TRUE)
  <2>1. call2.level \in -1 .. Len(p) /\ call2.walking = FALSE
    BY <1>2, <1>8
  <2>2. /\ \A k \in 0 .. call2.level : EntryFits(h, P, call2.stack[k], b, Pre(p, k))
        /\ ChildFits(h, P, call2.child, b, Pre(p, call2.level + 1))
    BY <1>1, <1>8, <1>19, <1>20
  <2>3. call2.parallel # Null =>
          /\ call2.parallel \in DOMAIN P /\ ~P[call2.parallel].node
          /\ Finer(P[call2.parallel].tree, b)
    BY <1>4, <1>8
  <2>4. CallShape(call2) /\ call2.s \in DOMAIN P /\ P[call2.s] = Of(b) /\ Kind[Len(b) + 1] = "quad"
    BY <1>4, <1>8
  <2>5. OnPath(h, P, call2, b, p, TRUE)
    <3>1. call2.stack[call2.level].o = n
      BY <1>2, <1>4, <1>6, <1>8 DEF Put, Entry
    <3>2. SharesKid(h, n, p[l + 1], child)
      BY <1>0a, <1>2 DEF SharesKid
    <3>3. call2.child.o = child /\ call2.child.e = Self /\ call2.level = l
      BY <1>8 DEF Entry
    <3> QED BY <3>1, <3>2, <3>3, <2>4 DEF OnPath
  <2> QED BY <2>1, <2>2, <2>3, <2>4, <2>5 DEF CallFits, CallShape
<1> QED
  <2>1. /\ Shape(s2) /\ s2.d \in Dims /\ Sound(s2.heap, P, s2.replaced, Ahead(s2, a))
        /\ Outer(s2.heap, P, s2, a, s2.d - 1)
    BY <1>2, <1>11, <1>13, <1>18
  <2>2. CallFits(s2.heap, P, s2.calls[s2.d], Here(s2, a, s2.d), a[s2.d], TRUE)
    BY <1>0, <1>11, <1>13, <1>21
  <2>3. Going(s2, P, a)
    BY <2>1, <2>2, GoesOn
  <2> QED BY <2>3, <1>9

-----------------------------------------------------------------------------
(* The walk ends, or goes on to the next node, and changes the heap on its *)
(* way only.                                                               *)

InnerOnly(st, st2) == st2.d = st.d /\ \A j \in 1 .. st.d - 1 : st2.calls[j] = st.calls[j]
Stopped(st, st2) ==
  /\ InnerOnly(st, st2)
  /\ st2.calls[st.d].level = st.calls[st.d].level /\ ~st2.calls[st.d].walking
Descended(st, st2, a) ==
  /\ InnerOnly(st, st2)
  /\ st2.calls[st.d].level = st.calls[st.d].level + 1
  /\ st2.calls[st.d].walking <=> st.calls[st.d].level + 1 < Len(a[st.d])

WayHere(st, a) == Way(Here(st, a, st.d), Pre(a[st.d], st.calls[st.d].level))
WayDown(st, a) == Way(Here(st, a, st.d), a[st.d])

Stops(st, P, st2, Q, a) ==
  Going(st2, Q, a) /\ Stopped(st, st2) /\ Kept(st.heap, P, st2.heap, Q, WayHere(st, a))
Descends(st, P, st2, Q, a) ==
  Going(st2, Q, a) /\ Descended(st, st2, a) /\ Kept(st.heap, P, st2.heap, Q, WayDown(st, a))

LEMMA StopIs ==
  ASSUME DimsAssumption, NEW a, NEW st, NEW P, NEW n, WalksAt(st, P, a, n), NEW child,
         NEW st1, st.d = st1.d, st.calls = st1.calls
  PROVE  Stopped(st1, Stop(st, n, child)) /\ Stop(st, n, child).heap = st.heap
<1>1. PICK call, stack2, call2 :
        /\ call = st.calls[st.d]
        /\ stack2 = Put(call.stack, call.level, Entry(n, Self))
        /\ call2 = [call EXCEPT !.walking = FALSE, !.stack = stack2, !.child = Entry(child, Self)]
  OBVIOUS
<1>2. Shape(st) /\ st.d \in Dims /\ CallShape(call)
  BY <1>1, WalkParts DEF WalkCall
<1>3. call2.level = call.level /\ call2.walking = FALSE
  BY <1>1, <1>2 DEF CallShape
<1>4. Stop(st, n, child) = OnCall(st, call2)
  BY <1>1 DEF Stop
<1>5. PICK s2 : s2 = Stop(st, n, child)
  OBVIOUS
<1>6. /\ s2.d = st.d /\ s2.heap = st.heap /\ s2.calls[st.d] = call2
      /\ \A j \in 1 .. st.d : j # st.d => s2.calls[j] = st.calls[j]
  BY <1>2, <1>4, <1>5, OnCallIs
<1>7. \A j \in 1 .. st.d - 1 : j \in 1 .. st.d /\ j # st.d
  BY <1>2, DimsAre
<1> QED BY <1>1, <1>3, <1>5, <1>6, <1>7 DEF Stopped, InnerOnly

LEMMA DescendIs ==
  ASSUME DimsAssumption, NEW a, NEW st, NEW P, NEW n, WalksAt(st, P, a, n), NEW child, NEW par,
         NEW st1, st.d = st1.d, st.calls = st1.calls
  PROVE  /\ Descended(st1, Descend(st, n, child, par, a[st.d]), a)
         /\ Descend(st, n, child, par, a[st.d]).heap = st.heap
<1>1. PICK call, stack2 :
        /\ call = st.calls[st.d]
        /\ stack2 = Put(Put(call.stack, call.level, Entry(n, Self)),
                        call.level + 1, Entry(child, Self))
  OBVIOUS
<1>1a. PICK goes \in BOOLEAN : goes = (call.level + 1 < Len(a[st.d]))
  <2>1. (call.level + 1 < Len(a[st.d])) \in BOOLEAN
    OBVIOUS
  <2> QED BY <2>1
<1>1b. PICK call2 :
        call2 = [call EXCEPT !.walking = goes, !.level = call.level + 1, !.prev = n,
                             !.node = child, !.parNode = par, !.stack = stack2]
  OBVIOUS
<1>2. Shape(st) /\ st.d \in Dims /\ CallShape(call)
  BY <1>1, WalkParts DEF WalkCall
<1>3. call2.level = call.level + 1 /\ call2.walking = goes
  BY <1>1b, <1>2 DEF CallShape
<1>4. Descend(st, n, child, par, a[st.d]) = OnCall(st, call2)
  BY <1>1, <1>1a, <1>1b DEF Descend
<1>5. PICK s2 : s2 = Descend(st, n, child, par, a[st.d])
  OBVIOUS
<1>6. /\ s2.d = st.d /\ s2.heap = st.heap /\ s2.calls[st.d] = call2
      /\ \A j \in 1 .. st.d : j # st.d => s2.calls[j] = st.calls[j]
  BY <1>2, <1>4, <1>5, OnCallIs
<1>7. \A j \in 1 .. st.d - 1 : j \in 1 .. st.d /\ j # st.d
  BY <1>2, DimsAre
<1> QED BY <1>1, <1>1a, <1>3, <1>5, <1>6, <1>7 DEF Descended, InnerOnly

LEMMA KeptSame ==
  ASSUME NEW h, NEW P, NEW V
  PROVE  Kept(h, P, h, P, V)
BY DEF Kept

LEMMA KeptMore ==
  ASSUME NEW h, NEW P, NEW g, NEW Q, NEW V, Kept(h, P, g, Q, V), NEW W, V \subseteq W
  PROVE  Kept(h, P, g, Q, W)
BY DEF Kept

LEMMA AddsKept ==
  ASSUME NEW h, NEW P, NEW R, NEW W, NEW h1, NEW Q, NEW top, Adds(h, P, R, W, h1, Q, top),
         NEW V, \A x \in DOMAIN Q \ DOMAIN P : PlaceOf(Q[x]) \in V
  PROVE  Kept(h, P, h1, Q, V)
BY DEF Adds, Extends, Kept

(* And one object is changed.                                              *)
LEMMA OneKept ==
  ASSUME NEW h, NEW P, NEW h1, NEW Q, NEW V, Kept(h, P, h1, Q, V),
         NEW n, n \in DOMAIN Q => PlaceOf(Q[n]) \in V,
         NEW g, \A x \in DOMAIN Q : x # n => g[x] = h1[x]
  PROVE  Kept(h, P, g, Q, V)
BY DEF Kept

LEMMA WayShorter ==
  ASSUME NEW b, NEW p \in Path, NEW l \in 0 .. Len(p)
  PROVE  Way(b, Pre(p, l)) \subseteq Way(b, p)
<1>1. Pre(p, l) \in Path /\ Starts(Pre(p, l), p)
  BY PreIs, PreStarts DEF Path
<1> QED BY <1>1, StartsTransitive DEF Way, Path

LEMMA HereOnWay ==
  ASSUME NEW P, NEW n, NEW d, NEW l, NEW b, NEW p, WalkIs(P, n, d, l, b, p)
  PROVE  /\ PlaceOf(P[n]) \in Way(b, Pre(p, l)) /\ PlaceOf(P[n]) \in Way(b, p)
         /\ Way(b, Pre(p, l)) \subseteq Way(b, p)
<1>1. p \in Path /\ l \in 0 .. Len(p) /\ P[n].tree = b /\ P[n].path = Pre(p, l) /\ Pre(p, l) \in Path
  BY DEF WalkIs
<1>2. Way(b, Pre(p, l)) \subseteq Way(b, p)
  BY <1>1, WayShorter
<1>3. Starts(Pre(p, l), Pre(p, l))
  BY <1>1, StartsItself DEF Path
<1>4. PlaceOf(P[n]) \in Way(b, Pre(p, l))
  BY <1>1, <1>3 DEF Way, PlaceOf
<1> QED BY <1>2, <1>4

LEMMA KidGivenKept ==
  ASSUME NEW h, NEW P, NEW R, NEW W, NEW h1, NEW Q, NEW top, Adds(h, P, R, W, h1, Q, top),
         NEW V, \A x \in DOMAIN Q \ DOMAIN P : PlaceOf(Q[x]) \in V,
         NEW n \in DOMAIN P, PlaceOf(P[n]) \in V, NEW name, NEW r
  PROVE  Kept(h, P, SetKid(h1, n, name, r), Q, V)
<1>1. Kept(h, P, h1, Q, V)
  BY AddsKept
<1>2. Q[n] = P[n]
  BY DEF Adds, Extends
<1>3. \A x \in DOMAIN Q : x # n => SetKid(h1, n, name, r)[x] = h1[x]
  BY DEF SetKid, Adds
<1> QED BY <1>1, <1>2, <1>3, OneKept

-----------------------------------------------------------------------------
(* New objects.                                                            *)

FreeSpot(Q, spot) == spot \in Spots /\ \A x \in DOMAIN Q : Q[x] # spot
TakesOver(object, t, Q, P) == t \in DOMAIN Q \ DOMAIN P => t \in Owned(object)
PlacedAt(Q, Q1, i, spot) ==
  /\ Extends(Q, Q1) /\ i \in DOMAIN Q \ DOMAIN Q1 /\ Q[i] = spot /\ i \in Nat \ {0}
  /\ DOMAIN Q = DOMAIN Q1 \cup {i}

(* One more object, which takes the one added before.                      *)
LEMMA AddsMore ==
  ASSUME NEW h, NEW P, NEW R, NEW W, NEW h1, NEW Q1, NEW t, Adds(h, P, R, W, h1, Q1, t),
         NEW spot, FreeSpot(Q1, spot),
         NEW i, i = Fresh(h1), NEW object, TakesOver(object, t, Q1, P),
         NEW Q, Q = Put(Q1, i, spot), Fits(Q, R, W, object, spot)
  PROVE  Adds(h, P, R, W, Allocate(h1, object), Q, i) /\ PlacedAt(Q, Q1, i, spot)
<1>0. /\ spot \in Spots /\ \A x \in DOMAIN Q1 : Q1[x] # spot
      /\ t \in DOMAIN Q1 \ DOMAIN P => t \in Owned(object)
  BY DEF FreeSpot, TakesOver
<1>1. /\ Extends(Q1, P) /\ DOMAIN h1 = DOMAIN Q1
      /\ IsFiniteSet(DOMAIN Q1) /\ DOMAIN Q1 \subseteq Nat \ {Null} /\ Q1 \in [DOMAIN Q1 -> Spots]
      /\ \A x \in DOMAIN Q1 \ DOMAIN P, y \in DOMAIN Q1 : Q1[x] = Q1[y] => x = y
      /\ \A x \in DOMAIN P : h1[x] = h[x]
      /\ \A x \in DOMAIN Q1 \ DOMAIN P : Fits(Q1, R, W, h1[x], Q1[x])
      /\ \A x \in DOMAIN Q1 \ DOMAIN P :
           x = t \/ \E y \in DOMAIN Q1 \ DOMAIN P : x \in Owned(h1[y])
  BY DEF Adds
<1>2. IsFiniteSet(DOMAIN h1) /\ DOMAIN h1 \subseteq Nat \ {0}
  BY <1>1 DEF Null
<1> DEFINE g == Allocate(h1, object)
<1>3. /\ DOMAIN g = DOMAIN h1 \cup {i} /\ g[i] = object
      /\ \A x \in DOMAIN h1 : g[x] = h1[x]
      /\ IsFiniteSet(DOMAIN g) /\ DOMAIN g \subseteq Nat \ {0}
  BY <1>2, AllocateIs
<1>4. i \notin DOMAIN h1 /\ i \in Nat \ {0}
  BY <1>2, FreshIs
<1> HIDE DEF g
<1>5. /\ DOMAIN Q = DOMAIN Q1 \cup {i} /\ Q[i] = spot
      /\ \A x \in DOMAIN Q1 : x # i => Q[x] = Q1[x]
  BY DEF Put
<1>6. Q = [x \in DOMAIN Q |-> Q[x]]
  BY DEF Put
<1>7. \A x \in DOMAIN Q1 : Q[x] = Q1[x]
  BY <1>1, <1>4, <1>5
<1>8. Extends(Q, Q1) /\ Extends(Q, P)
  BY <1>1, <1>5, <1>7 DEF Extends
<1>9. \A x \in DOMAIN Q : Q[x] \in Spots
  BY <1>0, <1>1, <1>5, <1>7
<1>10. Q \in [DOMAIN Q -> Spots]
  BY <1>6, <1>9
<1>11. \A x \in DOMAIN Q \ DOMAIN P, y \in DOMAIN Q : Q[x] = Q[y] => x = y
  BY <1>0, <1>1, <1>5, <1>7
<1>12. ASSUME NEW x \in DOMAIN Q \ DOMAIN P PROVE Fits(Q, R, W, g[x], Q[x])
  <2>1. CASE x = i
    BY <2>1, <1>3, <1>5
  <2>2. CASE x # i
    <3>1. x \in DOMAIN Q1 \ DOMAIN P
      BY <2>2, <1>5
    <3>2. Fits(Q1, R, W, h1[x], Q1[x])
      BY <3>1, <1>1
    <3>3. Fits(Q, R, W, h1[x], Q1[x])
      BY <3>2, <1>8, FitsStill
    <3> QED BY <3>1, <3>3, <1>1, <1>3, <1>7
  <2> QED BY <2>1, <2>2
<1>13. ASSUME NEW x \in DOMAIN Q \ DOMAIN P
       PROVE  x = i \/ \E y \in DOMAIN Q \ DOMAIN P : x \in Owned(g[y])
  <2>1. CASE x # i /\ x = t
    <3>1. x \in Owned(g[i]) /\ i \in DOMAIN Q \ DOMAIN P
      BY <2>1, <1>0, <1>1, <1>3, <1>4, <1>5 DEF Extends
    <3> QED BY <3>1
  <2>2. CASE x # i /\ x # t
    <3>1. PICK y \in DOMAIN Q1 \ DOMAIN P : x \in Owned(h1[y])
      BY <2>2, <1>1, <1>5
    <3> QED BY <3>1, <1>1, <1>3, <1>5
  <2> QED BY <2>1, <2>2
<1>14. i \notin DOMAIN Q1 /\ DOMAIN g = DOMAIN Q
  BY <1>1, <1>3, <1>4, <1>5
<1>15. IsFiniteSet(DOMAIN Q) /\ DOMAIN Q \subseteq Nat \ {Null}
  BY <1>3, <1>14 DEF Null
<1>16. \A x \in DOMAIN P : g[x] = h[x]
  BY <1>1, <1>3 DEF Extends
<1>17. Adds(h, P, R, W, g, Q, i)
  BY <1>8, <1>10, <1>11, <1>12, <1>13, <1>14, <1>15, <1>16 DEF Adds
<1>18. PlacedAt(Q, Q1, i, spot)
  BY <1>4, <1>5, <1>8, <1>14 DEF PlacedAt
<1> QED BY <1>17, <1>18 DEF g

LEMMA AddsOne ==
  ASSUME NEW h, NEW P, NEW R, NEW W, Sound(h, P, R, W), NEW spot, FreeSpot(P, spot),
         NEW i, i = Fresh(h), NEW object,
         NEW Q, Q = Put(P, i, spot), Fits(Q, R, W, object, spot)
  PROVE  Adds(h, P, R, W, Allocate(h, object), Q, i) /\ PlacedAt(Q, P, i, spot)
<1>1. Adds(h, P, R, W, h, P, Null) /\ TakesOver(object, Null, P, P)
  BY AddsNothing DEF TakesOver
<1> QED BY <1>1, AddsMore

LEMMA WalkWhole ==
  ASSUME NEW a, NEW st, NEW P, NEW n, Shape(st), st.d \in Dims,
         Sound(st.heap, P, st.replaced, Ahead(st, a)), Outer(st.heap, P, st, a, st.d - 1),
         NEW call, call = st.calls[st.d], NEW l, NEW b, b = Here(st, a, st.d),
         NEW p, p = a[st.d], l \in 0 .. Len(p) - 1,
         WalkCall(P, st.heap, call, l, b, p), n \in DOMAIN P, P[n] = At(b, Pre(p, l))
  PROVE  WalksAt(st, P, a, n)
<1>1. call.level = l
  BY DEF WalkCall
<1> QED BY <1>1 DEF WalksAt, WalkCall

(* The walk goes on as it was in a heap that was changed, at n2 if node n  *)
(* was replaced by it.                                                     *)
LEMMA WalkCarried ==
  ASSUME DimsAssumption, NEW a \in Addresses, NEW st, NEW P, NEW n, WalksAt(st, P, a, n),
         NEW st2, Shape(st2), st2.d = st.d, st2.calls = st.calls,
         NEW Q, Sound(st2.heap, Q, st2.replaced, Ahead(st, a)),
         NEW i \in {Null, n}, Carries(st.heap, P, st2.heap, Q, i),
         NEW n2 \in DOMAIN Q, Q[n2] = P[n]
  PROVE  WalksAt(st2, Q, a, n2)
<1>0. PICK d, call, l, b, p, h, g :
        /\ d = st.d /\ call = st.calls[st.d] /\ l = st.calls[st.d].level
        /\ b = Here(st, a, st.d) /\ p = a[st.d] /\ h = st.heap /\ g = st2.heap
  OBVIOUS
<1>1. WalkIs(P, n, d, l, b, p) /\ Levels(st, a, d - 1)
  BY <1>0, WalkPlace
<1>2. /\ d \in Dims /\ d \in Nat \ {0} /\ b \in Bin /\ Len(b) = d - 1 /\ Len(b) + 1 = d
      /\ p \in Path /\ l \in 0 .. Len(p) - 1 /\ d \in 1 .. Len(Kind)
      /\ n \in DOMAIN P /\ P[n].node /\ P[n].tree = b /\ P[n] = At(b, Pre(p, l))
      /\ P[n].path = Pre(p, l) /\ Len(Pre(p, l)) = l
  BY <1>1 DEF WalkIs
<1>3. /\ Shape(st) /\ Sound(h, P, st.replaced, Ahead(st, a)) /\ Outer(h, P, st, a, d - 1)
      /\ WalkCall(P, h, call, l, b, p)
  BY <1>0, WalkParts
<1>4. /\ CallShape(call) /\ call.walking = TRUE /\ call.level = l /\ call.child = NoEntry
      /\ call.s \in DOMAIN P /\ P[call.s] = Of(b)
      /\ call.parallel # Null =>
           /\ call.parallel \in DOMAIN P /\ ~P[call.parallel].node
           /\ Finer(P[call.parallel].tree, b)
      /\ Kind[Len(b) + 1] = "quad" /\ 0 .. l - 1 \subseteq DOMAIN call.stack
      /\ call.prev = IF l = 0 THEN Null ELSE call.stack[l - 1].o
      /\ \A k \in 0 .. l - 1 : EntryFits(h, P, call.stack[k], b, Pre(p, k))
  BY <1>3 DEF WalkCall
<1>5. Ahead(st2, a) = Ahead(st, a) /\ Here(st2, a, d) = b
  <2>1. \A c, q : Comes(st2, c, q) <=> Comes(st, c, q)
    BY DEF Comes
  <2>2. Here(st2, a, d) = Here(st, a, d)
    BY DEF Here
  <2> QED BY <2>1, <2>2, <1>0 DEF Ahead
<1>6. Null \notin DOMAIN P
  BY <1>3 DEF Sound
<1>7. Carries(h, P, g, Q, i)
  BY <1>0
<1>8. Outer(g, Q, st2, a, d - 1)
  <2> SUFFICES ASSUME NEW j \in 1 .. d - 1
               PROVE  CallFits(g, Q, st2.calls[j], Here(st2, a, j), a[j], FALSE)
    BY DEF Outer
  <2>1. CallFits(h, P, st.calls[j], Here(st, a, j), a[j], FALSE)
    BY <1>3 DEF Outer
  <2>2. Len(Here(st, a, j)) = j - 1
    <3>1. j \in 1 .. Len(Kind) + 1 /\ Levels(st, a, j - 1)
      <4>1. Len(Kind) \in Nat
        BY DimsAre
      <4> QED BY <4>1, <1>1, <1>2 DEF Levels
    <3> QED BY <3>1, HereIs
  <2>3. i \in DOMAIN P => P[i].node /\ Len(P[i].tree) # Len(Here(st, a, j))
    <3>1. d - 1 # j - 1
      BY <1>2
    <3> QED BY <3>1, <2>2, <1>2, <1>6
  <2>4. CallFits(g, Q, st.calls[j], Here(st, a, j), a[j], FALSE)
    <3>1. PICK c, H, r : c = st.calls[j] /\ H = Here(st, a, j) /\ r = a[j]
      OBVIOUS
    <3>2. CallFits(h, P, c, H, r, FALSE)
      BY <2>1, <3>1
    <3>3. i \in DOMAIN P => P[i].node /\ Len(P[i].tree) # Len(H)
      BY <2>3, <3>1
    <3>4. CallFits(g, Q, c, H, r, FALSE)
      BY <3>2, <3>3, <1>7, CallCarried
    <3> QED BY <3>1, <3>4
  <2>5. Here(st2, a, j) = Here(st, a, j)
    BY DEF Here
  <2> QED BY <2>4, <2>5
<1>9. ASSUME NEW x \in DOMAIN P, ~P[x].node \/ P[x].path # P[n].path \/ P[x].tree # b
      PROVE  x \in DOMAIN Q /\ Q[x] = P[x]
  BY <1>2, <1>6, <1>7, <1>9 DEF Carries
<1>10. call.s \in DOMAIN Q /\ Q[call.s] = Of(b)
  <2>1. ~P[call.s].node
    BY <1>4 DEF Of
  <2> QED BY <2>1, <1>4, <1>9
<1>11. call.parallel # Null =>
         /\ call.parallel \in DOMAIN Q /\ ~Q[call.parallel].node
         /\ Finer(Q[call.parallel].tree, b)
  BY <1>4, <1>9
<1>12. ASSUME NEW k \in 0 .. l - 1 PROVE EntryFits(g, Q, call.stack[k], b, Pre(p, k))
  <2>1. EntryFits(h, P, call.stack[k], b, Pre(p, k))
    BY <1>4
  <2>2. Len(Pre(p, k)) = k
    <3>1. k \in 0 .. Len(p)
      BY <1>2 DEF Path
    <3> QED BY <3>1, <1>2, PreIs DEF Path
  <2>3. Pre(p, k) # Pre(p, l)
    BY <2>2, <1>2
  <2>4. call.stack[k].o # i
    BY <2>1, <2>3, <1>2, <1>6 DEF EntryFits
  <2> QED BY <2>1, <2>4, <1>7, EntryCarried
<1>13. Q[n2] = At(b, Pre(p, l))
  BY <1>2
<1>14. Shape(st2) /\ st2.d = d /\ st2.heap = g /\ st2.calls[d] = call
  BY <1>0
<1>15. Sound(g, Q, st2.replaced, Ahead(st2, a))
  BY <1>0, <1>5
<1>16. WalkCall(Q, g, call, l, b, p)
  BY <1>4, <1>10, <1>11, <1>12 DEF WalkCall
<1>17. PICK s : s = st2
  OBVIOUS
<1>18. /\ Shape(s) /\ s.d = d /\ s.heap = g /\ call = s.calls[s.d] /\ b = Here(s, a, s.d)
       /\ p = a[s.d] /\ Sound(s.heap, Q, s.replaced, Ahead(s, a))
       /\ Outer(s.heap, Q, s, a, s.d - 1) /\ WalkCall(Q, s.heap, call, l, b, p)
  BY <1>0, <1>5, <1>8, <1>14, <1>15, <1>16, <1>17
<1>19. WalksAt(s, Q, a, n2)
  BY <1>2, <1>13, <1>18, WalkWhole
<1> QED BY <1>17, <1>19

LEMMA ParCarried ==
  ASSUME NEW h, NEW P, NEW g, NEW Q, NEW i, Carries(h, P, g, Q, i),
         NEW b \in Bin, i \in DOMAIN P => P[i].tree = b,
         NEW m, NEW q, m \in DOMAIN P => P[m].tree \in Bin, ParFits(P, m, b, q)
  PROVE  ParFits(Q, m, b, q)
<1> SUFFICES ASSUME m # Null
             PROVE  m \in DOMAIN Q /\ Q[m].node /\ Q[m].path = q /\ Finer(Q[m].tree, b)
  BY DEF ParFits
<1>1. m \in DOMAIN P /\ P[m].node /\ P[m].path = q /\ Finer(P[m].tree, b)
  BY DEF ParFits
<1>2. P[m].tree # b
  BY <1>1, FinerIs
<1>3. m # i
  BY <1>1, <1>2
<1> QED BY <1>1, <1>3 DEF Carries

-----------------------------------------------------------------------------
(* A node is replaced by a copy with one more child.                       *)

(* What the places on p of the bins that b is part of are in W.            *)
CoarserIn(W, b, p) ==
  \A c \in Bin, q \in Path : Within(b, c) /\ c # b /\ Starts(q, p) => <<c, q>> \in W

LEMMA SharersIn ==
  ASSUME NEW h, NEW P, NEW R, NEW W, Sound(h, P, R, W),
         NEW n, NEW d, NEW l, NEW b, NEW p, WalkIs(P, n, d, l, b, p), CoarserIn(W, b, p),
         NEW x \in DOMAIN P, P[x].node, NEW k \in DOMAIN h[x].kids,
         h[x].kids[k].c = n, ~h[x].kids[k].proper
  PROVE  <<P[x].tree, Append(P[x].path, k)>> \in W
<1>1. NodeFits(P, R, W, h[x], P[x].tree, P[x].path)
  BY SpotOfNode
<1>2. KidFits(P, R, W, h[x].kids[k], P[x].tree, Append(P[x].path, k))
  BY <1>1 DEF NodeFits
<1>3. CASE NodeRef(P, h[x].kids[k], P[x].tree, Append(P[x].path, k))
  <2>1. /\ b \in Bin /\ P[n].tree = b /\ P[n].path = Pre(p, l) /\ Pre(p, l) \in Path
        /\ p \in Path /\ l \in 0 .. Len(p)
    BY DEF WalkIs
  <2>2. Append(P[x].path, k) = Pre(p, l) /\ Within(b, P[x].tree) /\ P[x].tree # b
    BY <1>3, <2>1 DEF NodeRef
  <2>3. Starts(Pre(p, l), p)
    BY <2>1, PreStarts DEF Path
  <2>4. P[x].tree \in Bin
    BY SpotIs
  <2> QED BY <2>1, <2>2, <2>3, <2>4 DEF CoarserIn
<1> QED BY <1>2, <1>3 DEF KidFits

(* Who owns the node that the walk is at.                                  *)
LEMMA OwnerOfWalk ==
  ASSUME NEW h, NEW P, NEW R, NEW W, Sound(h, P, R, W),
         NEW call, NEW n, NEW d, NEW l, NEW b, NEW p,
         WalkIs(P, n, d, l, b, p), WalkCall(P, h, call, l, b, p)
  PROVE  IF l = 0
         THEN /\ call.prev = Null /\ n \in Owned(h[call.s])
              /\ h[call.s].kind = "quad" /\ h[call.s].root = n
         ELSE /\ call.prev \in DOMAIN P /\ P[call.prev].node /\ call.prev # Null
              /\ call.prev # n /\ n \in Owned(h[call.prev])
              /\ HasKid(h, call.prev, p[l], Pointer(n, TRUE))
<1>1. /\ b \in Bin /\ n \in DOMAIN P /\ P[n].node /\ P[n].tree = b /\ P[n].path = Pre(p, l)
      /\ p \in Path /\ l \in 0 .. Len(p) - 1 /\ Len(b) + 1 = d
      /\ Pre(p, l) \in Path /\ Len(Pre(p, l)) = l /\ Len(p) \in Nat
  BY DEF WalkIs
<1>2. /\ call.s \in DOMAIN P /\ P[call.s] = Of(b) /\ Kind[Len(b) + 1] = "quad"
      /\ call.prev = IF l = 0 THEN Null ELSE call.stack[l - 1].o
      /\ \A k \in 0 .. l - 1 : EntryFits(h, P, call.stack[k], b, Pre(p, k))
  BY DEF WalkCall
<1>3. n # Root /\ Null \notin DOMAIN P
  BY <1>1 DEF Sound, Of
<1>4. PICK y \in DOMAIN P : n \in Owned(h[y])
  BY <1>1, <1>3 DEF Sound
<1>5. \/ /\ P[n].path = <<>> /\ P[y] = Of(P[n].tree)
         /\ h[y].kind = "quad" /\ h[y].root = n
      \/ \E k \in Names :
           /\ P[y].node /\ P[y].tree = P[n].tree /\ P[n].path = Append(P[y].path, k)
           /\ k \in DOMAIN h[y].kids /\ h[y].kids[k].c = n /\ h[y].kids[k].proper
  BY <1>1, <1>4, OwnerOfNode
<1>6. CASE l = 0
  <2>1. ASSUME NEW k \in Names, P[n].path = Append(P[y].path, k) PROVE FALSE
    <3>1. P[y].path \in Path
      BY SpotIs
    <3>2. Len(Append(P[y].path, k)) # 0
      BY <3>1 DEF Path
    <3> QED BY <2>1, <3>2, <1>1, <1>6
  <2>2. P[y] = Of(b) /\ h[y].kind = "quad" /\ h[y].root = n
    BY <1>1, <1>5, <2>1
  <2>3. y = call.s
    BY <2>2, <1>2 DEF Sound
  <2> QED BY <1>2, <1>4, <1>6, <2>2, <2>3
<1>7. CASE l # 0
  <2>1. PICK k \in Names :
          /\ P[y].node /\ P[y].tree = b /\ Pre(p, l) = Append(P[y].path, k)
          /\ k \in DOMAIN h[y].kids /\ h[y].kids[k].c = n /\ h[y].kids[k].proper
    <3>1. P[n].path # <<>>
      BY <1>1, <1>7
    <3> QED BY <3>1, <1>1, <1>5
  <2>2. PICK m \in Nat : m = l - 1 /\ m + 1 = l /\ m \in 0 .. Len(p) - 1 /\ m \in 0 .. l - 1
    BY <1>1, <1>7
  <2>3. /\ EntryFits(h, P, call.stack[m], b, Pre(p, m)) /\ call.prev = call.stack[m].o
    BY <1>2, <1>7, <2>2
  <2>4. call.prev \in DOMAIN P /\ P[call.prev] = At(b, Pre(p, m))
    <3>1. PICK x : x = call.stack[m]
      OBVIOUS
    <3>2. EntryFits(h, P, x, b, Pre(p, m))
      BY <2>3, <3>1
    <3>3. x.o \in DOMAIN P /\ P[x.o] = At(b, Pre(p, m))
      BY <3>2, <1>2, EntryKind
    <3> QED BY <2>3, <3>1, <3>3
  <2>5. Append(Pre(p, m), p[l]) = Pre(p, l) /\ p[l] \in Names /\ Pre(p, m) \in Path
    <3>1. Append(Pre(p, m), p[m + 1]) = Pre(p, m + 1)
      BY <1>1, <2>2, PreGrows DEF Path
    <3>2. p[m + 1] \in Names
      BY <1>1, <2>2 DEF Path
    <3>3. Pre(p, m) \in Path
      BY <1>1, <2>2, PreIs DEF Path
    <3> QED BY <3>1, <3>2, <3>3, <2>2
  <2>6. P[y].path = Pre(p, m) /\ k = p[l]
    <3>1. Append(P[y].path, k) = Append(Pre(p, m), p[l])
      BY <2>1, <2>5
    <3>2. P[y].path \in Path
      BY SpotIs
    <3> QED BY <3>1, <3>2, <2>5, AppendSame DEF Path
  <2>7. P[y] = At(b, Pre(p, m))
    BY <2>1, <2>6, SpotIs
  <2>8. y = call.prev
    BY <2>4, <2>7 DEF Sound
  <2>9. h[y].kids[k] = Pointer(n, TRUE)
    <3>1. NodeFits(P, R, W, h[y], P[y].tree, P[y].path)
      BY <2>1, SpotOfNode
    <3>2. h[y].kids[k] \in [c : Nat, proper : BOOLEAN]
      BY <3>1, <2>1 DEF NodeFits, Branches
    <3> QED BY <3>2, <2>1 DEF Pointer
  <2>10. call.prev # n
    <3>1. Len(Pre(p, m)) = m
      <4>1. m \in 0 .. Len(p)
        BY <1>1, <2>2
      <4> QED BY <4>1, <1>1, PreIs DEF Path
    <3>2. P[call.prev].path = Pre(p, m)
      BY <2>4 DEF At
    <3> QED BY <3>1, <3>2, <1>1, <2>2
  <2> QED BY <1>3, <1>4, <1>7, <2>1, <2>4, <2>6, <2>8, <2>9, <2>10 DEF HasKid
<1> QED BY <1>6, <1>7

LEMMA WalkExtends ==
  ASSUME NEW P, NEW Q, Extends(Q, P), NEW n, NEW d, NEW l, NEW b, NEW p, WalkIs(P, n, d, l, b, p)
  PROVE  WalkIs(Q, n, d, l, b, p)
<1>1. n \in DOMAIN P
  BY DEF WalkIs
<1>2. n \in DOMAIN Q /\ Q[n] = P[n]
  BY <1>1 DEF Extends
<1> QED BY <1>2 DEF WalkIs

(* Node n is replaced by its copy, and what it had before is carried on.   *)
Copied(h, P, g, Q, R, W, h1, Q1, n, copy) ==
  /\ Sound(g, Q, R \cup {n}, W) /\ Carries(h, P, g, Q, n)
  /\ copy \in DOMAIN Q /\ Q[copy] = P[n]
  /\ \A x \in DOMAIN Q1 \ {n} : x \in DOMAIN Q /\ Q[x] = Q1[x]
  /\ Kept(h1, Q1, g, Q, Way(Q[copy].tree, Q[copy].path))

CopiedTo(h, P, g, R, W, h1, Q1, n, copy) ==
  \E Q : Copied(h, P, g, Q, R, W, h1, Q1, n, copy)

LEMMA ChildAdded ==
  ASSUME Self \notin Names, NEW h, NEW P, NEW R, NEW W, Sound(h, P, R, W),
         NEW call, NEW n, NEW d, NEW l, NEW b, NEW p,
         WalkIs(P, n, d, l, b, p), WalkCall(P, h, call, l, b, p), call.node = n,
         CoarserIn(W, b, p),
         NEW name, name = NameAfter(p, l), Child(h, n, name) = Null,
         NEW h1, NEW Q1, NEW kid, Adds(h, P, R, W, h1, Q1, kid.c),
         KidFits(Q1, R, W, kid, b, PathAfter(p, l)),
         kid.c \in DOMAIN Q1 \ DOMAIN P => kid.proper,
         NEW copy, copy = Fresh(h1),
         NEW g, g = AddChild(h1, call, p, kid.c, kid.proper)
  PROVE  CopiedTo(h, P, g, R, W, h1, Q1, n, copy) /\ HasKid(g, copy, name, kid)
<1>1. /\ b \in Bin /\ n \in DOMAIN P /\ P[n].node /\ P[n].tree = b /\ P[n].path = Pre(p, l)
      /\ p \in Path /\ l \in 0 .. Len(p) - 1 /\ Len(b) + 1 = d /\ Len(p) = Depth(d)
      /\ name = p[l + 1] /\ name \in Names /\ Append(Pre(p, l), name) = PathAfter(p, l)
      /\ Len(Pre(p, l)) = l /\ Len(p) \in Nat
  BY DEF WalkIs, NameAfter, PathAfter
<1>2. call.level = l
  BY DEF WalkCall
<1>3. PICK g1 : g1 = SetKid(h1, n, name, kid)
  OBVIOUS
<1>4. Sound(g1, Q1, R, W)
  <2>1. name \in DOMAIN h[n].kids => ~h[n].kids[name].proper
    <3>1. NodeFits(P, R, W, h[n], b, Pre(p, l)) /\ Null \notin DOMAIN P /\ n # Null
      <4>1. NodeFits(P, R, W, h[n], b, Pre(p, l))
        BY <1>1, SpotOfNode
      <4>2. Null \notin DOMAIN P
        BY DEF Sound
      <4> QED BY <4>1, <4>2, <1>1
    <3>2. name \in DOMAIN h[n].kids => h[n].kids[name].c = Null
      BY <3>1 DEF Child
    <3>3. name \in DOMAIN h[n].kids => KidFits(P, R, W, h[n].kids[name], b, Append(Pre(p, l), name))
      BY <3>1 DEF NodeFits
    <3> QED BY Zenon, <3>1, <3>2, <3>3 DEF KidFits, NodeRef
  <2>2. Len(P[n].path) < Depth(Len(P[n].tree) + 1)
    BY <1>1
  <2>3. KidFits(Q1, R, W, kid, P[n].tree, Append(P[n].path, name))
    BY <1>1
  <2> QED BY Zenon, <2>1, <2>2, <2>3, <1>1, <1>3, KidSet
<1>5. /\ Extends(Q1, P) /\ DOMAIN h1 = DOMAIN Q1 /\ \A x \in DOMAIN P : h1[x] = h[x]
      /\ IsFiniteSet(DOMAIN h1) /\ DOMAIN h1 \subseteq Nat \ {0}
  BY DEF Adds, Null
<1>6. Branches(h[n]) /\ h[n].kind = "node"
  BY <1>1, SpotOfNode DEF NodeFits
<1>7. /\ n \in DOMAIN h1 /\ h1[n] = h[n] /\ Q1[n] = P[n]
      /\ DOMAIN g1 = DOMAIN h1 /\ \A x \in DOMAIN h1 : x # n => g1[x] = h1[x]
      /\ g1[n] = [h1[n] EXCEPT !.kids = Put(@, name, kid)]
  BY <1>1, <1>3, <1>5 DEF Extends, SetKid
<1>8. kid = Pointer(kid.c, kid.proper)
  BY DEF KidFits, Pointer
<1>9. PICK h2 : h2 = Allocate(h1, g1[n])
  OBVIOUS
<1>10. /\ copy \notin DOMAIN h1 /\ copy \in Nat \ {Null}
       /\ DOMAIN h2 = DOMAIN h1 \cup {copy} /\ h2[copy] = g1[n]
       /\ \A x \in DOMAIN h1 : h2[x] = h1[x]
  <2>1. Fresh(h1) \notin DOMAIN h1 /\ Fresh(h1) \in Nat \ {0}
    BY <1>5, FreshIs
  <2>2. /\ DOMAIN h2 = DOMAIN h1 \cup {Fresh(h1)} /\ h2[Fresh(h1)] = g1[n]
        /\ \A x \in DOMAIN h1 : h2[x] = h1[x]
    BY <1>9, <2>1 DEF Allocate, Put
  <2> QED BY <1>9, <2>1, <2>2 DEF Null
<1>11. g = Free(IF call.prev # Null
                THEN SetKid(h2, call.prev, p[l], Pointer(copy, h2[call.prev].kids[p[l]].proper))
                ELSE [h2 EXCEPT ![call.s].root = copy], n)
  <2>1. h2 = Allocate(h1, [h1[n] EXCEPT !.kids = Put(@, p[l + 1], Pointer(kid.c, kid.proper))])
    BY <1>1, <1>7, <1>8, <1>9
  <2> QED BY <2>1, <1>2 DEF AddChild
<1>12. PICK y : y = IF l = 0 THEN call.s ELSE call.prev
  OBVIOUS
<1>13. /\ y \in DOMAIN P /\ y # n /\ n \in Owned(h[y])
       /\ IF l = 0 THEN call.prev = Null /\ h[y].kind = "quad" /\ h[y].root = n /\ ~P[y].node
          ELSE /\ call.prev # Null /\ call.prev = y /\ P[y].node
               /\ HasKid(h, y, p[l], Pointer(n, TRUE))
  <2>1. call.s \in DOMAIN P /\ call.s # n /\ ~P[call.s].node
    BY <1>1 DEF WalkCall, Of
  <2>2. IF l = 0
        THEN /\ call.prev = Null /\ n \in Owned(h[call.s])
             /\ h[call.s].kind = "quad" /\ h[call.s].root = n
        ELSE /\ call.prev \in DOMAIN P /\ P[call.prev].node /\ call.prev # Null
             /\ call.prev # n /\ n \in Owned(h[call.prev])
             /\ HasKid(h, call.prev, p[l], Pointer(n, TRUE))
    BY OwnerOfWalk
  <2> QED BY <2>1, <2>2, <1>12
<1>14. y \in DOMAIN h1 /\ h1[y] = h[y] /\ h2[y] = h[y] /\ g1[y] = h[y] /\ y # copy /\ Q1[y] = P[y]
  BY <1>5, <1>7, <1>10, <1>13 DEF Extends
<1>15. /\ DOMAIN g = (DOMAIN h1 \cup {copy}) \ {n} /\ g[copy] = g1[n]
       /\ \A x \in DOMAIN h1 \ {n, y} : g[x] = h1[x]
       /\ g[y] = IF l = 0 THEN [h[y] EXCEPT !.root = copy]
                 ELSE [h[y] EXCEPT !.kids = Put(@, p[l], Pointer(copy, TRUE))]
  <2>1. CASE l = 0
    <3>1. g = Free([h2 EXCEPT ![y].root = copy], n)
      BY <2>1, <1>11, <1>12, <1>13
    <3> QED BY <3>1, <2>1, <1>7, <1>10, <1>13, <1>14 DEF Free
  <2>2. CASE l # 0
    <3>1. h2[y].kids[p[l]].proper = TRUE
      BY <2>2, <1>13, <1>14 DEF HasKid, Pointer
    <3>2. g = Free(SetKid(h2, y, p[l], Pointer(copy, TRUE)), n)
      BY <2>2, <3>1, <1>11, <1>13
    <3>3. PICK r : r = Pointer(copy, TRUE)
      OBVIOUS
    <3>4. g = Free([h2 EXCEPT ![y].kids = Put(@, p[l], r)], n)
      BY <3>2, <3>3 DEF SetKid
    <3>5. /\ DOMAIN g = DOMAIN h2 \ {n} /\ \A x \in DOMAIN h2 \ {n, y} : g[x] = h2[x]
          /\ g[y] = [h2[y] EXCEPT !.kids = Put(@, p[l], r)]
      BY <3>4, <1>10, <1>13, <1>14 DEF Free
    <3> QED BY <3>3, <3>5, <2>2, <1>7, <1>10, <1>13, <1>14
  <2> QED BY <2>1, <2>2
<1>16. Moves(g1, Q1, W, g, n, copy, y)
  <2>1. DOMAIN g = (DOMAIN Q1 \ {n}) \cup {copy} /\ g[copy] = g1[n]
    BY <1>5, <1>7, <1>10, <1>15
  <2>2. \A x \in DOMAIN Q1 \ {n, y} : g[x] = g1[x]
    BY <1>5, <1>7, <1>15
  <2>3. \/ g1[y].kind = "quad" /\ g[y] = [g1[y] EXCEPT !.root = copy]
        \/ \E k \in DOMAIN g1[y].kids :
             /\ Q1[y].node /\ g1[y].kids[k] = Pointer(n, TRUE)
             /\ g[y] = [g1[y] EXCEPT !.kids = Put(@, k, Pointer(copy, TRUE))]
    <3>1. CASE l = 0
      BY <3>1, <1>13, <1>14, <1>15
    <3>2. CASE l # 0
      <4>1. p[l] \in DOMAIN g1[y].kids /\ Q1[y].node /\ g1[y].kids[p[l]] = Pointer(n, TRUE)
        BY <3>2, <1>13, <1>14 DEF HasKid
      <4>2. g[y] = [g1[y] EXCEPT !.kids = Put(@, p[l], Pointer(copy, TRUE))]
        BY <3>2, <1>14, <1>15
      <4> QED BY <4>1, <4>2
    <3> QED BY <3>1, <3>2
  <2>4. ASSUME NEW x \in DOMAIN Q1, Q1[x].node, NEW k \in DOMAIN g1[x].kids,
               g1[x].kids[k].c = n, ~g1[x].kids[k].proper
        PROVE  <<Q1[x].tree, Append(Q1[x].path, k)>> \in W
    <3>1. WalkIs(Q1, n, d, l, b, p)
      BY <1>5, WalkExtends
    <3> QED BY <2>4, <3>1, <1>4, SharersIn
  <2> QED BY <2>1, <2>2, <2>3, <2>4 DEF Moves
<1>17. PICK Q : Q = MovedSpots(Q1, g, n, copy)
  OBVIOUS
<1>18. Sound(g, Q, R \cup {n}, W)
  <2>1. n \in DOMAIN Q1 /\ Q1[n].node /\ y \in DOMAIN Q1 /\ n \in Owned(g1[y])
    BY <1>1, <1>5, <1>7, <1>13, <1>14
  <2>2. copy \in Nat \ {Null} /\ copy \notin DOMAIN Q1
    BY <1>5, <1>10
  <2> QED BY <2>1, <2>2, <1>4, <1>16, <1>17, Moved
<1>19. /\ copy \in DOMAIN Q /\ Q[copy] = P[n]
       /\ \A x \in DOMAIN Q1 \ {n} : x \in DOMAIN Q /\ Q[x] = Q1[x]
  BY <1>5, <1>7, <1>10, <1>15, <1>17 DEF MovedSpots
<1>20. HasKid(g, copy, name, kid)
  <2>1. g[copy].kids = Put(h[n].kids, name, kid)
    BY <1>6, <1>7, <1>15 DEF Branches
  <2> QED BY <2>1 DEF HasKid, Put
<1>21. Carries(h, P, g, Q, n)
  <2> SUFFICES ASSUME NEW x \in DOMAIN P \ {n}
               PROVE  /\ x \in DOMAIN Q /\ Q[x] = P[x] /\ g[x].kind = h[x].kind
                      /\ h[x].kind = "flat" => DOMAIN h[x].kids \subseteq DOMAIN g[x].kids
    BY DEF Carries
  <2>1. x \in DOMAIN Q /\ Q[x] = P[x]
    BY <1>5, <1>19 DEF Extends
  <2>2. CASE x # y
    <3>1. g[x] = h[x]
      BY <2>2, <1>5, <1>15 DEF Extends
    <3> QED BY <2>1, <3>1
  <2>3. CASE x = y
    <3>1. g[y].kind = h[y].kind
      BY <1>15
    <3>2. h[y].kind # "flat"
      <4>1. l # 0 => h[y].kind = "node"
        BY <1>13, SpotOfNode DEF NodeFits
      <4> QED BY <4>1, <1>13
    <3> QED BY <2>1, <2>3, <3>1, <3>2
  <2> QED BY <2>2, <2>3
<1>22. Kept(h1, Q1, g, Q, Way(P[n].tree, P[n].path))
  <2> SUFFICES ASSUME NEW x \in DOMAIN Q,
                      ~(x \in DOMAIN Q1 /\ Q[x] = Q1[x] /\ g[x] = h1[x])
               PROVE  PlaceOf(Q[x]) \in Way(P[n].tree, P[n].path)
    BY DEF Kept
  <2>1. x = copy \/ x = y
    BY <1>5, <1>15, <1>17, <1>19 DEF MovedSpots
  <2>2. P[n].tree \in Bin /\ P[n].path \in Path
    BY <1>1, SpotIs
  <2>3. CASE x = copy
    BY <2>2, <2>3, <1>19, StartsItself DEF Way, PlaceOf, Path
  <2>4. CASE x = y
    <3>1. Q[x] = P[y] /\ P[y].path \in Path
      BY <2>4, <1>5, <1>13, <1>14, <1>19, SpotIs
    <3>2. P[y].tree = P[n].tree /\ Starts(P[y].path, P[n].path)
      <4>1. \/ P[n].path = <<>> /\ P[y] = Of(P[n].tree)
            \/ \E k \in Names : /\ P[y].tree = P[n].tree
                               /\ P[n].path = Append(P[y].path, k)
        BY <1>1, <1>13, OwnerOfNode
      <4>2. CASE P[n].path = <<>> /\ P[y] = Of(P[n].tree)
        <5>1. P[y].tree = P[n].tree /\ P[y].path = P[n].path
          BY <4>2 DEF Of
        <5>2. Starts(P[n].path, P[n].path)
          BY <2>2, StartsItself DEF Path
        <5> QED BY <5>1, <5>2
      <4>3. ASSUME NEW k \in Names, P[n].path = Append(P[y].path, k)
            PROVE  Starts(P[y].path, P[n].path)
        <5>1. P[y].path \in Seq(Names) /\ P[n].path \in Seq(Names)
          BY <3>1, <2>2 DEF Path
        <5>2. Len(P[y].path) <= Len(P[n].path)
              /\ \A j \in 1 .. Len(P[y].path) : P[y].path[j] = P[n].path[j]
          BY <5>1, <4>3, AppendIs
        <5> QED BY <5>1, <5>2, StartsIs
      <4> QED BY <4>1, <4>2, <4>3
    <3> QED BY <3>1, <3>2 DEF Way, PlaceOf
  <2> QED BY <2>1, <2>3, <2>4
<1> QED BY <1>18, <1>19, <1>20, <1>21, <1>22 DEF CopiedTo, Copied

LEMMA CoarserInAhead ==
  ASSUME DimsAssumption, NEW a \in Addresses, NEW st, st.d \in Dims, Levels(st, a, st.d - 1)
  PROVE  CoarserIn(Ahead(st, a), Here(st, a, st.d), a[st.d])
BY CoarserAhead DEF CoarserIn

(* The walk goes on at the copy, which has the kid; else all is as in Q1.  *)
OnCopy(st, Q, a, copy, name, kid, h1, Q1, n) ==
  /\ WalksAt(st, Q, a, copy) /\ HasKid(st.heap, copy, name, kid)
  /\ \A x \in DOMAIN Q1 \ {n} : x \in DOMAIN Q /\ Q[x] = Q1[x]
  /\ Kept(h1, Q1, st.heap, Q, Way(Q[copy].tree, Q[copy].path))

ToCopy(st, a, copy, name, kid, h1, Q1, n) ==
  \E Q : OnCopy(st, Q, a, copy, name, kid, h1, Q1, n)

Replaces(st, g, n) == [OnHeap(st, g) EXCEPT !.replaced = @ \cup {n}]

Replacement(st, a, h1, kid) == AddChild(h1, st.calls[st.d], a[st.d], kid.c, kid.proper)
NextName(st, a) == NameAfter(a[st.d], st.calls[st.d].level)
NextPath(st, a) == PathAfter(a[st.d], st.calls[st.d].level)

(* A record with the fields of the insertion.                              *)
LEMMA ReplacesIs ==
  ASSUME NEW st, Shape(st), NEW g, NEW n
  PROVE  /\ Shape(Replaces(st, g, n)) /\ Replaces(st, g, n).d = st.d
         /\ Replaces(st, g, n).calls = st.calls /\ Replaces(st, g, n).heap = g
         /\ Replaces(st, g, n).replaced = st.replaced \cup {n}
         /\ Replaces(st, g, n).updated = st.updated /\ Replaces(st, g, n).fault = st.fault
BY DEF Replaces, OnHeap, Shape

LEMMA ReplacedGoes ==
  ASSUME DimsAssumption, NEW a \in Addresses, NEW st, NEW P, NEW n, WalksAt(st, P, a, n),
         st.calls[st.d].node = n, Child(st.heap, n, NextName(st, a)) = Null,
         NEW h1, NEW Q1, NEW kid,
         Adds(st.heap, P, st.replaced, Ahead(st, a), h1, Q1, kid.c),
         KidFits(Q1, st.replaced, Ahead(st, a), kid, Here(st, a, st.d), NextPath(st, a)),
         kid.c \in DOMAIN Q1 \ DOMAIN P => kid.proper
  PROVE  ToCopy(Replaces(st, Replacement(st, a, h1, kid), n),
                a, Fresh(h1), NextName(st, a), kid, h1, Q1, n)
<1>0. PICK d, call, l, b, p, h, g, R, W, name, q, copy, st2 :
        /\ d = st.d /\ call = st.calls[st.d] /\ l = st.calls[st.d].level
        /\ b = Here(st, a, st.d) /\ p = a[st.d] /\ h = st.heap
        /\ g = Replacement(st, a, h1, kid) /\ R = st.replaced /\ W = Ahead(st, a)
        /\ name = NextName(st, a) /\ q = NextPath(st, a) /\ copy = Fresh(h1)
        /\ st2 = Replaces(st, g, n)
  OBVIOUS
<1>1. WalkIs(P, n, d, l, b, p) /\ Levels(st, a, d - 1)
  BY <1>0, WalkPlace
<1>2. Sound(h, P, R, W) /\ WalkCall(P, h, call, l, b, p) /\ d \in Dims
  BY <1>0, WalkParts
<1>3. CoarserIn(W, b, p)
  BY <1>0, <1>1, <1>2, CoarserInAhead
<1>4. /\ Child(h, n, name) = Null /\ name = NameAfter(p, l) /\ q = PathAfter(p, l)
      /\ call.node = n /\ g = AddChild(h1, call, p, kid.c, kid.proper)
  BY <1>0 DEF NextName, NextPath, Replacement
<1>5. Adds(h, P, R, W, h1, Q1, kid.c) /\ KidFits(Q1, R, W, kid, b, PathAfter(p, l))
  BY <1>0, <1>4
<1>6. Self \notin Names
  BY NoNameIsSelf
<1>7. PICK Q : Copied(h, P, g, Q, R, W, h1, Q1, n, copy) /\ HasKid(g, copy, name, kid)
  <2>1. copy = Fresh(h1)
    BY <1>0
  <2>2. CopiedTo(h, P, g, R, W, h1, Q1, n, copy) /\ HasKid(g, copy, name, kid)
    BY <2>1, <1>1, <1>2, <1>3, <1>4, <1>5, <1>6, ChildAdded
  <2> QED BY <2>2 DEF CopiedTo
<1>8. /\ Shape(st2) /\ st2.d = st.d /\ st2.calls = st.calls
      /\ st2.heap = g /\ st2.replaced = R \cup {n}
  <2>1. Shape(st)
    BY WalkParts
  <2> QED BY <2>1, <1>0, ReplacesIs
<1>9. WalksAt(st2, Q, a, copy)
  <2>1. Sound(st2.heap, Q, st2.replaced, Ahead(st, a))
    BY <1>0, <1>7, <1>8 DEF Copied
  <2>2. Carries(st.heap, P, st2.heap, Q, n)
    BY <1>0, <1>7, <1>8 DEF Copied
  <2>3. copy \in DOMAIN Q /\ Q[copy] = P[n] /\ n \in {Null, n}
    BY <1>7 DEF Copied
  <2> QED BY SMTT(20), <2>1, <2>2, <2>3, <1>8, WalkCarried
<1>10. OnCopy(st2, Q, a, copy, name, kid, h1, Q1, n)
  BY <1>7, <1>8, <1>9 DEF OnCopy, Copied
<1> QED BY <1>0, <1>10 DEF ToCopy

(* There is no next node, and the parallel one is shared.                  *)
LEMMA ReplaceStops ==
  ASSUME DimsAssumption, NEW a \in Addresses, NEW st, NEW P, NEW n, WalksAt(st, P, a, n),
         st.calls[st.d].node = n, Child(st.heap, n, NextName(st, a)) = Null,
         NEW m, m # Null, ParFits(P, m, Here(st, a, st.d), NextPath(st, a))
  PROVE  \E Q : Stops(st, P, Stop(Replaces(st, Replacement(st, a, st.heap, Pointer(m, FALSE)), n),
                                  Fresh(st.heap), m), Q, a)
<1>0. PICK d, l, b, p, h, R, W, q, kid, copy, name, st2 :
        /\ d = st.d /\ l = st.calls[st.d].level
        /\ b = Here(st, a, st.d) /\ p = a[st.d] /\ h = st.heap
        /\ R = st.replaced /\ W = Ahead(st, a)
        /\ q = NextPath(st, a) /\ name = NextName(st, a)
        /\ kid = Pointer(m, FALSE) /\ copy = Fresh(st.heap)
        /\ st2 = Replaces(st, Replacement(st, a, st.heap, kid), n)
  OBVIOUS
<1>1. WalkIs(P, n, d, l, b, p)
  BY <1>0, WalkPlace
<1>2. /\ b \in Bin /\ q \in Path /\ Len(q) = l + 1 /\ l \in 0 .. Len(p) - 1
      /\ Len(P[n].path) = l
  <2>1. q = Pre(p, l + 1)
    BY <1>0 DEF NextPath, PathAfter
  <2> QED BY <2>1, <1>1 DEF WalkIs
<1>3. Sound(h, P, R, W) /\ Shape(st)
  BY <1>0, WalkParts
<1>4. /\ m \in DOMAIN P /\ P[m].node /\ P[m].path = q /\ Finer(P[m].tree, b)
      /\ m \in Nat
  <2>1. ParFits(P, m, b, q)
    BY <1>0
  <2>2. m \in DOMAIN P /\ P[m].node /\ P[m].path = q /\ Finer(P[m].tree, b)
    BY <2>1 DEF ParFits
  <2> QED BY <2>2, <1>3 DEF Sound
<1>5. NodeRef(P, kid, b, q)
  <2>1. P[m].tree \in Bin
    BY <1>3, <1>4, SpotIs
  <2>2. Within(P[m].tree, b) /\ P[m].tree # b
    BY <2>1, <1>2, <1>4, FinerIs
  <2>3. kid.c = m /\ kid.proper = FALSE
    BY <1>0 DEF Pointer
  <2> QED BY <2>2, <2>3, <1>4 DEF NodeRef
<1>6. KidFits(P, R, W, kid, b, q) /\ kid.c = m /\ kid.proper = FALSE
  BY <1>0, <1>4, <1>5 DEF KidFits, Pointer
<1>7. Adds(h, P, R, W, h, P, kid.c)
  BY <1>3, AddsNothing
<1>8. PICK Q : OnCopy(st2, Q, a, copy, name, kid, h, P, n)
  <2>1. Adds(st.heap, P, st.replaced, Ahead(st, a), st.heap, P, kid.c)
    BY <1>0, <1>7
  <2>2. KidFits(P, st.replaced, Ahead(st, a), kid, Here(st, a, st.d), NextPath(st, a))
    BY <1>0, <1>6
  <2>3. kid.c \in DOMAIN P \ DOMAIN P => kid.proper
    OBVIOUS
  <2>4. ToCopy(Replaces(st, Replacement(st, a, st.heap, kid), n),
               a, Fresh(st.heap), NextName(st, a), kid, st.heap, P, n)
    BY <2>1, <2>2, <2>3, ReplacedGoes
  <2>5. ToCopy(st2, a, copy, name, kid, h, P, n)
    BY <2>4, <1>0
  <2> QED BY <2>5 DEF ToCopy
<1>9. NodeRef(Q, kid, b, q)
  <2>1. m # n
    BY <1>2, <1>4
  <2>2. m \in DOMAIN Q /\ Q[m] = P[m]
    BY <2>1, <1>4, <1>8 DEF OnCopy
  <2> QED BY <2>2, <1>4, <1>5, <1>6 DEF NodeRef
<1>10. st2.d = d /\ st2.calls = st.calls
  <2>1. PICK g : g = Replacement(st, a, st.heap, kid)
    OBVIOUS
  <2>2. Replaces(st, g, n).d = st.d /\ Replaces(st, g, n).calls = st.calls
    BY <1>3, ReplacesIs
  <2> QED BY <2>1, <2>2, <1>0
<1>11. /\ Here(st2, a, st2.d) = b /\ PathAfter(a[st2.d], st2.calls[st2.d].level) = q
       /\ NameAfter(a[st2.d], st2.calls[st2.d].level) = name
  BY <1>0, <1>10 DEF Here, NextPath, NextName
<1>12. Going(Stop(st2, copy, m), Q, a)
  <2>1. HasKid(st2.heap, copy, NameAfter(a[st2.d], st2.calls[st2.d].level), Pointer(m, FALSE))
    BY <1>0, <1>8, <1>11 DEF OnCopy
  <2>2. NodeRef(Q, Pointer(m, FALSE), Here(st2, a, st2.d),
                PathAfter(a[st2.d], st2.calls[st2.d].level))
    BY <1>0, <1>9, <1>11
  <2>3. WalksAt(st2, Q, a, copy)
    BY <1>8 DEF OnCopy
  <2> QED BY <2>1, <2>2, <2>3, StopGoes
<1>13. Stopped(st, Stop(st2, copy, m)) /\ Stop(st2, copy, m).heap = st2.heap
  <2>1. WalksAt(st2, Q, a, copy) /\ st2.d = st.d /\ st2.calls = st.calls
    BY <1>0, <1>8, <1>10 DEF OnCopy
  <2> QED BY <2>1, StopIs
<1>14. Kept(h, P, st2.heap, Q, WayHere(st, a))
  <2>1. WalksAt(st2, Q, a, copy) /\ Kept(h, P, st2.heap, Q, Way(Q[copy].tree, Q[copy].path))
    BY <1>8 DEF OnCopy
  <2>2. WalkIs(Q, copy, st2.d, st2.calls[st2.d].level, Here(st2, a, st2.d), a[st2.d])
    BY <2>1, WalkPlace
  <2>3. WalkIs(Q, copy, d, l, b, p)
    BY <2>2, <1>0, <1>10, <1>11
  <2>4. Q[copy].tree = b /\ Q[copy].path = Pre(p, l)
    BY <2>3 DEF WalkIs
  <2> QED BY <2>1, <2>4, <1>0 DEF WayHere
<1>15. Stops(st, P, Stop(st2, copy, m), Q, a)
  BY <1>0, <1>12, <1>13, <1>14 DEF Stops
<1> QED BY <1>0, <1>15

-----------------------------------------------------------------------------
(* A new path.                                                             *)

LEMMA AtIs ==
  ASSUME NEW b \in Bin, NEW q \in Path
  PROVE  At(b, q) \in Spots /\ At(b, q).node /\ At(b, q).tree = b /\ At(b, q).path = q
<1>1. At(b, q) \in { At(c, r) : c \in Bin, r \in Path }
  OBVIOUS
<1>2. At(b, q) \in Spots
  BY <1>1 DEF Spots
<1> QED BY <1>2 DEF At

LEMMA PathOfSpot ==
  ASSUME NEW s \in Spots
  PROVE  s.path \in Path /\ s.tree \in Bin
<1>1. CASE \E b \in Bin, q \in Path : s = At(b, q)
  BY <1>1 DEF At
<1>2. CASE \E b \in Bin : s = Of(b)
  <2>1. <<>> \in Path
    BY DEF Path
  <2> QED BY <2>1, <1>2 DEF Of
<1> QED BY <1>1, <1>2 DEF Spots

LEMMA PathEndFits ==
  ASSUME NEW Q, NEW R, NEW W, NEW b, NEW q \in Path,
         Len(b) + 1 \in Dims, Kind[Len(b) + 1] = "quad", Len(q) = Depth(Len(b) + 1)
  PROVE  NodeFits(Q, R, W, QuadNode(NoContent, <<>>), b, q)
<1>1. PICK object : object = QuadNode(NoContent, <<>>)
  OBVIOUS
<1>2. /\ object.kind = "node" /\ object.self = NoContent /\ object.kids = <<>>
      /\ DOMAIN object = {"kind", "self", "kids"}
  BY <1>1 DEF QuadNode
<1>3. DOMAIN object.kids = {} /\ object.kids = [x \in DOMAIN object.kids |-> object.kids[x]]
  BY <1>2
<1>4. Branches(object) /\ ~OnlyChild(object)
  BY <1>2, <1>3 DEF Branches, OnlyChild
<1>5. HolderFits(Q, object.self, Append(b, q))
  BY <1>2 DEF HolderFits, NoContent, Holder, Null
<1>6. Len(q) <= Depth(Len(b) + 1)
  <2>1. Len(q) \in Nat
    BY DEF Path
  <2> QED BY <2>1
<1> QED BY <1>1, <1>2, <1>3, <1>4, <1>5, <1>6 DEF NodeFits

LEMMA PathNodeFits ==
  ASSUME NEW Q, NEW R, NEW W, NEW b, NEW q \in Path, NEW k \in Names,
         Len(b) + 1 \in Dims, Kind[Len(b) + 1] = "quad", Depth(Len(b) + 1) \in Nat,
         Len(q) < Depth(Len(b) + 1), b \in Bin,
         NEW m \in DOMAIN Q, m \in Nat \ {Null}, Q[m] = At(b, Append(q, k)),
         NEW object, object = QuadNode(NoContent, Put(<<>>, k, Pointer(m, TRUE)))
  PROVE  NodeFits(Q, R, W, object, b, q) /\ m \in Owned(object)
<1>1. PICK r : r = Pointer(m, TRUE)
  OBVIOUS
<1>2. /\ object.kind = "node" /\ object.self = NoContent /\ object.kids = Put(<<>>, k, r)
      /\ DOMAIN object = {"kind", "self", "kids"}
  BY <1>1 DEF QuadNode
<1>3. DOMAIN object.kids = {k} /\ object.kids[k] = r
  <2>1. DOMAIN <<>> = {}
    OBVIOUS
  <2> QED BY <1>2, <2>1 DEF Put
<1>4. object.kids = [x \in DOMAIN object.kids |-> object.kids[x]]
  BY <1>2 DEF Put
<1>5. r \in [c : Nat, proper : BOOLEAN] /\ r.c = m /\ r.proper = TRUE
  BY <1>1 DEF Pointer
<1>6. Branches(object)
  <2>1. \A x \in DOMAIN object.kids : object.kids[x] \in [c : Nat, proper : BOOLEAN]
    BY <1>3, <1>5
  <2>2. object.kids \in [DOMAIN object.kids -> [c : Nat, proper : BOOLEAN]]
    BY <1>4, <2>1
  <2> QED BY <1>2, <1>3, <2>2 DEF Branches
<1>7. HolderFits(Q, object.self, Append(b, q)) /\ ~object.self.proper
  <2>1. NoContent \in [c : Nat, proper : BOOLEAN] /\ ~NoContent.proper
    BY DEF NoContent, Holder, Null
  <2> QED BY <1>2, <2>1 DEF HolderFits
<1>8. KidFits(Q, R, W, r, b, Append(q, k))
  <2>1. Within(b, b)
    BY WithinItself
  <2>2. Q[m].node /\ Q[m].path = Append(q, k) /\ Q[m].tree = b
    BY DEF At
  <2> QED BY <1>5, <2>1, <2>2 DEF KidFits, NodeRef
<1>9. Len(q) \in Nat
  BY DEF Path
<1>10. NodeFits(Q, R, W, object, b, q)
  <2>1. Len(q) <= Depth(Len(b) + 1) /\ Len(q) # Depth(Len(b) + 1)
    BY <1>9
  <2>2. \A x \in DOMAIN object.kids : KidFits(Q, R, W, object.kids[x], b, Append(q, x))
    BY <1>3, <1>8
  <2> QED BY <1>2, <1>3, <1>6, <1>7, <2>1, <2>2 DEF NodeFits
<1>11. m \in Owned(object)
  BY <1>2, <1>3, <1>5, <1>6, OwnedByBranches
<1> QED BY <1>10, <1>11

(* The part of the path from its l-th node on.                             *)
PathMade(h, P, R, W, path, b, p, l) ==
  \E Q : /\ Adds(h, P, R, W, path.heap, Q, path.top)
         /\ path.top \in DOMAIN Q \ DOMAIN P /\ Q[path.top] = At(b, Pre(p, l))
         /\ \A x \in DOMAIN Q \ DOMAIN P : Q[x].node /\ Len(Q[x].path) >= l
         /\ \A x \in DOMAIN Q \ DOMAIN P : PlaceOf(Q[x]) \in Way(b, p)

LEMMA OnWay ==
  ASSUME NEW b, NEW p \in Path, NEW l \in 0 .. Len(p),
         NEW spot, spot.tree = b, spot.path = Pre(p, l)
  PROVE  PlaceOf(spot) \in Way(b, p)
<1>1. Pre(p, l) \in Path /\ Starts(Pre(p, l), p)
  BY PreIs, PreStarts DEF Path
<1> QED BY <1>1 DEF Way, PlaceOf

LEMMA PathEnd ==
  ASSUME NEW h, NEW P, NEW R, NEW W, Sound(h, P, R, W),
         NEW b \in Bin, Len(b) + 1 \in Dims, Kind[Len(b) + 1] = "quad",
         NEW p \in Path, NEW l, l = Len(p), Len(p) = Depth(Len(b) + 1),
         \A m \in DOMAIN P : P[m] # At(b, Pre(p, l))
  PROVE  PathMade(h, P, R, W,
                  [heap |-> Allocate(h, QuadNode(NoContent, <<>>)), top |-> Fresh(h)], b, p, l)
<1>1. Pre(p, l) \in Path /\ Len(Pre(p, l)) = l /\ l \in Nat
  <2>1. l \in 0 .. Len(p) /\ p \in Seq(Names) /\ l \in Nat
    BY DEF Path
  <2> QED BY <2>1, PreIs DEF Path
<1>2. PICK object, spot, i, Q, path :
        /\ object = QuadNode(NoContent, <<>>) /\ spot = At(b, Pre(p, l)) /\ i = Fresh(h)
        /\ Q = Put(P, i, spot) /\ path = [heap |-> Allocate(h, object), top |-> i]
  OBVIOUS
<1>3. spot \in Spots /\ spot.node /\ spot.tree = b /\ spot.path = Pre(p, l)
  BY <1>1, <1>2, AtIs
<1>4. Fits(Q, R, W, object, spot)
  BY <1>1, <1>2, <1>3, PathEndFits DEF Fits
<1>5. /\ Adds(h, P, R, W, Allocate(h, object), Q, i)
      /\ i \in DOMAIN Q \ DOMAIN P /\ Q[i] = spot /\ DOMAIN Q = DOMAIN P \cup {i}
  <2>1. i = Fresh(h) /\ Q = Put(P, i, spot) /\ FreeSpot(P, spot)
    BY <1>2, <1>3 DEF FreeSpot
  <2>2. Adds(h, P, R, W, Allocate(h, object), Q, i) /\ PlacedAt(Q, P, i, spot)
    BY <2>1, <1>4, AddsOne
  <2> QED BY <2>2 DEF PlacedAt
<1>6. \A x \in DOMAIN Q \ DOMAIN P : Q[x].node /\ Len(Q[x].path) >= l
  BY <1>1, <1>3, <1>5
<1>7. path.heap = Allocate(h, object) /\ path.top = i
  BY <1>2
<1>8. PlaceOf(spot) \in Way(b, p)
  BY <1>1, <1>3, OnWay
<1>9. PathMade(h, P, R, W, path, b, p, l)
  BY <1>2, <1>5, <1>6, <1>7, <1>8 DEF PathMade
<1> QED BY <1>2, <1>9

LEMMA PathGrows ==
  ASSUME NEW h, NEW P, NEW R, NEW W, Sound(h, P, R, W),
         NEW b \in Bin, Len(b) + 1 \in Dims, Kind[Len(b) + 1] = "quad",
         NEW p \in Path, NEW l \in 0 .. Len(p) - 1, Len(p) = Depth(Len(b) + 1),
         \A m \in DOMAIN P : P[m] # At(b, Pre(p, l)),
         NEW below, PathMade(h, P, R, W, below, b, p, l + 1),
         NEW k, k = p[l + 1]
  PROVE  PathMade(h, P, R, W,
                  [heap |-> Allocate(below.heap,
                                     QuadNode(NoContent, Put(<<>>, k, Pointer(below.top, TRUE)))),
                   top |-> Fresh(below.heap)], b, p, l)
<1>1. /\ Pre(p, l) \in Path /\ Len(Pre(p, l)) = l /\ l \in Nat /\ k \in Names
      /\ Append(Pre(p, l), k) = Pre(p, l + 1) /\ Len(p) \in Nat
  <2>1. p \in Seq(Names) /\ Len(p) \in Nat
    BY DEF Path
  <2>2. l \in 0 .. Len(p) /\ l \in Nat /\ p[l + 1] \in Names
    BY <2>1
  <2>3. Pre(p, l) \in Path /\ Len(Pre(p, l)) = l
    BY <2>1, <2>2, PreIs DEF Path
  <2>4. Append(Pre(p, l), p[l + 1]) = Pre(p, l + 1)
    BY <2>1, PreGrows
  <2> QED BY <2>1, <2>2, <2>3, <2>4
<1>2. PICK Q1 : /\ Adds(h, P, R, W, below.heap, Q1, below.top)
                /\ below.top \in DOMAIN Q1 \ DOMAIN P /\ Q1[below.top] = At(b, Pre(p, l + 1))
                /\ \A x \in DOMAIN Q1 \ DOMAIN P : Q1[x].node /\ Len(Q1[x].path) >= l + 1
                /\ \A x \in DOMAIN Q1 \ DOMAIN P : PlaceOf(Q1[x]) \in Way(b, p)
  BY DEF PathMade
<1>3. PICK h1, t : h1 = below.heap /\ t = below.top
  OBVIOUS
<1>4. /\ Adds(h, P, R, W, h1, Q1, t) /\ t \in DOMAIN Q1 \ DOMAIN P
      /\ Q1[t] = At(b, Pre(p, l + 1))
  BY <1>2, <1>3
<1>5. PICK object, spot, i, Q, path :
        /\ object = QuadNode(NoContent, Put(<<>>, k, Pointer(t, TRUE)))
        /\ spot = At(b, Pre(p, l)) /\ i = Fresh(h1)
        /\ Q = Put(Q1, i, spot) /\ path = [heap |-> Allocate(h1, object), top |-> i]
  OBVIOUS
<1>6. spot \in Spots /\ spot.node /\ spot.tree = b /\ spot.path = Pre(p, l)
  BY <1>1, <1>5, AtIs
<1>7. \A x \in DOMAIN Q1 : Q1[x] # spot
  <2> TAKE x \in DOMAIN Q1
  <2>1. CASE x \in DOMAIN P
    <3>1. Q1[x] = P[x]
      BY <2>1, <1>4 DEF Adds, Extends
    <3> QED BY <2>1, <3>1, <1>5
  <2>2. CASE x \notin DOMAIN P
    <3>1. Len(Q1[x].path) >= l + 1
      BY <2>2, <1>2
    <3> QED BY <3>1, <1>1, <1>6
  <2> QED BY <2>1, <2>2
<1>8. t \in Nat \ {Null} /\ IsFiniteSet(DOMAIN h1) /\ DOMAIN h1 \subseteq Nat \ {0}
      /\ DOMAIN h1 = DOMAIN Q1
  BY <1>4 DEF Adds, Null
<1>9. i \notin DOMAIN Q1
  BY <1>5, <1>8, FreshIs
<1>10. Q[t] = At(b, Append(Pre(p, l), k)) /\ t \in DOMAIN Q
  BY <1>1, <1>4, <1>5, <1>9 DEF Put
<1>11. NodeFits(Q, R, W, object, b, Pre(p, l)) /\ t \in Owned(object)
  <2>1. Len(Pre(p, l)) < Depth(Len(b) + 1) /\ Depth(Len(b) + 1) \in Nat
    BY <1>1
  <2> QED BY <2>1, <1>1, <1>5, <1>8, <1>10, PathNodeFits
<1>12. Fits(Q, R, W, object, spot)
  BY <1>6, <1>11 DEF Fits
<1>13. /\ Adds(h, P, R, W, Allocate(h1, object), Q, i)
       /\ i \in DOMAIN Q \ DOMAIN Q1 /\ Q[i] = spot /\ DOMAIN Q = DOMAIN Q1 \cup {i}
  <2>1. i = Fresh(h1) /\ Q = Put(Q1, i, spot) /\ FreeSpot(Q1, spot)
    BY <1>5, <1>6, <1>7 DEF FreeSpot
  <2>2. Adds(h, P, R, W, h1, Q1, t) /\ TakesOver(object, t, Q1, P)
    BY <1>4, <1>11 DEF TakesOver
  <2>3. Adds(h, P, R, W, Allocate(h1, object), Q, i) /\ PlacedAt(Q, Q1, i, spot)
    BY <2>1, <2>2, <1>12, AddsMore
  <2> QED BY <2>3 DEF PlacedAt
<1>14. /\ DOMAIN P \subseteq DOMAIN Q1
       /\ \A x \in DOMAIN Q1 : x # i => Q[x] = Q1[x]
  BY <1>4, <1>5 DEF Adds, Extends, Put
<1>15. \A x \in DOMAIN Q \ DOMAIN P : Q[x].node /\ Len(Q[x].path) >= l
  <2> TAKE x \in DOMAIN Q \ DOMAIN P
  <2>1. CASE x = i
    BY <2>1, <1>1, <1>6, <1>13
  <2>2. CASE x # i
    <3>1. x \in DOMAIN Q1 \ DOMAIN P /\ Q[x] = Q1[x]
      BY <2>2, <1>13, <1>14
    <3>2. PICK q : q = Q1[x].path
      OBVIOUS
    <3>3. Q1[x].node /\ Len(q) >= l + 1
      BY <3>1, <3>2, <1>2
    <3>4. Len(q) \in Nat
      <4>1. Q1[x] \in Spots
        BY <3>1, <1>4 DEF Adds
      <4>2. q \in Path
        BY <4>1, <3>2, PathOfSpot
      <4> QED BY <4>2 DEF Path
    <3>5. Len(q) >= l
      BY <3>3, <3>4, <1>1
    <3> QED BY <3>1, <3>2, <3>3, <3>5
  <2> QED BY <2>1, <2>2
<1>16. path.heap = Allocate(h1, object) /\ path.top = i
  BY <1>5
<1>17. path.top \in DOMAIN Q \ DOMAIN P /\ Q[path.top] = At(b, Pre(p, l))
  BY <1>5, <1>13, <1>14, <1>16
<1>18. \A x \in DOMAIN Q \ DOMAIN P : PlaceOf(Q[x]) \in Way(b, p)
  <2>1. PlaceOf(spot) \in Way(b, p)
    BY <1>1, <1>6, OnWay
  <2> QED BY <2>1, <1>2, <1>13, <1>14
<1>19. PathMade(h, P, R, W, path, b, p, l)
  BY <1>13, <1>15, <1>16, <1>17, <1>18 DEF PathMade
<1> QED BY <1>3, <1>5, <1>19

LEMMA CreatePathIs ==
  ASSUME NEW h, NEW P, NEW R, NEW W, Sound(h, P, R, W),
         NEW b \in Bin, Len(b) + 1 \in Dims, Kind[Len(b) + 1] = "quad",
         NEW p \in Path, NEW level \in 0 .. Len(p), Len(p) = Depth(Len(b) + 1),
         \A l \in level .. Len(p), m \in DOMAIN P : P[m] # At(b, Pre(p, l))
  PROVE  PathMade(h, P, R, W, CreatePath(h, p, level), b, p, level)
<1> DEFINE L == Len(p) - level
           First == [heap |-> Allocate(h, QuadNode(NoContent, <<>>)), top |-> Fresh(h)]
           More(below, k) ==
             [heap |-> Allocate(below.heap,
                                QuadNode(NoContent, Put(<<>>, k, Pointer(below.top, TRUE)))),
              top  |-> Fresh(below.heap)]
           Step(g, n) == IF n = 0 THEN First ELSE More(g[n - 1], p[Len(p) - n + 1])
           S == {m \in Nat : \E g : g = [n \in 0 .. m |-> Step(g, n)]}
<1>1. Len(p) \in Nat /\ L \in Nat /\ level \in Nat
  BY DEF Path
<1> HIDE DEF First, More
<1>2. Nat \subseteq S
  <2>1. 0 \in S
    <3>1. [n \in 0 .. 0 |-> First] = [n \in 0 .. 0 |-> Step([k \in 0 .. 0 |-> First], n)]
      OBVIOUS
    <3> QED BY <3>1
  <2>2. ASSUME NEW m \in Nat, m \in S PROVE m + 1 \in S
    <3>1. PICK g : g = [n \in 0 .. m |-> Step(g, n)]
      BY <2>2
    <3> DEFINE f == [n \in 0 .. m + 1 |-> IF n = m + 1 THEN More(g[m], p[Len(p) - n + 1])
                                          ELSE g[n]]
    <3>2. ASSUME NEW n \in 0 .. m + 1 PROVE f[n] = Step(f, n)
      <4>1. CASE n = 0
        <5>1. f[n] = g[0] /\ g[0] = First
          BY <4>1, <3>1
        <5> QED BY <4>1, <5>1
      <4>2. CASE n \in 1 .. m
        <5>1. f[n] = g[n] /\ f[n - 1] = g[n - 1] /\ n \in 0 .. m
          BY <4>2
        <5>2. g[n] = More(g[n - 1], p[Len(p) - n + 1])
          BY <4>2, <5>1, <3>1
        <5> QED BY <4>2, <5>1, <5>2
      <4>3. CASE n = m + 1
        <5>1. f[n] = More(g[m], p[Len(p) - n + 1]) /\ f[n - 1] = g[m]
          BY <4>3
        <5> QED BY <4>3, <5>1
      <4> QED BY <4>1, <4>2, <4>3
    <3>3. f = [n \in 0 .. m + 1 |-> Step(f, n)]
      BY <3>2
    <3> HIDE DEF f
    <3>4. \E g2 : g2 = [n \in 0 .. m + 1 |-> Step(g2, n)]
      BY <3>3, Zenon
    <3>5. m + 1 \in Nat
      OBVIOUS
    <3> QED BY <3>4, <3>5, Zenon
  <2> HIDE DEF S
  <2> QED BY <2>1, <2>2, SetInduction
<1> DEFINE from == CHOOSE g : g = [n \in 0 .. L |-> Step(g, n)]
<1>3. from = [n \in 0 .. L |-> Step(from, n)]
  BY <1>1, <1>2
<1>4. CreatePath(h, p, level) = from[L]
  BY <1>1 DEF CreatePath, First, More
<1> HIDE DEF from
<1>5. from[0] = First /\ \A n \in 1 .. L : from[n] = More(from[n - 1], p[Len(p) - n + 1])
  <2>1. \A n \in 0 .. L : from[n] = Step(from, n)
    BY <1>3, Zenon
  <2>2. 0 \in 0 .. L /\ \A n \in 1 .. L : n \in 0 .. L /\ n # 0
    BY <1>1
  <2> QED BY <2>1, <2>2
<1> DEFINE T == {n \in Nat : n <= L => PathMade(h, P, R, W, from[n], b, p, Len(p) - n)}
<1>6. Nat \subseteq T
  <2>1. 0 \in T
    <3>1. PICK l : l = Len(p)
      OBVIOUS
    <3>2. \A m \in DOMAIN P : P[m] # At(b, Pre(p, l))
      BY <3>1, <1>1
    <3>3. PathMade(h, P, R, W, First, b, p, l)
      BY <3>1, <3>2, PathEnd DEF First
    <3>4. Len(p) - 0 = l
      BY <3>1, <1>1
    <3> QED BY <3>3, <3>4, <1>5
  <2>2. ASSUME NEW n \in Nat, n \in T PROVE n + 1 \in T
    <3> SUFFICES ASSUME n + 1 <= L PROVE PathMade(h, P, R, W, from[n + 1], b, p, Len(p) - (n + 1))
      OBVIOUS
    <3>1. PICK below, l : below = from[n] /\ l = Len(p) - (n + 1)
      OBVIOUS
    <3>2. l \in 0 .. Len(p) - 1 /\ l + 1 = Len(p) - n /\ l \in level .. Len(p)
          /\ Len(p) - (n + 1) + 1 = l + 1
      BY <3>1, <1>1
    <3>3. PathMade(h, P, R, W, below, b, p, l + 1)
      <4>1. n <= L
        BY <1>1
      <4>2. PathMade(h, P, R, W, from[n], b, p, Len(p) - n)
        BY <4>1, <2>2
      <4> QED BY <4>2, <3>1, <3>2
    <3>4. PICK k : k = p[l + 1]
      OBVIOUS
    <3>5. \A m \in DOMAIN P : P[m] # At(b, Pre(p, l))
      BY <3>2
    <3>6. PathMade(h, P, R, W, More(below, k), b, p, l)
      BY <3>2, <3>3, <3>4, <3>5, PathGrows DEF More
    <3>7. from[n + 1] = More(below, k)
      <4>1. n + 1 \in 1 .. L /\ n + 1 - 1 = n
        BY <1>1
      <4>2. from[n + 1] = More(from[n], p[Len(p) - (n + 1) + 1])
        BY <4>1, <1>5
      <4> QED BY <4>2, <3>1, <3>2, <3>4
    <3> QED BY <3>1, <3>6, <3>7
  <2> HIDE DEF T
  <2> QED BY <2>1, <2>2, SetInduction
<1>7. PathMade(h, P, R, W, from[L], b, p, Len(p) - L)
  <2>1. L \in T /\ L <= L
    BY <1>1, <1>6
  <2> HIDE DEF L
  <2> QED BY <2>1
<1>8. Len(p) - L = level
  BY <1>1
<1> QED BY <1>4, <1>7, <1>8

-----------------------------------------------------------------------------
(* There is no next node, and none to share: the rest of the path is made. *)

Unowned(h, n, k) == k \in DOMAIN h[n].kids => ~h[n].kids[k].proper

LEMMA NoChild ==
  ASSUME NEW h, NEW P, NEW R, NEW W, Sound(h, P, R, W),
         NEW n \in DOMAIN P, P[n].node, NEW k, Child(h, n, k) = Null
  PROVE  Unowned(h, n, k)
<1>1. NodeFits(P, R, W, h[n], P[n].tree, P[n].path)
  BY SpotOfNode
<1>2. Null \notin DOMAIN P
  BY DEF Sound
<1>3. k \in DOMAIN h[n].kids => h[n].kids[k].c = Null
  BY <1>2 DEF Child
<1>4. k \in DOMAIN h[n].kids => KidFits(P, R, W, h[n].kids[k], P[n].tree, Append(P[n].path, k))
  BY <1>1 DEF NodeFits
<1> QED BY <1>2, <1>3, <1>4 DEF KidFits, NodeRef, Unowned

LEMMA FreeBelow ==
  ASSUME Self \notin Names, NEW h, NEW P, NEW R, NEW W, Sound(h, P, R, W),
         NEW n, NEW d, NEW l, NEW b, NEW p, WalkIs(P, n, d, l, b, p), Kind[Len(b) + 1] = "quad",
         Unowned(h, n, NameAfter(p, l)), NEW x \in DOMAIN P
  PROVE  ~UnderPlace(P[x], b, PathAfter(p, l))
<1>1. /\ b \in Bin /\ n \in DOMAIN P /\ P[n].node /\ P[n].tree = b /\ P[n].path = Pre(p, l)
      /\ NameAfter(p, l) \in Names /\ PathAfter(p, l) \in Path
      /\ Append(Pre(p, l), NameAfter(p, l)) = PathAfter(p, l)
  BY DEF WalkIs, NameAfter, PathAfter
<1>2. PICK k, q : k = NameAfter(p, l) /\ q = PathAfter(p, l)
  OBVIOUS
<1>3. \A m \in DOMAIN P : P[m] # At(b, q)
  <2> TAKE m \in DOMAIN P
  <2>1. k \in DOMAIN h[n].kids => ~h[n].kids[k].proper
    BY <1>2 DEF Unowned
  <2>2. k \in Names
    BY <1>1, <1>2
  <2>3. P[m] # At(P[n].tree, Append(P[n].path, k))
    BY <2>1, <2>2, <1>1, NoNodeBelow
  <2> QED BY <2>3, <1>1, <1>2
<1>4. q \in Path
  BY <1>1, <1>2
<1>5. ~UnderPlace(P[x], b, q)
  BY <1>1, <1>3, <1>4, NothingUnder
<1> QED BY <1>2, <1>5

LEMMA FreePath ==
  ASSUME Self \notin Names, NEW h, NEW P, NEW R, NEW W, Sound(h, P, R, W),
         NEW n, NEW d, NEW l, NEW b, NEW p, WalkIs(P, n, d, l, b, p), Kind[Len(b) + 1] = "quad",
         Unowned(h, n, NameAfter(p, l)), NEW j \in l + 1 .. Len(p), NEW x \in DOMAIN P
  PROVE  P[x] # At(b, Pre(p, j))
<1>1. /\ b \in Bin /\ p \in Path /\ l \in 0 .. Len(p) - 1 /\ l + 1 \in 0 .. Len(p)
      /\ Len(p) \in Nat
  BY DEF WalkIs
<1>2. j \in 0 .. Len(p) /\ j >= l + 1
  BY <1>1
<1>3. Pre(p, j) \in Path /\ Len(Pre(p, j)) = j /\ Starts(Pre(p, j), p)
  BY <1>1, <1>2, PreIs, PreStarts DEF Path
<1>4. Starts(Pre(p, l + 1), Pre(p, j))
  <2>1. l + 1 <= Len(Pre(p, j))
    BY <1>1, <1>2, <1>3
  <2>2. p \in Seq(Names) /\ Pre(p, j) \in Seq(Names)
    BY <1>1, <1>3 DEF Path
  <2> QED BY <2>1, <2>2, <1>1, <1>3, StartsLonger
<1>5. UnderPlace(At(b, Pre(p, j)), b, PathAfter(p, l))
  BY <1>4 DEF UnderPlace, At, PathAfter
<1>6. ~UnderPlace(P[x], b, PathAfter(p, l))
  BY FreeBelow
<1> QED BY <1>5, <1>6

LEMMA ReplaceDescends ==
  ASSUME DimsAssumption, NEW a \in Addresses, NEW st, NEW P, NEW n, WalksAt(st, P, a, n),
         st.calls[st.d].node = n, Child(st.heap, n, NextName(st, a)) = Null,
         NEW path, path = CreatePath(st.heap, a[st.d], st.calls[st.d].level + 1)
  PROVE  \E Q : Descends(st, P,
                         Descend(Replaces(st, Replacement(st, a, path.heap, Pointer(path.top, TRUE)), n),
                                 Fresh(path.heap), path.top, Null, a[st.d]), Q, a)
<1>0. PICK d, l, b, p, h, R, W, q, kid, copy, name, st2, h1, t :
        /\ d = st.d /\ l = st.calls[st.d].level
        /\ b = Here(st, a, st.d) /\ p = a[st.d] /\ h = st.heap
        /\ R = st.replaced /\ W = Ahead(st, a)
        /\ q = NextPath(st, a) /\ name = NextName(st, a)
        /\ t = path.top /\ h1 = path.heap
        /\ kid = Pointer(t, TRUE) /\ copy = Fresh(h1)
        /\ st2 = Replaces(st, Replacement(st, a, h1, kid), n)
  OBVIOUS
<1>1. WalkIs(P, n, d, l, b, p)
  BY <1>0, WalkPlace
<1>2. /\ b \in Bin /\ q \in Path /\ Len(b) + 1 \in Dims /\ p \in Path /\ l + 1 \in 0 .. Len(p)
      /\ Len(p) = Depth(Len(b) + 1) /\ q = Pre(p, l + 1) /\ name = NameAfter(p, l)
      /\ n \in DOMAIN P /\ P[n].node /\ q = PathAfter(p, l)
  <2>1. q = PathAfter(p, l) /\ name = NameAfter(p, l)
    BY <1>0 DEF NextPath, NextName
  <2> QED BY <2>1, <1>1 DEF WalkIs, PathAfter
<1>3. Sound(h, P, R, W) /\ Shape(st) /\ Kind[Len(b) + 1] = "quad"
  <2>1. /\ Shape(st) /\ Sound(h, P, R, W)
        /\ WalkCall(P, st.heap, st.calls[st.d], st.calls[st.d].level, Here(st, a, st.d), a[st.d])
    BY <1>0, WalkParts
  <2> QED BY Zenon, <2>1, <1>0 DEF WalkCall
<1>4. Unowned(h, n, NameAfter(p, l))
  <2>1. Child(h, n, name) = Null
    BY <1>0
  <2> QED BY <2>1, <1>2, <1>3, NoChild
<1>5. PathMade(h, P, R, W, path, b, p, l + 1)
  <2>1. \A j \in l + 1 .. Len(p), m \in DOMAIN P : P[m] # At(b, Pre(p, j))
    BY <1>1, <1>3, <1>4, FreePath, NoNameIsSelf
  <2>2. PICK level : level = l + 1
    OBVIOUS
  <2>3. path = CreatePath(h, p, level)
    BY <1>0, <2>2
  <2>4. PathMade(h, P, R, W, CreatePath(h, p, level), b, p, level)
    BY <2>1, <2>2, <1>2, <1>3, CreatePathIs
  <2> QED BY <2>2, <2>3, <2>4
<1>6. PICK Q1 :
        /\ Adds(h, P, R, W, h1, Q1, t) /\ t \in DOMAIN Q1 \ DOMAIN P /\ Q1[t] = At(b, q)
        /\ \A x \in DOMAIN Q1 \ DOMAIN P : PlaceOf(Q1[x]) \in Way(b, p)
  BY Zenon, <1>0, <1>2, <1>5 DEF PathMade
<1>7. kid.c = t /\ kid.proper = TRUE /\ t \in Nat \ {Null}
  BY Zenon, <1>0, <1>6 DEF Adds, Pointer
<1>8. KidFits(Q1, R, W, kid, b, q)
  <2>1. Within(b, b)
    BY <1>2, WithinItself
  <2>2. kid \in [c : Nat, proper : BOOLEAN]
    BY <1>0, <1>7 DEF Pointer
  <2>3. Q1[t].node /\ Q1[t].tree = b /\ Q1[t].path = q
    BY <1>6 DEF At
  <2> QED BY <2>1, <2>2, <2>3, <1>6, <1>7 DEF KidFits, NodeRef
<1>9. PICK Q : OnCopy(st2, Q, a, copy, name, kid, h1, Q1, n)
  <2>1. Adds(st.heap, P, st.replaced, Ahead(st, a), h1, Q1, kid.c)
    BY Zenon, <1>0, <1>6, <1>7
  <2>2. KidFits(Q1, st.replaced, Ahead(st, a), kid, Here(st, a, st.d), NextPath(st, a))
    BY <1>0, <1>8
  <2>3. kid.c \in DOMAIN Q1 \ DOMAIN P => kid.proper
    BY <1>7
  <2>4. ToCopy(Replaces(st, Replacement(st, a, h1, kid), n),
               a, Fresh(h1), NextName(st, a), kid, h1, Q1, n)
    BY <2>1, <2>2, <2>3, ReplacedGoes
  <2>5. ToCopy(st2, a, copy, name, kid, h1, Q1, n)
    BY Zenon, <2>4, <1>0
  <2> QED BY <2>5 DEF ToCopy
<1>10. st2.d = d /\ st2.calls = st.calls
  <2>1. PICK g : g = Replacement(st, a, h1, kid)
    OBVIOUS
  <2>2. Replaces(st, g, n).d = st.d /\ Replaces(st, g, n).calls = st.calls
    BY <1>3, ReplacesIs
  <2> QED BY Zenon, <2>1, <2>2, <1>0
<1>11. /\ Here(st2, a, st2.d) = b /\ PathAfter(a[st2.d], st2.calls[st2.d].level) = q
       /\ NameAfter(a[st2.d], st2.calls[st2.d].level) = name /\ a[st2.d] = p
  BY Zenon, <1>0, <1>10 DEF Here, NextPath, NextName
<1>12. Going(Descend(st2, copy, t, Null, p), Q, a)
  <2>1. HasKid(st2.heap, copy, NameAfter(a[st2.d], st2.calls[st2.d].level), Pointer(t, TRUE))
    BY Zenon, <1>0, <1>9, <1>11 DEF OnCopy
  <2>2. ParFits(Q, Null, Here(st2, a, st2.d), PathAfter(a[st2.d], st2.calls[st2.d].level))
    BY DEF ParFits
  <2>3. WalksAt(st2, Q, a, copy)
    BY <1>9 DEF OnCopy
  <2>4. Going(Descend(st2, copy, t, Null, a[st2.d]), Q, a)
    BY <2>1, <2>2, <2>3, DescendGoes
  <2> QED BY <2>4, <1>11
<1>13. /\ Descended(st, Descend(st2, copy, t, Null, p), a)
       /\ Descend(st2, copy, t, Null, p).heap = st2.heap
  <2>1. WalksAt(st2, Q, a, copy) /\ st2.d = st.d /\ st2.calls = st.calls
    BY <1>0, <1>9, <1>10 DEF OnCopy
  <2>2. /\ Descended(st, Descend(st2, copy, t, Null, a[st2.d]), a)
        /\ Descend(st2, copy, t, Null, a[st2.d]).heap = st2.heap
    BY <2>1, DescendIs
  <2> QED BY <2>2, <1>11
<1>14. Kept(h, P, st2.heap, Q, Way(b, p))
  <2>1. /\ WalksAt(st2, Q, a, copy)
        /\ Kept(h1, Q1, st2.heap, Q, Way(Q[copy].tree, Q[copy].path))
    BY <1>9 DEF OnCopy
  <2>2. WalkIs(Q, copy, st2.d, st2.calls[st2.d].level, Here(st2, a, st2.d), a[st2.d])
    BY <2>1, WalkPlace
  <2>3. WalkIs(Q, copy, d, l, b, p)
    BY <2>2, <1>0, <1>10, <1>11
  <2>4. /\ Q[copy].tree = b /\ Q[copy].path = Pre(p, l)
        /\ Way(b, Pre(p, l)) \subseteq Way(b, p)
    BY <2>3, HereOnWay DEF WalkIs
  <2>5. Kept(h, P, h1, Q1, Way(b, p))
    BY <1>6, AddsKept
  <2> QED BY <2>1, <2>4, <2>5, KeptTogether
<1>15. Descends(st, P, Descend(st2, copy, t, Null, p), Q, a)
  BY <1>0, <1>12, <1>13, <1>14 DEF Descends, WayDown
<1> QED BY Zenon, <1>0, <1>15

-----------------------------------------------------------------------------
(* Copies that own nothing and share all, for a coarser bin.               *)

(* What is in W for bin c is for b, too.                                   *)
Upward(W, c, b) == \A q \in Path : <<c, q>> \in W => <<b, q>> \in W

Coarser(c, b) == b \in Bin /\ c \in Bin /\ Within(c, b) /\ c # b

LEMMA SharedHolder ==
  ASSUME NEW P, P \in [DOMAIN P -> Spots], NEW r, NEW b \in Bin, NEW c \in Bin, Within(c, b),
         HolderFits(P, r, c)
  PROVE  HolderFits(P, Pointer(r.c, FALSE), b)
<1>1. r \in [c : Nat, proper : BOOLEAN]
  BY DEF HolderFits
<1>2. PICK s : s = Pointer(r.c, FALSE)
  OBVIOUS
<1>3. s \in [c : Nat, proper : BOOLEAN] /\ s.c = r.c /\ s.proper = FALSE
  BY <1>1, <1>2 DEF Pointer
<1>4. CASE r = NoContent
  <2>1. s = NoContent
    BY <1>2, <1>4 DEF NoContent, Holder, Pointer
  <2> QED BY <1>2, <1>3, <2>1 DEF HolderFits
<1>5. CASE r # NoContent
  <2>1. r.c \in DOMAIN P /\ ~P[r.c].node /\ Within(P[r.c].tree, c)
    BY <1>5 DEF HolderFits
  <2>2. P[r.c].tree \in Bin
    BY <2>1, PathOfSpot
  <2>3. Within(P[r.c].tree, b)
    BY <2>1, <2>2, WithinTransitive
  <2> QED BY <1>2, <1>3, <2>1, <2>3 DEF HolderFits
<1> QED BY <1>4, <1>5

LEMMA SharedKid ==
  ASSUME NEW P, P \in [DOMAIN P -> Spots], NEW R, NEW W, NEW r, NEW q \in Path, NEW b, NEW c,
         Coarser(c, b), Upward(W, c, b), KidFits(P, R, W, r, c, q)
  PROVE  KidFits(P, R, W, Pointer(r.c, FALSE), b, q)
<1>1. r \in [c : Nat, proper : BOOLEAN] /\ b \in Bin /\ c \in Bin /\ Within(c, b) /\ c # b
  BY DEF KidFits, Coarser
<1>2. PICK s : s = Pointer(r.c, FALSE)
  OBVIOUS
<1>3. s \in [c : Nat, proper : BOOLEAN] /\ s.c = r.c /\ s.proper = FALSE
  BY <1>1, <1>2 DEF Pointer
<1>4. CASE NodeRef(P, r, c, q)
  <2>1. r.c \in DOMAIN P /\ P[r.c].node /\ P[r.c].path = q /\ Within(P[r.c].tree, c)
    BY <1>4 DEF NodeRef
  <2>2. P[r.c].tree \in Bin
    BY <2>1, PathOfSpot
  <2>3. Within(P[r.c].tree, b)
    BY <2>1, <2>2, <1>1, WithinTransitive
  <2>4. P[r.c].tree # b
    BY <2>1, <1>1, WithinBoth
  <2> QED BY <1>2, <1>3, <2>1, <2>3, <2>4 DEF KidFits, NodeRef
<1>5. CASE ~r.proper /\ r.c \in R /\ <<c, q>> \in W
  <2>1. <<b, q>> \in W
    BY <1>5 DEF Upward
  <2> QED BY <1>2, <1>3, <1>5, <2>1 DEF KidFits
<1> QED BY <1>4, <1>5 DEF KidFits

SharesAll(copy, object) ==
  /\ Branches(copy) /\ copy.kind = object.kind
  /\ copy.self = Pointer(object.self.c, FALSE) /\ DOMAIN copy.kids = DOMAIN object.kids
  /\ \A k \in DOMAIN copy.kids : copy.kids[k] = Pointer(object.kids[k].c, FALSE)

LEMMA SharingCopyIs ==
  ASSUME NEW object, Branches(object), NEW copy, copy = SharingCopy(object)
  PROVE  SharesAll(copy, object)
<1>1. /\ DOMAIN object = {"kind", "self", "kids"}
      /\ object.kids \in [DOMAIN object.kids -> [c : Nat, proper : BOOLEAN]]
      /\ DOMAIN object.kids \subseteq Names
  BY DEF Branches
<1>2. PICK kids : kids = AllShared(object.kids)
  OBVIOUS
<1>3. /\ copy.kids = kids /\ copy.kind = object.kind
      /\ copy.self = Holder(object.self.c, FALSE) /\ DOMAIN copy = {"kind", "self", "kids"}
  BY <1>1, <1>2 DEF SharingCopy
<1>4. /\ DOMAIN kids = DOMAIN object.kids
      /\ \A k \in DOMAIN kids : kids[k] = Pointer(object.kids[k].c, FALSE)
  BY <1>2 DEF AllShared
<1>5. kids = [k \in DOMAIN kids |-> kids[k]]
  BY <1>2 DEF AllShared
<1>6. \A k \in DOMAIN kids : kids[k] \in [c : Nat, proper : BOOLEAN]
  <2> TAKE k \in DOMAIN kids
  <2>1. kids[k] = Pointer(object.kids[k].c, FALSE) /\ object.kids[k].c \in Nat
    BY <1>1, <1>4
  <2> QED BY <2>1 DEF Pointer
<1>7. kids \in [DOMAIN kids -> [c : Nat, proper : BOOLEAN]]
  BY <1>5, <1>6
<1>8. Branches(copy)
  BY <1>1, <1>3, <1>4, <1>7 DEF Branches
<1> QED BY <1>3, <1>4, <1>8 DEF Holder, Pointer, SharesAll

LEMMA NodeCopyFits ==
  ASSUME NEW P, P \in [DOMAIN P -> Spots], NEW R, NEW W, NEW b, NEW c, Coarser(c, b),
         Upward(W, c, b), NEW q \in Path, NEW object, NodeFits(P, R, W, object, c, q),
         NEW copy, copy = SharingCopy(object)
  PROVE  NodeFits(P, R, W, copy, b, q)
<1>1. b \in Bin /\ c \in Bin /\ Within(c, b) /\ Len(c) = Len(b)
  BY DEF Coarser, Within
<1>2. /\ object.kind = "node" /\ Branches(object)
      /\ Len(b) + 1 \in Dims /\ Kind[Len(b) + 1] = "quad" /\ Len(q) <= Depth(Len(b) + 1)
      /\ DOMAIN object.kids = {} <=> Len(q) = Depth(Len(b) + 1)
      /\ HolderFits(P, object.self, Append(c, q))
      /\ \A k \in DOMAIN object.kids : KidFits(P, R, W, object.kids[k], c, Append(q, k))
  BY <1>1 DEF NodeFits
<1>3. /\ Branches(copy) /\ copy.kind = object.kind
      /\ copy.self = Pointer(object.self.c, FALSE) /\ DOMAIN copy.kids = DOMAIN object.kids
      /\ \A k \in DOMAIN copy.kids : copy.kids[k] = Pointer(object.kids[k].c, FALSE)
  <2>1. SharesAll(copy, object)
    BY <1>2, SharingCopyIs
  <2> QED BY <2>1 DEF SharesAll
<1>4. HolderFits(P, copy.self, Append(b, q)) /\ ~copy.self.proper
  <2>1. Append(b, q) \in Bin /\ Append(c, q) \in Bin
    BY <1>1, AppendIs DEF Bin
  <2>2. Within(Append(c, q), Append(b, q))
    <3>1. Starts(q, q)
      BY StartsItself DEF Path
    <3> QED BY <3>1, <1>1, WithinAppend
  <2>3. HolderFits(P, Pointer(object.self.c, FALSE), Append(b, q))
    BY <2>1, <2>2, <1>2, SharedHolder
  <2> QED BY <2>3, <1>3 DEF Pointer
<1>5. ASSUME NEW k \in DOMAIN copy.kids PROVE KidFits(P, R, W, copy.kids[k], b, Append(q, k))
  <2>1. k \in DOMAIN object.kids /\ k \in Names
    BY <1>3 DEF Branches
  <2>2. Append(q, k) \in Path
    BY <2>1, AppendIs DEF Path
  <2>3. PICK r : r = object.kids[k]
    OBVIOUS
  <2>4. KidFits(P, R, W, r, c, Append(q, k))
    BY <2>1, <2>3, <1>2
  <2>5. KidFits(P, R, W, Pointer(r.c, FALSE), b, Append(q, k))
    BY <2>2, <2>4, SharedKid
  <2> QED BY <2>3, <2>5, <1>3
<1> QED BY <1>2, <1>3, <1>4, <1>5 DEF NodeFits

LEMMA FlatCopyFits ==
  ASSUME NEW P, P \in [DOMAIN P -> Spots], NEW b \in Bin, NEW c \in Bin, Within(c, b),
         NEW object, FlatFits(P, object, c), NEW copy, copy = SharingCopy(object)
  PROVE  FlatFits(P, copy, b)
<1>1. Len(c) = Len(b)
  BY DEF Within
<1>2. /\ object.kind = "flat" /\ Branches(object)
      /\ Len(b) + 1 \in Dims /\ Kind[Len(b) + 1] = "flat"
      /\ HolderFits(P, object.self, Append(c, <<>>))
      /\ \A k \in DOMAIN object.kids : HolderFits(P, object.kids[k], Append(c, <<k>>))
  BY <1>1 DEF FlatFits
<1>3. /\ Branches(copy) /\ copy.kind = object.kind
      /\ copy.self = Pointer(object.self.c, FALSE) /\ DOMAIN copy.kids = DOMAIN object.kids
      /\ \A k \in DOMAIN copy.kids : copy.kids[k] = Pointer(object.kids[k].c, FALSE)
  <2>1. SharesAll(copy, object)
    BY <1>2, SharingCopyIs
  <2> QED BY <2>1 DEF SharesAll
<1>4. ASSUME NEW q \in Path
      PROVE  /\ Append(b, q) \in Bin /\ Append(c, q) \in Bin
             /\ Within(Append(c, q), Append(b, q))
  <2>1. Append(b, q) \in Bin /\ Append(c, q) \in Bin
    BY AppendIs DEF Bin
  <2>2. Starts(q, q)
    BY StartsItself DEF Path
  <2> QED BY <2>1, <2>2, WithinAppend
<1>5. HolderFits(P, copy.self, Append(b, <<>>)) /\ ~copy.self.proper
  <2>1. <<>> \in Path
    BY DEF Path
  <2>2. HolderFits(P, Pointer(object.self.c, FALSE), Append(b, <<>>))
    BY <2>1, <1>2, <1>4, SharedHolder
  <2> QED BY <2>2, <1>3 DEF Pointer
<1>6. ASSUME NEW k \in DOMAIN copy.kids PROVE HolderFits(P, copy.kids[k], Append(b, <<k>>))
  <2>1. k \in DOMAIN object.kids /\ <<k>> \in Path
    <3>1. k \in DOMAIN object.kids /\ k \in Names
      BY <1>3 DEF Branches
    <3> QED BY <3>1 DEF Path
  <2>2. PICK r : r = object.kids[k]
    OBVIOUS
  <2>3. HolderFits(P, r, Append(c, <<k>>))
    BY <2>1, <2>2, <1>2
  <2>4. HolderFits(P, Pointer(r.c, FALSE), Append(b, <<k>>))
    BY <2>1, <2>3, <1>4, SharedHolder
  <2> QED BY <2>2, <2>4, <1>3
<1> QED BY <1>2, <1>3, <1>5, <1>6 DEF FlatFits

-----------------------------------------------------------------------------
(* The step of the walk.                                                   *)

(* The walk of the parallel path goes on, too: it is up to date.           *)
LEMMA NextPar ==
  ASSUME DimsAssumption, NEW a \in Addresses, NEW st, NEW P, NEW n, WalksAt(st, P, a, n),
         NEW m, ParFits(P, m, Here(st, a, st.d), Pre(a[st.d], st.calls[st.d].level))
  PROVE  ParFits(P, Child(st.heap, m, NextName(st, a)), Here(st, a, st.d), NextPath(st, a))
<1>0. PICK d, l, b, p, h, R, W, q, name, k :
        /\ d = st.d /\ l = st.calls[st.d].level
        /\ b = Here(st, a, st.d) /\ p = a[st.d] /\ h = st.heap
        /\ R = st.replaced /\ W = Ahead(st, a)
        /\ q = NextPath(st, a) /\ name = NextName(st, a) /\ k = Child(h, m, name)
  OBVIOUS
<1>1. WalkIs(P, n, d, l, b, p) /\ Levels(st, a, d - 1)
  BY <1>0, WalkPlace
<1>2. /\ b \in Bin /\ q \in Path /\ q = Append(Pre(p, l), name) /\ d \in Dims /\ d \in Nat \ {0}
  <2>1. q = PathAfter(p, l) /\ name = NameAfter(p, l)
    BY <1>0 DEF NextPath, NextName
  <2> QED BY <2>1, <1>1 DEF WalkIs, PathAfter, NameAfter
<1>3. Sound(h, P, R, W)
  BY <1>0, WalkParts
<1>4. ASSUME k # Null
      PROVE  k \in DOMAIN P /\ P[k].node /\ P[k].path = q /\ Finer(P[k].tree, b)
  <2>1. m # Null /\ name \in DOMAIN h[m].kids /\ h[m].kids[name].c = k
    BY <1>0, <1>4 DEF Child
  <2>2. m \in DOMAIN P /\ P[m].node /\ P[m].path = Pre(p, l) /\ Finer(P[m].tree, b)
    <3>1. ParFits(P, m, b, Pre(p, l))
      BY <1>0
    <3> QED BY <2>1, <3>1 DEF ParFits
  <2>3. PICK c : c = P[m].tree
    OBVIOUS
  <2>4. c \in Bin /\ Finer(c, b)
    BY <2>2, <2>3, <1>3, SpotIs
  <2>5. NodeFits(P, R, W, h[m], c, Pre(p, l))
    BY <2>2, <2>3, <1>3, SpotOfNode
  <2>6. KidFits(P, R, W, h[m].kids[name], c, q)
    BY <2>1, <2>5, <1>2 DEF NodeFits
  <2>7. <<c, q>> \notin W
    BY <2>4, <1>0, <1>1, <1>2, FinerNotAhead
  <2>8. NodeRef(P, h[m].kids[name], c, q)
    BY <2>6, <2>7 DEF KidFits
  <2>9. k \in DOMAIN P /\ P[k].node /\ P[k].path = q /\ Within(P[k].tree, c)
    BY <2>1, <2>8 DEF NodeRef
  <2>10. P[k].tree \in Bin
    BY <2>9, <1>3, SpotIs
  <2>11. Finer(P[k].tree, b)
    BY <2>4, <2>9, <2>10, <1>2, FinerWithin
  <2> QED BY <2>9, <2>11
<1>5. ParFits(P, k, b, q)
  BY <1>4 DEF ParFits
<1> QED BY <1>0, <1>5

LEMMA UpwardAhead ==
  ASSUME DimsAssumption, NEW a \in Addresses, NEW st, st.d \in Dims, Levels(st, a, st.d - 1),
         st.calls[st.d].level \in Int, NEW b \in Bin, NEW c \in Bin, Within(c, b)
  PROVE  Upward(Ahead(st, a), c, b)
<1>1. st.d \in Nat
  BY DimsAre
<1>2. \A i \in 1 .. st.d : st.calls[i].level \in Int
  <2> TAKE i \in 1 .. st.d
  <2>1. CASE i = st.d
    BY <2>1
  <2>2. CASE i # st.d
    <3>1. i \in 1 .. st.d - 1
      BY <1>1, <2>2
    <3>2. st.calls[i].level \in -1 .. Len(a[i]) - 1
      BY <3>1 DEF Levels
    <3> QED BY <3>2
  <2> QED BY <2>1, <2>2
<1> QED BY <1>2, AheadCoarser DEF Upward

LEMMA PutExtends ==
  ASSUME NEW P, NEW i, i \notin DOMAIN P, NEW spot, NEW Q, Q = Put(P, i, spot)
  PROVE  Extends(Q, P)
BY DEF Put, Extends

(* One more object that refers to what there was.                          *)
LEMMA AddsCopy ==
  ASSUME NEW h, NEW P, NEW R, NEW W, Sound(h, P, R, W), NEW spot, FreeSpot(P, spot),
         NEW i, i = Fresh(h), NEW object, Fits(P, R, W, object, spot),
         NEW Q, Q = Put(P, i, spot)
  PROVE  Adds(h, P, R, W, Allocate(h, object), Q, i) /\ PlacedAt(Q, P, i, spot)
<1>1. i \notin DOMAIN P
  <2>1. IsFiniteSet(DOMAIN h) /\ DOMAIN h \subseteq Nat \ {0} /\ DOMAIN h = DOMAIN P
    BY DEF Sound, Null
  <2> QED BY <2>1, FreshIs
<1>2. Fits(Q, R, W, object, spot)
  BY <1>1, PutExtends, FitsStill
<1> QED BY <1>2, AddsOne

(* The shared next node is up to date.                                     *)
LEMMA SharedStops ==
  ASSUME DimsAssumption, NEW a \in Addresses, NEW st, NEW P, NEW n, WalksAt(st, P, a, n),
         NEW m, m # Null, ParFits(P, m, Here(st, a, st.d), NextPath(st, a)),
         HasKid(st.heap, n, NextName(st, a), Pointer(m, FALSE))
  PROVE  Going(Stop(st, n, m), P, a)
<1>1. PICK b, q : b = Here(st, a, st.d) /\ q = NextPath(st, a)
  OBVIOUS
<1>2. m \in DOMAIN P /\ P[m].node /\ P[m].path = q /\ Finer(P[m].tree, b)
  <2>1. ParFits(P, m, b, q)
    BY <1>1
  <2> QED BY <2>1 DEF ParFits
<1>3. b \in Bin /\ P[m].tree \in Bin
  <2>1. WalkIs(P, n, st.d, st.calls[st.d].level, b, a[st.d])
    BY <1>1, WalkPlace
  <2>2. Sound(st.heap, P, st.replaced, Ahead(st, a))
    BY WalkParts
  <2>3. b \in Bin
    BY <2>1 DEF WalkIs
  <2>4. P[m].tree \in Bin
    BY <2>2, <1>2, SpotIs
  <2> QED BY <2>3, <2>4
<1>4. Within(P[m].tree, b) /\ P[m].tree # b
  BY <1>2, <1>3, FinerIs
<1>5. NodeRef(P, Pointer(m, FALSE), b, q)
  BY <1>2, <1>4 DEF NodeRef, Pointer
<1>6. NodeRef(P, Pointer(m, FALSE), Here(st, a, st.d), PathAfter(a[st.d], st.calls[st.d].level))
  BY <1>1, <1>5 DEF NextPath
<1>7. HasKid(st.heap, n, NameAfter(a[st.d], st.calls[st.d].level), Pointer(m, FALSE))
  BY DEF NextName
<1> QED BY <1>6, <1>7, StopGoes

(* The node that the walk is at gets the next node, in place of a shared   *)
(* one.                                                                    *)
KidGiven(st, h1, n, a, r) == OnHeap(st, SetKid(h1, n, NextName(st, a), r))

LEMMA WalkKidSet ==
  ASSUME DimsAssumption, NEW a \in Addresses, NEW st, NEW P, NEW n, WalksAt(st, P, a, n),
         Unowned(st.heap, n, NextName(st, a)),
         NEW h1, NEW Q, NEW r, Adds(st.heap, P, st.replaced, Ahead(st, a), h1, Q, r.c),
         KidFits(Q, st.replaced, Ahead(st, a), r, Here(st, a, st.d), NextPath(st, a)),
         r.c \in DOMAIN Q \ DOMAIN P => r.proper,
         NEW st2, st2 = KidGiven(st, h1, n, a, r)
  PROVE  /\ WalksAt(st2, Q, a, n) /\ HasKid(st2.heap, n, NextName(st, a), r)
         /\ st2.d = st.d /\ st2.calls = st.calls
         /\ Carries(st.heap, P, st2.heap, Q, Null)
<1>0. PICK d, l, b, p, h, R, W, q, name, g :
        /\ d = st.d /\ l = st.calls[st.d].level
        /\ b = Here(st, a, st.d) /\ p = a[st.d] /\ h = st.heap
        /\ R = st.replaced /\ W = Ahead(st, a)
        /\ q = NextPath(st, a) /\ name = NextName(st, a)
        /\ g = SetKid(h1, n, name, r)
  OBVIOUS
<1>1. WalkIs(P, n, d, l, b, p)
  BY <1>0, WalkPlace
<1>2. Shape(st) /\ Sound(h, P, R, W)
  BY <1>0, WalkParts
<1>3. st2 = OnHeap(st, g)
  BY <1>0 DEF KidGiven
<1>4. /\ Shape(st2) /\ st2.d = st.d /\ st2.calls = st.calls
      /\ st2.heap = g /\ st2.replaced = st.replaced
  BY <1>2, <1>3, OnHeapIs
<1>5. /\ n \in DOMAIN P /\ P[n].node /\ P[n].tree = b /\ P[n].path = Pre(p, l)
      /\ name \in Names /\ Append(Pre(p, l), name) = q
  <2>1. name = p[l + 1] /\ q = Pre(p, l + 1)
    BY <1>0 DEF NextName, NextPath, NameAfter, PathAfter
  <2> QED BY <2>1, <1>1 DEF WalkIs
<1>6. Len(P[n].path) < Depth(Len(P[n].tree) + 1)
  BY <1>5, <1>1 DEF WalkIs
<1>7. name \in DOMAIN h[n].kids => ~h[n].kids[name].proper
  BY <1>0 DEF Unowned
<1>8. Adds(h, P, R, W, h1, Q, r.c)
  BY <1>0
<1>9. KidFits(Q, R, W, r, P[n].tree, Append(P[n].path, name))
  BY <1>0, <1>5
<1>10. Sound(g, Q, R, W)
  BY <1>0, <1>2, <1>5, <1>6, <1>7, <1>8, <1>9, KidSet
<1>11. Branches(h[n])
  BY <1>2, <1>5, SpotOfNode DEF NodeFits
<1>12. Carries(h, P, g, Q, Null)
  BY <1>0, <1>5, <1>8, <1>11, SetKidCarries
<1>13. n \in DOMAIN Q /\ Q[n] = P[n] /\ n \in DOMAIN h1
  BY <1>8, <1>5 DEF Adds, Extends
<1>14. Sound(st2.heap, Q, st2.replaced, Ahead(st, a)) /\ Carries(st.heap, P, st2.heap, Q, Null)
  BY <1>0, <1>4, <1>10, <1>12
<1>15. WalksAt(st2, Q, a, n)
  BY <1>4, <1>13, <1>14, WalkCarried
<1>16. HasKid(g, n, name, r)
  <2>1. n \in DOMAIN h /\ h1[n] = h[n]
    BY <1>5, <1>2, <1>8 DEF Sound, Adds
  <2>2. DOMAIN h1[n] = {"kind", "self", "kids"}
    BY <2>1, <1>11 DEF Branches
  <2> QED BY <1>0, <1>13, <2>2 DEF SetKid, Put, HasKid
<1> QED BY <1>0, <1>4, <1>14, <1>15, <1>16

LEMMA KidGivenPar ==
  ASSUME DimsAssumption, NEW a \in Addresses, NEW st, NEW P, NEW n, WalksAt(st, P, a, n),
         NEW st2, st2.d = st.d, st2.calls = st.calls, NEW Q,
         Carries(st.heap, P, st2.heap, Q, Null),
         NEW m, ParFits(P, m, Here(st, a, st.d), NextPath(st, a))
  PROVE  /\ ParFits(Q, m, Here(st2, a, st2.d), NextPath(st2, a))
         /\ NextName(st2, a) = NextName(st, a)
<1>0. PICK b, q, h, R, W : /\ b = Here(st, a, st.d) /\ q = NextPath(st, a) /\ h = st.heap
                           /\ R = st.replaced /\ W = Ahead(st, a)
  OBVIOUS
<1>1. Here(st2, a, st2.d) = b /\ NextPath(st2, a) = q /\ NextName(st2, a) = NextName(st, a)
  BY <1>0 DEF Here, NextPath, NextName
<1>2. b \in Bin /\ Sound(h, P, R, W)
  <2>1. WalkIs(P, n, st.d, st.calls[st.d].level, b, a[st.d])
    BY <1>0, WalkPlace
  <2> QED BY Zenon, <1>0, <2>1, WalkParts DEF WalkIs
<1>3. Null \in DOMAIN P => P[Null].tree = b
  BY <1>2 DEF Sound
<1>4. m \in DOMAIN P => P[m].tree \in Bin
  BY <1>2, SpotIs
<1>5. ParFits(P, m, b, q) /\ Carries(h, P, st2.heap, Q, Null)
  BY <1>0
<1>6. ParFits(Q, m, b, q)
  BY <1>2, <1>3, <1>4, <1>5, ParCarried
<1> QED BY <1>1, <1>6

(* The shared next node was replaced.                                      *)
LEMMA RepointStops ==
  ASSUME DimsAssumption, NEW a \in Addresses, NEW st, NEW P, NEW n, WalksAt(st, P, a, n),
         Unowned(st.heap, n, NextName(st, a)),
         NEW m, m # Null, ParFits(P, m, Here(st, a, st.d), NextPath(st, a)),
         NEW st2, st2 = OnHeap(st, Repoint(st.heap, n, NextName(st, a), m))
  PROVE  Stops(st, P, Stop(st2, n, m), P, a)
<1>0. PICK b, h, R, W, q, r :
        /\ b = Here(st, a, st.d) /\ h = st.heap /\ R = st.replaced /\ W = Ahead(st, a)
        /\ q = NextPath(st, a) /\ r = Pointer(m, FALSE)
  OBVIOUS
<1>1. Sound(h, P, R, W)
  BY <1>0, WalkParts
<1>2. m \in DOMAIN P /\ P[m].node /\ P[m].path = q /\ Finer(P[m].tree, b)
  <2>1. ParFits(P, m, b, q)
    BY <1>0
  <2> QED BY <2>1 DEF ParFits
<1>3. b \in Bin /\ P[m].tree \in Bin
  <2>1. WalkIs(P, n, st.d, st.calls[st.d].level, b, a[st.d])
    BY <1>0, WalkPlace
  <2>2. b \in Bin
    BY <2>1 DEF WalkIs
  <2>3. P[m].tree \in Bin
    BY <1>1, <1>2, SpotIs
  <2> QED BY <2>2, <2>3
<1>4. Within(P[m].tree, b) /\ P[m].tree # b
  BY <1>2, <1>3, FinerIs
<1>5. r.c = m /\ r.proper = FALSE /\ r \in [c : Nat, proper : BOOLEAN]
  <2>1. m \in Nat
    BY <1>1, <1>2 DEF Sound
  <2> QED BY <2>1, <1>0 DEF Pointer
<1>6. NodeRef(P, r, b, q)
  BY <1>2, <1>4, <1>5 DEF NodeRef
<1>7. KidFits(P, R, W, r, b, q)
  BY <1>5, <1>6 DEF KidFits
<1>8. Adds(h, P, R, W, h, P, r.c)
  BY <1>1, AddsNothing
<1>9. st2 = KidGiven(st, h, n, a, r)
  BY <1>0 DEF KidGiven, Repoint
<1>10. /\ WalksAt(st2, P, a, n) /\ HasKid(st2.heap, n, NextName(st, a), r)
       /\ st2.d = st.d /\ st2.calls = st.calls
       /\ Carries(st.heap, P, st2.heap, P, Null)
  <2>1. Adds(st.heap, P, st.replaced, Ahead(st, a), st.heap, P, r.c)
    BY <1>0, <1>8
  <2>2. KidFits(P, st.replaced, Ahead(st, a), r, Here(st, a, st.d), NextPath(st, a))
    BY <1>0, <1>7
  <2>3. st2 = KidGiven(st, st.heap, n, a, r)
    BY <1>0, <1>9
  <2>4. r.c \in DOMAIN P \ DOMAIN P => r.proper
    OBVIOUS
  <2> QED BY <2>1, <2>2, <2>3, <2>4, WalkKidSet
<1>11. /\ ParFits(P, m, Here(st2, a, st2.d), NextPath(st2, a))
       /\ NextName(st2, a) = NextName(st, a)
  BY <1>10, KidGivenPar
<1>12. HasKid(st2.heap, n, NextName(st2, a), Pointer(m, FALSE))
  BY Zenon, <1>0, <1>10, <1>11
<1>13. Going(Stop(st2, n, m), P, a)
  BY <1>10, <1>11, <1>12, SharedStops
<1>14. Stopped(st, Stop(st2, n, m)) /\ Stop(st2, n, m).heap = st2.heap
  BY <1>10, StopIs
<1>15. Kept(h, P, st2.heap, P, WayHere(st, a))
  <2>1. PICK l, p : l = st.calls[st.d].level /\ p = a[st.d]
    OBVIOUS
  <2>2. WalkIs(P, n, st.d, l, b, p)
    BY <2>1, <1>0, WalkPlace
  <2>3. n \in DOMAIN P /\ PlaceOf(P[n]) \in Way(b, Pre(p, l))
    <3>1. n \in DOMAIN P
      BY <2>2 DEF WalkIs
    <3> QED BY <3>1, <2>2, HereOnWay
  <2>4. st2.heap = SetKid(h, n, NextName(st, a), r)
    <3>1. Shape(st)
      BY WalkParts
    <3> QED BY <3>1, <1>9, OnHeapIs DEF KidGiven
  <2> QED BY <2>1, <2>3, <2>4, <1>0, <1>8, KidGivenKept DEF WayHere
<1> QED BY <1>0, <1>13, <1>14, <1>15 DEF Stops

(* The shared next node is not up to date: the node gets a copy of its own. *)
LEMMA SharedNext ==
  ASSUME DimsAssumption, NEW a \in Addresses, NEW st, NEW P, NEW n, WalksAt(st, P, a, n),
         NEW next, SharesKid(st.heap, n, NextName(st, a), next), next \notin st.replaced,
         NEW b, b = Here(st, a, st.d), NEW q, q = NextPath(st, a)
  PROVE  /\ next \in DOMAIN P /\ P[next].node /\ P[next].path = q /\ P[next].tree \in Bin
         /\ Coarser(P[next].tree, b)
         /\ NodeFits(P, st.replaced, Ahead(st, a), st.heap[next], P[next].tree, q)
         /\ Fits(P, st.replaced, Ahead(st, a), SharingCopy(st.heap[next]), At(b, q))
         /\ b \in Bin /\ q \in Path /\ FreeSpot(P, At(b, q))
<1>0. PICK d, l, p, h, R, W, name, k :
        /\ d = st.d /\ l = st.calls[st.d].level /\ p = a[st.d] /\ h = st.heap
        /\ R = st.replaced /\ W = Ahead(st, a) /\ name = NextName(st, a)
        /\ k = h[n].kids[name]
  OBVIOUS
<1>1. WalkIs(P, n, d, l, b, p) /\ Levels(st, a, st.d - 1)
  BY <1>0, WalkPlace
<1>2. Sound(h, P, R, W) /\ Kind[Len(b) + 1] = "quad" /\ st.d \in Dims
  BY Zenon, <1>0, WalkParts DEF WalkCall
<1>3. /\ n \in DOMAIN P /\ P[n].node /\ P[n].tree = b /\ P[n].path = Pre(p, l)
      /\ name = p[l + 1] /\ q = Pre(p, l + 1) /\ Append(Pre(p, l), name) = q
      /\ b \in Bin /\ q \in Path /\ l \in Nat
      /\ l + 1 \in l + 1 .. Len(p)
  <2>1. name = p[l + 1] /\ q = Pre(p, l + 1)
    BY Zenon, <1>0 DEF NextName, NextPath, NameAfter, PathAfter
  <2> QED BY <2>1, <1>1 DEF WalkIs
<1>4. name \in DOMAIN h[n].kids /\ ~k.proper /\ k.c = next
  BY <1>0 DEF SharesKid
<1>5. NodeFits(P, R, W, h[n], b, Pre(p, l))
  BY <1>2, <1>3, SpotOfNode
<1>6. KidFits(P, R, W, k, b, q)
  BY Zenon, <1>0, <1>3, <1>4, <1>5 DEF NodeFits
<1>7. next \notin R
  BY <1>0
<1>8. /\ next \in DOMAIN P /\ P[next].node /\ P[next].path = q
      /\ Within(P[next].tree, b) /\ P[next].tree # b
  BY <1>4, <1>6, <1>7 DEF KidFits, NodeRef
<1>9. P[next].tree \in Bin
  BY <1>2, <1>8, SpotIs
<1>10. Coarser(P[next].tree, b)
  BY <1>3, <1>8, <1>9 DEF Coarser
<1>11. NodeFits(P, R, W, h[next], P[next].tree, q)
  BY <1>2, <1>8, SpotOfNode
<1>12. Upward(W, P[next].tree, b)
  <2>1. st.calls[st.d].level \in Int
    <3>1. st.calls[st.d].level = l
      BY <1>0
    <3>2. l \in Int
      BY <1>3
    <3> QED BY <3>1, <3>2
  <2>2. Upward(Ahead(st, a), P[next].tree, b)
    BY <2>1, <1>1, <1>2, <1>3, <1>8, <1>9, UpwardAhead
  <2> QED BY <2>2, <1>0
<1>13. P \in [DOMAIN P -> Spots]
  BY <1>2 DEF Sound
<1>14. NodeFits(P, R, W, SharingCopy(h[next]), b, q)
  BY <1>3, <1>10, <1>11, <1>12, <1>13, NodeCopyFits
<1>15. At(b, q) \in Spots /\ At(b, q).node /\ At(b, q).tree = b /\ At(b, q).path = q
  BY <1>3, AtIs
<1>16. Fits(P, R, W, SharingCopy(h[next]), At(b, q))
  BY <1>14, <1>15 DEF Fits
<1>17. Unowned(h, n, NameAfter(p, l))
  BY Zenon, <1>0, <1>3, <1>4 DEF Unowned, NameAfter
<1>18. \A x \in DOMAIN P : P[x] # At(b, q)
  <2> TAKE x \in DOMAIN P
  <2>1. Self \notin Names
    BY NoNameIsSelf
  <2>2. P[x] # At(b, Pre(p, l + 1))
    BY <2>1, <1>1, <1>2, <1>3, <1>17, FreePath
  <2> QED BY <2>2, <1>3
<1>19. FreeSpot(P, At(b, q))
  BY <1>15, <1>18 DEF FreeSpot
<1> QED BY Zenon, <1>0, <1>3, <1>8, <1>9, <1>10, <1>11, <1>16, <1>19

LEMMA OwningDescends ==
  ASSUME DimsAssumption, NEW a \in Addresses, NEW st, NEW P, NEW n, WalksAt(st, P, a, n),
         NEW next, SharesKid(st.heap, n, NextName(st, a), next), next \notin st.replaced,
         NEW m, ParFits(P, m, Here(st, a, st.d), NextPath(st, a)),
         st.calls[st.d].parallel # Null,
         NEW h1, h1 = Allocate(st.heap, SharingCopy(st.heap[next])),
         NEW i, i = Fresh(st.heap),
         NEW st2, st2 = KidGiven(st, h1, n, a, Pointer(i, TRUE))
  PROVE  \E Q : Descends(st, P, Descend(st2, n, i, m, a[st.d]), Q, a)
<1>0. PICK b, h, R, W, q, r, Q :
        /\ b = Here(st, a, st.d) /\ h = st.heap /\ R = st.replaced /\ W = Ahead(st, a)
        /\ q = NextPath(st, a) /\ r = Pointer(i, TRUE) /\ Q = Put(P, i, At(b, q))
  OBVIOUS
<1>1. Sound(h, P, R, W)
  BY <1>0, WalkParts
<1>2. /\ b \in Bin /\ q \in Path /\ FreeSpot(P, At(b, q))
      /\ Fits(P, R, W, SharingCopy(h[next]), At(b, q))
  BY <1>0, SharedNext
<1>3. Adds(h, P, R, W, h1, Q, i) /\ PlacedAt(Q, P, i, At(b, q))
  <2>1. h1 = Allocate(h, SharingCopy(h[next])) /\ i = Fresh(h)
    BY <1>0
  <2>2. Adds(h, P, R, W, Allocate(h, SharingCopy(h[next])), Q, i) /\ PlacedAt(Q, P, i, At(b, q))
    BY <2>1, <1>0, <1>1, <1>2, AddsCopy
  <2> QED BY <2>1, <2>2
<1>4. /\ i \in DOMAIN Q /\ Q[i].node /\ Q[i].tree = b /\ Q[i].path = q /\ i \in Nat
  BY <1>3, <1>2, AtIs DEF PlacedAt
<1>5. r.c = i /\ r.proper = TRUE /\ r \in [c : Nat, proper : BOOLEAN]
  BY <1>0, <1>4 DEF Pointer
<1>6. NodeRef(Q, r, b, q)
  BY <1>2, <1>4, <1>5, WithinItself DEF NodeRef
<1>7. KidFits(Q, R, W, r, b, q)
  BY <1>5, <1>6 DEF KidFits
<1>8. /\ WalksAt(st2, Q, a, n) /\ HasKid(st2.heap, n, NextName(st, a), r)
      /\ st2.d = st.d /\ st2.calls = st.calls
      /\ Carries(st.heap, P, st2.heap, Q, Null)
  <2>1. Adds(st.heap, P, st.replaced, Ahead(st, a), h1, Q, r.c)
    BY <1>0, <1>3, <1>5
  <2>2. KidFits(Q, st.replaced, Ahead(st, a), r, Here(st, a, st.d), NextPath(st, a))
    BY <1>0, <1>7
  <2>3. st2 = KidGiven(st, h1, n, a, r)
    BY <1>0
  <2>4. r.c \in DOMAIN Q \ DOMAIN P => r.proper
    BY <1>5
  <2>5. Unowned(st.heap, n, NextName(st, a))
    BY DEF SharesKid, Unowned
  <2> QED BY ZenonT(30), <2>1, <2>2, <2>3, <2>4, <2>5, WalkKidSet
<1>9. /\ ParFits(Q, m, Here(st2, a, st2.d), NextPath(st2, a))
      /\ NextName(st2, a) = NextName(st, a)
  BY ZenonT(30), <1>8, KidGivenPar
<1>10. /\ HasKid(st2.heap, n, NameAfter(a[st2.d], st2.calls[st2.d].level), Pointer(i, TRUE))
       /\ ParFits(Q, m, Here(st2, a, st2.d), PathAfter(a[st2.d], st2.calls[st2.d].level))
       /\ st2.calls[st2.d].parallel # Null
  BY Zenon, <1>0, <1>8, <1>9 DEF NextName, NextPath
<1>11. Going(Descend(st2, n, i, m, a[st2.d]), Q, a)
  BY Zenon, <1>8, <1>10, DescendGoes
<1>12. /\ Descended(st, Descend(st2, n, i, m, a[st2.d]), a)
       /\ Descend(st2, n, i, m, a[st2.d]).heap = st2.heap
  <2>1. WalksAt(st2, Q, a, n) /\ st2.d = st.d /\ st2.calls = st.calls
    BY <1>8
  <2>2. PICK s : s = st2
    OBVIOUS
  <2>3. WalksAt(s, Q, a, n) /\ s.d = st.d /\ s.calls = st.calls
    BY <2>1, <2>2
  <2>4. /\ Descended(st, Descend(s, n, i, m, a[s.d]), a)
        /\ Descend(s, n, i, m, a[s.d]).heap = s.heap
    BY SMTT(60), <2>3, DescendIs
  <2> QED BY <2>2, <2>4
<1>13. Kept(h, P, st2.heap, Q, WayDown(st, a))
  <2>1. PICK l, p : l = st.calls[st.d].level /\ p = a[st.d]
    OBVIOUS
  <2>2. WalkIs(P, n, st.d, l, b, p)
    BY <2>1, <1>0, WalkPlace
  <2>3. n \in DOMAIN P /\ PlaceOf(P[n]) \in Way(b, p)
    <3>1. n \in DOMAIN P
      BY <2>2 DEF WalkIs
    <3> QED BY <3>1, <2>2, HereOnWay
  <2>4. st2.heap = SetKid(h1, n, NextName(st, a), r)
    <3>1. Shape(st) /\ st2 = KidGiven(st, h1, n, a, r)
      BY <1>0, WalkParts
    <3>2. PICK g : g = SetKid(h1, n, NextName(st, a), r)
      OBVIOUS
    <3>3. st2 = OnHeap(st, g)
      BY Zenon, <3>1, <3>2 DEF KidGiven
    <3>4. OnHeap(st, g).heap = g
      BY <3>1, OnHeapIs
    <3> QED BY <3>2, <3>3, <3>4
  <2>5. q = Pre(p, l + 1) /\ p \in Path /\ l + 1 \in 0 .. Len(p)
    BY <2>1, <2>2, <1>0 DEF WalkIs, NextPath, PathAfter
  <2>6. PlaceOf(Q[i]) \in Way(b, p)
    BY <2>5, <1>4, OnWay
  <2>7. \A x \in DOMAIN Q \ DOMAIN P : PlaceOf(Q[x]) \in Way(b, p)
    BY <2>6, <1>3 DEF PlacedAt
  <2> QED BY <2>1, <2>3, <2>4, <2>7, <1>0, <1>3, KidGivenKept DEF WayDown
<1> QED BY <1>0, <1>8, <1>11, <1>12, <1>13 DEF Descends

(* What is due then.                                                       *)
LEMMA StopDue ==
  ASSUME DimsAssumption, NEW a \in Addresses, NEW st, NEW P, NEW n, WalksAt(st, P, a, n),
         Unowned(st.heap, n, NextName(st, a)), NEW st2, Stopped(st, st2),
         NEW x \in DOMAIN P, PlaceOf(P[x]) \in Due(st, a)
  PROVE  PlaceOf(P[x]) \in Due(st2, a)
<1> SUFFICES ASSUME PlaceOf(P[x]) \notin Due(st2, a) PROVE FALSE
  OBVIOUS
<1>0. PICK d, l, b, p, c, r, h :
        /\ d = st.d /\ l = st.calls[st.d].level /\ b = Here(st, a, st.d) /\ p = a[st.d]
        /\ c = P[x].tree /\ r = P[x].path /\ h = st.heap
  OBVIOUS
<1>1. WalkIs(P, n, d, l, b, p) /\ Levels(st, a, d - 1)
  BY <1>0, WalkPlace
<1>2. /\ d \in Dims /\ d \in Nat \ {0} /\ b \in Bin /\ Len(b) = d - 1 /\ Len(b) + 1 = d
      /\ p \in Path /\ Len(p) \in Nat \ {0} /\ l \in 0 .. Len(p) - 1 /\ l + 1 \in 0 .. Len(p)
      /\ Pre(p, l + 1) \in Path /\ Len(Pre(p, l + 1)) = l + 1
  BY <1>1 DEF WalkIs
<1>3. Sound(h, P, st.replaced, Ahead(st, a)) /\ Kind[Len(b) + 1] = "quad"
  BY Zenon, <1>0, WalkParts DEF WalkCall
<1>4. c \in Bin /\ r \in Path /\ (~P[x].node => r = <<>>)
  BY <1>0, <1>3, SpotIs DEF Of
<1>5. Inside(c, b) /\ Covers(c, r, a) /\ ~Open(st2, d, c, r)
  <2>1. <<c, r>> \in Due(st, a) /\ <<c, r>> \notin Due(st2, a)
    BY <1>0 DEF PlaceOf
  <2>2. st2.d = st.d /\ \A j \in 1 .. st.d - 1 : st2.calls[j] = st.calls[j]
    BY DEF Stopped, InnerOnly
  <2>3. st.d \in Dims /\ Levels(st, a, st.d - 1)
    BY <1>0, <1>1, <1>2
  <2> QED BY <2>1, <2>2, <2>3, <1>0, <1>4, DueLess
<1>6. Len(c) \in Nat /\ Len(r) \in Nat
  BY <1>4 DEF Bin, Path
<1>7. Len(c) >= d - 1 /\ \A i \in 1 .. Len(b) : c[i] = b[i]
  BY <1>5, <1>2 DEF Inside
<1>8. ~ (IF Len(c) = d - 1 THEN Len(r) <= l ELSE Len(c[d]) <= l)
  <2>1. st2.calls[d].level = l
    BY <1>0 DEF Stopped
  <2> QED BY <2>1, <1>5 DEF Open
<1>9. UnderPlace(P[x], b, Pre(p, l + 1))
  <2>1. CASE d <= Len(c)
    <3>1. Starts(c[d], p) /\ c[d] \in Path
      <4>1. d \in 1 .. Len(c)
        BY <1>2, <1>6, <2>1
      <4> QED BY <4>1, <1>0, <1>4, <1>5 DEF Covers, Bin
    <3>2. l + 1 <= Len(c[d])
      BY <3>1, <1>2, <1>6, <1>8, <2>1 DEF Path
    <3>3. Starts(Pre(p, l + 1), c[d])
      BY <3>1, <3>2, <1>2, StartsLonger DEF Path
    <3> QED BY <3>3, <1>0, <1>2, <1>6, <1>7, <2>1 DEF UnderPlace
  <2>2. CASE ~ (d <= Len(c))
    <3>1. Len(c) = d - 1
      BY <1>2, <1>6, <1>7, <2>2
    <3>2. c = b
      BY <3>1, <1>2, <1>4, <1>7 DEF Bin
    <3>3. Starts(r, p)
      <4>1. Len(c) + 1 = d
        BY <3>1, <1>2
      <4> QED BY <4>1, <1>0, <1>5 DEF Covers
    <3>4. l + 1 <= Len(r)
      BY <3>1, <1>2, <1>6, <1>8
    <3>5. Starts(Pre(p, l + 1), r)
      BY <3>3, <3>4, <1>2, <1>4, StartsLonger DEF Path
    <3>6. P[x].node
      <4>1. r # <<>>
        BY <3>4, <1>2
      <4> QED BY <4>1, <1>4
    <3> QED BY <3>2, <3>5, <3>6, <1>0 DEF UnderPlace
  <2> QED BY <2>1, <2>2
<1>10. ~UnderPlace(P[x], b, PathAfter(p, l))
  <2>1. Unowned(h, n, NameAfter(p, l))
    BY <1>0 DEF NextName
  <2>2. Self \notin Names
    BY NoNameIsSelf
  <2> QED BY <2>1, <2>2, <1>1, <1>3, FreeBelow
<1> QED BY <1>9, <1>10 DEF PathAfter

LEMMA DescendDue ==
  ASSUME DimsAssumption, NEW a \in Addresses, NEW st, NEW P, NEW n, WalksAt(st, P, a, n),
         NEW st2, Descended(st, st2, a)
  PROVE  Due(st, a) \subseteq Due(st2, a)
<1> SUFFICES ASSUME NEW c \in Bin, NEW r \in Path, <<c, r>> \in Due(st, a),
                    <<c, r>> \notin Due(st2, a)
             PROVE  FALSE
  BY DEF Due
<1>0. PICK d, l, b, p :
        d = st.d /\ l = st.calls[st.d].level /\ b = Here(st, a, st.d) /\ p = a[st.d]
  OBVIOUS
<1>1. WalkIs(P, n, d, l, b, p) /\ Levels(st, a, d - 1)
  BY <1>0, WalkPlace
<1>2. /\ d \in Dims /\ d \in Nat \ {0} /\ b \in Bin /\ Len(b) = d - 1 /\ Len(b) + 1 = d
      /\ p \in Path /\ Len(p) \in Nat \ {0} /\ l \in 0 .. Len(p) - 1
  BY <1>1 DEF WalkIs
<1>5. Inside(c, b) /\ Covers(c, r, a) /\ ~Open(st2, d, c, r)
  <2>2. st2.d = st.d /\ \A j \in 1 .. st.d - 1 : st2.calls[j] = st.calls[j]
    BY DEF Descended, InnerOnly
  <2>3. st.d \in Dims /\ Levels(st, a, st.d - 1)
    BY <1>0, <1>1, <1>2
  <2> QED BY <2>2, <2>3, <1>0, DueLess
<1>6. Len(c) \in Nat /\ Len(r) \in Nat /\ Len(c) >= d - 1
  BY <1>2, <1>5 DEF Bin, Path, Inside
<1>7. ~ (l + 1 < Len(p)) /\ ~ (IF Len(c) = d - 1 THEN Len(r) <= l + 1 ELSE Len(c[d]) <= l + 1)
  <2>1. st2.calls[d].level = l + 1 /\ st2.d = d /\ (st2.calls[d].walking <=> l + 1 < Len(p))
    BY <1>0 DEF Descended, InnerOnly
  <2> QED BY <2>1, <1>5 DEF Open
<1>8. CASE Len(c) = d - 1
  <2>1. Starts(r, p)
    <3>1. Len(c) + 1 = d
      BY <1>2, <1>8
    <3> QED BY <3>1, <1>0, <1>5 DEF Covers
  <2>2. Len(r) <= Len(p)
    BY <2>1 DEF Starts
  <2> QED BY <2>2, <1>2, <1>6, <1>7, <1>8
<1>9. CASE Len(c) # d - 1
  <2>1. d \in 1 .. Len(c)
    BY <1>2, <1>6, <1>9
  <2>2. Starts(c[d], p) /\ c[d] \in Path
    BY <2>1, <1>0, <1>5 DEF Covers, Bin
  <2>3. Len(c[d]) <= Len(p) /\ Len(c[d]) \in Nat
    BY <2>2 DEF Starts, Path
  <2> QED BY <2>3, <1>2, <1>7, <1>9
<1> QED BY <1>8, <1>9

(* The places on the way are due.                                          *)
LEMMA WayDue ==
  ASSUME DimsAssumption, NEW a \in Addresses, NEW st, st.d \in Dims, Levels(st, a, st.d - 1),
         NEW p \in Path, Starts(p, a[st.d]),
         st.calls[st.d].walking \/ Len(p) <= st.calls[st.d].level, st.calls[st.d].level \in Int
  PROVE  Way(Here(st, a, st.d), p) \subseteq Due(st, a)
<1> SUFFICES ASSUME NEW q \in Path, Starts(q, p)
             PROVE  <<Here(st, a, st.d), q>> \in Due(st, a)
  BY DEF Way
<1>0. PICK b, d : b = Here(st, a, st.d) /\ d = st.d
  OBVIOUS
<1>1. /\ b \in Bin /\ Len(b) = d - 1 /\ d \in Nat \ {0} /\ Len(b) + 1 = d /\ Len(b) \in Nat
      /\ \A i \in 1 .. d - 1 : Starts(b[i], a[i])
  <2>1. d \in 1 .. Len(Kind) + 1 /\ d \in Nat \ {0}
    BY <1>0, DimsAre
  <2> QED BY SMTT(20), <2>1, <1>0, HereIs
<1>2. Covers(b, q, a)
  <2>1. a[d] \in Path
    BY <1>0, AddressIs
  <2>2. Starts(q, a[d])
    BY <2>1, <1>0, StartsTransitive DEF Path
  <2> QED BY <2>2, <1>0, <1>1 DEF Covers
<1>3. Inside(b, b)
  BY <1>1 DEF Inside
<1>4. Open(st, d, b, q)
  <2>1. Len(q) <= Len(p) /\ Len(q) \in Nat /\ Len(p) \in Nat
    BY DEF Starts, Path
  <2> QED BY <2>1, <1>0, <1>1 DEF Open
<1>5. <<b, q>> \in Due(st, a)
  <2>1. Inside(b, Here(st, a, st.d)) /\ Open(st, st.d, b, q)
    BY <1>0, <1>3, <1>4
  <2> QED BY <2>1, <1>1, <1>2, InsideDue
<1> QED BY <1>0, <1>5

LEMMA StopLeads ==
  ASSUME DimsAssumption, NEW a \in Addresses, NEW st, NEW P, NEW n, WalksAt(st, P, a, n),
         Unowned(st.heap, n, NextName(st, a)), NEW st2, NEW Q, Stops(st, P, st2, Q, a)
  PROVE  Leads(st.heap, P, Due(st, a), st2, Q, a)
<1>1. Going(st2, Q, a) /\ Stopped(st, st2) /\ Kept(st.heap, P, st2.heap, Q, WayHere(st, a))
  BY DEF Stops
<1>2. \A x \in DOMAIN P : PlaceOf(P[x]) \in Due(st, a) => PlaceOf(P[x]) \in Due(st2, a)
  BY <1>1, StopDue
<1>3. WayHere(st, a) \subseteq Due(st2, a)
  <2>0. PICK d, l, b, p :
          d = st.d /\ l = st.calls[st.d].level /\ b = Here(st, a, st.d) /\ p = a[st.d]
    OBVIOUS
  <2>1. WalkIs(P, n, d, l, b, p) /\ Levels(st, a, d - 1)
    BY <2>0, WalkPlace
  <2>2. /\ d \in Dims /\ d \in Nat \ {0} /\ p \in Path /\ l \in 0 .. Len(p) /\ l \in Int
        /\ Pre(p, l) \in Path /\ Len(Pre(p, l)) = l
    BY <2>1 DEF WalkIs
  <2>3. st2.d = d /\ st2.calls[d].level = l /\ \A j \in 1 .. d - 1 : st2.calls[j] = st.calls[j]
    BY <2>0, <1>1 DEF Stopped, InnerOnly
  <2>4. Here(st2, a, d) = b /\ Levels(st2, a, d - 1)
    <3>1. \A i \in 1 .. d - 1 : st2.calls[i].level = st.calls[i].level
      BY <2>3
    <3>2. d \in Nat
      BY <2>2
    <3>3. Here(st2, a, d) = Here(st, a, d)
      BY <3>1, <3>2, HereSame
    <3>4. Levels(st2, a, d - 1)
      BY <3>1, <2>1 DEF Levels
    <3> QED BY <3>3, <3>4, <2>0
  <2>5. Starts(Pre(p, l), p)
    BY <2>2, PreStarts DEF Path
  <2>6. Len(Pre(p, l)) <= st2.calls[d].level
    BY <2>2, <2>3
  <2>7. Way(Here(st2, a, st2.d), Pre(p, l)) \subseteq Due(st2, a)
    BY <2>0, <2>2, <2>3, <2>4, <2>5, <2>6, WayDue
  <2> QED BY <2>0, <2>3, <2>4, <2>7 DEF WayHere
<1> QED BY <1>1, <1>2, <1>3, KeptMore DEF Leads

LEMMA DescendLeads ==
  ASSUME DimsAssumption, NEW a \in Addresses, NEW st, NEW P, NEW n, WalksAt(st, P, a, n),
         NEW st2, NEW Q, Descends(st, P, st2, Q, a)
  PROVE  Leads(st.heap, P, Due(st, a), st2, Q, a)
<1>1. Going(st2, Q, a) /\ Descended(st, st2, a) /\ Kept(st.heap, P, st2.heap, Q, WayDown(st, a))
  BY DEF Descends
<1>2. Due(st, a) \subseteq Due(st2, a)
  BY <1>1, DescendDue
<1>3. WayDown(st, a) \subseteq Due(st2, a)
  <2>0. PICK d, l, b, p :
          d = st.d /\ l = st.calls[st.d].level /\ b = Here(st, a, st.d) /\ p = a[st.d]
    OBVIOUS
  <2>1. WalkIs(P, n, d, l, b, p) /\ Levels(st, a, d - 1)
    BY <2>0, WalkPlace
  <2>2. d \in Dims /\ d \in Nat \ {0} /\ p \in Path /\ l \in 0 .. Len(p) - 1 /\ Len(p) \in Nat
    BY <2>1 DEF WalkIs
  <2>3. /\ st2.d = d /\ st2.calls[d].level = l + 1
        /\ \A j \in 1 .. d - 1 : st2.calls[j] = st.calls[j]
        /\ st2.calls[d].walking <=> l + 1 < Len(p)
    BY <2>0, <1>1 DEF Descended, InnerOnly
  <2>4. Here(st2, a, d) = b /\ Levels(st2, a, d - 1)
    <3>1. \A i \in 1 .. d - 1 : st2.calls[i].level = st.calls[i].level
      BY <2>3
    <3>2. d \in Nat
      BY <2>2
    <3>3. Here(st2, a, d) = Here(st, a, d)
      BY <3>1, <3>2, HereSame
    <3>4. Levels(st2, a, d - 1)
      BY <3>1, <2>1 DEF Levels
    <3> QED BY <3>3, <3>4, <2>0
  <2>5. Starts(p, p)
    BY <2>2, StartsItself DEF Path
  <2>6. /\ st2.calls[d].walking \/ Len(p) <= st2.calls[d].level
        /\ st2.calls[d].level \in Int
    BY <2>2, <2>3
  <2>7. Way(Here(st2, a, st2.d), p) \subseteq Due(st2, a)
    BY <2>0, <2>2, <2>3, <2>4, <2>5, <2>6, WayDue
  <2> QED BY <2>0, <2>3, <2>4, <2>7 DEF WayDown
<1> QED BY <1>1, <1>2, <1>3, KeptMore DEF Leads

LEMMA ChildIs ==
  ASSUME NEW h, NEW n, NEW k, Branches(h[n]), Child(h, n, k) # Null
  PROVE  /\ k \in DOMAIN h[n].kids /\ h[n].kids[k].c = Child(h, n, k)
         /\ h[n].kids[k].proper => HasKid(h, n, k, Pointer(Child(h, n, k), TRUE))
         /\ ~h[n].kids[k].proper => SharesKid(h, n, k, Child(h, n, k))
<1>1. k \in DOMAIN h[n].kids /\ h[n].kids[k].c = Child(h, n, k)
  BY DEF Child
<1>2. PICK r : r = h[n].kids[k]
  OBVIOUS
<1>3. r \in [c : Nat, proper : BOOLEAN]
  BY <1>1, <1>2 DEF Branches
<1>4. ASSUME r.proper PROVE HasKid(h, n, k, Pointer(Child(h, n, k), TRUE))
  <2>1. r = [c |-> r.c, proper |-> TRUE]
    BY <1>3, <1>4
  <2> QED BY <2>1, <1>1, <1>2 DEF HasKid, Pointer
<1>5. ASSUME ~r.proper PROVE SharesKid(h, n, k, Child(h, n, k))
  BY <1>1, <1>2, <1>5 DEF SharesKid
<1> QED BY <1>1, <1>2, <1>4, <1>5

LEMMA WalkGoes ==
  ASSUME DimsAssumption, NEW a \in Addresses, NEW st, NEW P, Going(st, P, a),
         st.d # 0, st.calls[st.d].walking,
         NEW st2, st2 = Walk(st, a[st.d])
  PROVE  st2.fault = TRUE \/ \E Q : Leads(st.heap, P, Due(st, a), st2, Q, a)
<1>0. PICK h, n, p, name, next, m, path, alone :
        /\ h = st.heap /\ n = st.calls[st.d].node /\ p = a[st.d] /\ name = NextName(st, a)
        /\ next = Child(h, n, name)
        /\ alone = (st.calls[st.d].parallel = Null)
        /\ m = IF alone THEN Null ELSE Child(h, st.calls[st.d].parNode, name)
        /\ path = CreatePath(h, p, st.calls[st.d].level + 1)
  OBVIOUS
<1>1. /\ WalksAt(st, P, a, n)
      /\ ParFits(P, st.calls[st.d].parNode, Here(st, a, st.d), Pre(a[st.d], st.calls[st.d].level))
      /\ st.calls[st.d].parallel = Null => st.calls[st.d].parNode = Null
  BY <1>0, Walking
<1>2. PICK copy, owned, pointed : 
        /\ copy = Allocate(h, SharingCopy(h[next]))
        /\ owned = KidGiven(st, copy, n, a, Pointer(Fresh(h), TRUE))
        /\ pointed = OnHeap(st, Repoint(h, n, name, m))
  OBVIOUS
<1>3. st2 =
        IF ~alone /\ m = Null THEN Fail(st)
        ELSE IF next = Null /\ ~alone
        THEN Stop(Replaces(st, Replacement(st, a, h, Pointer(m, FALSE)), n), Fresh(h), m)
        ELSE IF next = Null
        THEN Descend(Replaces(st, Replacement(st, a, path.heap, Pointer(path.top, TRUE)), n),
                     Fresh(path.heap), path.top, Null, p)
        ELSE IF h[n].kids[name].proper THEN Descend(st, n, next, m, p)
        ELSE IF alone THEN Fail(st)
        ELSE IF next = m THEN Stop(st, n, next)
        ELSE IF next \in st.replaced THEN Stop(pointed, n, m)
        ELSE Descend(owned, n, Fresh(h), m, p)
  <2>1. name = p[st.calls[st.d].level + 1]
    BY <1>0 DEF NextName, NameAfter
  <2>2. Replacement(st, a, h, Pointer(m, FALSE)) = AddChild(h, st.calls[st.d], p, m, FALSE)
    BY <1>0 DEF Replacement, Pointer
  <2>3. Replacement(st, a, path.heap, Pointer(path.top, TRUE))
          = AddChild(path.heap, st.calls[st.d], p, path.top, TRUE)
    BY <1>0 DEF Replacement, Pointer
  <2>4. owned = OnHeap(st, SetKid(copy, n, name, Pointer(Fresh(h), TRUE)))
    BY <1>0, <1>2 DEF KidGiven
  <2>5. st2 = Walk(st, p)
    BY <1>0
  <2> QED BY <1>0, <1>2, <2>1, <2>2, <2>3, <2>4, <2>5, Zenon DEF Walk, Replaces
<1>4. Fail(st).fault = TRUE
  <2>1. Shape(st)
    BY <1>1, WalkParts
  <2> QED BY <2>1 DEF Fail, Shape
<1>5. ParFits(P, m, Here(st, a, st.d), NextPath(st, a))
  <2>1. CASE alone
    <3>1. m = Null
      BY <1>0, <2>1
    <3> QED BY <3>1 DEF ParFits
  <2>2. CASE ~alone
    <3>1. m = Child(st.heap, st.calls[st.d].parNode, NextName(st, a))
      BY <1>0, <2>2
    <3> QED BY <3>1, <1>1, NextPar
  <2> QED BY <2>1, <2>2
<1>6. /\ n \in DOMAIN P /\ P[n].node /\ Branches(h[n])
      /\ Sound(h, P, st.replaced, Ahead(st, a))
  <2>1. WalkIs(P, n, st.d, st.calls[st.d].level, Here(st, a, st.d), a[st.d])
    BY <1>1, WalkPlace
  <2>2. n \in DOMAIN P /\ P[n].node
    BY <2>1 DEF WalkIs
  <2>3. Sound(h, P, st.replaced, Ahead(st, a))
    BY <1>0, <1>1, WalkParts
  <2> QED BY <2>2, <2>3, SpotOfNode DEF NodeFits
<1>7. alone \in BOOLEAN
  BY <1>0
<1>8. CASE ~alone /\ m = Null
  BY <1>3, <1>4, <1>8
<1>9. CASE next = Null /\ ~alone /\ m # Null
  <2>1. st2 = Stop(Replaces(st, Replacement(st, a, st.heap, Pointer(m, FALSE)), n), Fresh(st.heap), m)
    BY <1>0, <1>3, <1>9
  <2>2. Child(st.heap, n, NextName(st, a)) = Null /\ m # Null /\ st.calls[st.d].node = n
    BY <1>0, <1>9
  <2>3. PICK Q : Stops(st, P, st2, Q, a)
    BY <2>1, <2>2, <1>1, <1>5, ReplaceStops
  <2>4. Unowned(st.heap, n, NextName(st, a))
    BY <2>2, <1>0, <1>6, NoChild
  <2> QED BY <2>3, <2>4, <1>1, StopLeads
<1>10. CASE next = Null /\ alone
  <2>1. st2 = Descend(Replaces(st, Replacement(st, a, path.heap, Pointer(path.top, TRUE)), n),
                      Fresh(path.heap), path.top, Null, a[st.d])
    BY <1>0, <1>3, <1>10
  <2>2. /\ Child(st.heap, n, NextName(st, a)) = Null /\ st.calls[st.d].node = n
        /\ path = CreatePath(st.heap, a[st.d], st.calls[st.d].level + 1)
    BY <1>0, <1>10
  <2>3. PICK Q : Descends(st, P, st2, Q, a)
    BY Zenon, <2>1, <2>2, <1>1, ReplaceDescends
  <2> QED BY <2>3, <1>1, DescendLeads
<1>11. ASSUME next # Null, alone \/ m # Null
       PROVE  st2.fault = TRUE \/ \E Q : Leads(st.heap, P, Due(st, a), st2, Q, a)
  <2>1. Child(h, n, name) # Null
    BY <1>0, <1>11
  <2>2. /\ h[n].kids[name].proper => HasKid(h, n, name, Pointer(next, TRUE))
        /\ ~h[n].kids[name].proper => SharesKid(h, n, name, next)
    BY Zenon, <2>1, <1>0, <1>6, ChildIs
  <2>3. CASE h[n].kids[name].proper
    <3>1. st2 = Descend(st, n, next, m, a[st.d])
      BY Zenon, <1>0, <1>3, <1>11, <2>3
    <3>2. HasKid(st.heap, n, NameAfter(a[st.d], st.calls[st.d].level), Pointer(next, TRUE))
      BY Zenon, <1>0, <2>2, <2>3 DEF NextName
    <3>3. ParFits(P, m, Here(st, a, st.d), PathAfter(a[st.d], st.calls[st.d].level))
      BY <1>5 DEF NextPath
    <3>4. st.calls[st.d].parallel = Null => m = Null
      BY <1>0
    <3>5. Going(st2, P, a)
      BY <3>1, <3>2, <3>3, <3>4, <1>1, DescendGoes
    <3>6. Descended(st, st2, a) /\ st2.heap = st.heap
      BY <3>1, <1>1, DescendIs
    <3>7. Descends(st, P, st2, P, a)
      BY <3>5, <3>6, KeptSame DEF Descends
    <3> QED BY <3>7, <1>1, DescendLeads
  <2>4. CASE ~h[n].kids[name].proper /\ alone
    BY <1>3, <1>4, <1>11, <2>4
  <2>5. CASE ~h[n].kids[name].proper /\ ~alone /\ next = m
    <3>1. st2 = Stop(st, n, m)
      BY <1>3, <1>11, <2>5
    <3>2. SharesKid(st.heap, n, NextName(st, a), m) /\ Branches(st.heap[n])
      BY Zenon, <1>0, <1>6, <2>2, <2>5
    <3>3. HasKid(st.heap, n, NextName(st, a), Pointer(m, FALSE))
      BY <3>2 DEF SharesKid, HasKid, Pointer, Branches
    <3>4. m # Null
      BY <1>11, <2>5
    <3>5. Going(st2, P, a)
      BY <3>1, <3>3, <3>4, <1>1, <1>5, SharedStops
    <3>6. Stopped(st, st2) /\ st2.heap = st.heap
      BY <3>1, <1>1, StopIs
    <3>7. Stops(st, P, st2, P, a)
      BY <3>5, <3>6, KeptSame DEF Stops
    <3>8. Unowned(st.heap, n, NextName(st, a))
      BY <3>2 DEF SharesKid, Unowned
    <3> QED BY <3>7, <3>8, <1>1, StopLeads
  <2>6. CASE ~h[n].kids[name].proper /\ ~alone /\ next # m /\ next \in st.replaced
    <3>1. st2 = Stop(pointed, n, m)
      BY <1>3, <1>11, <2>6
    <3>2. Unowned(st.heap, n, NextName(st, a))
      BY Zenon, <1>0, <2>6 DEF Unowned
    <3>3. m # Null /\ pointed = OnHeap(st, Repoint(st.heap, n, NextName(st, a), m))
      BY Zenon, <1>0, <1>2, <1>11, <2>6
    <3>4. Stops(st, P, st2, P, a)
      BY <3>1, <3>2, <3>3, <1>1, <1>5, RepointStops
    <3> QED BY <3>2, <3>4, <1>1, StopLeads
  <2>7. CASE ~h[n].kids[name].proper /\ ~alone /\ next # m /\ next \notin st.replaced
    <3>1. st2 = Descend(owned, n, Fresh(st.heap), m, a[st.d])
      BY <1>0, <1>3, <1>11, <2>7
    <3>2. SharesKid(st.heap, n, NextName(st, a), next) /\ st.calls[st.d].parallel # Null
      BY Zenon, <1>0, <2>2, <2>7
    <3>3. /\ copy = Allocate(st.heap, SharingCopy(st.heap[next]))
          /\ owned = KidGiven(st, copy, n, a, Pointer(Fresh(st.heap), TRUE))
      BY <1>0, <1>2
    <3>4. PICK Q : Descends(st, P, st2, Q, a)
      BY <3>1, <3>2, <3>3, <2>7, <1>1, <1>5, OwningDescends
    <3> QED BY <3>4, <1>1, DescendLeads
  <2> QED BY <2>3, <2>4, <2>5, <2>6, <2>7
<1> QED BY <1>7, <1>8, <1>9, <1>10, <1>11

=============================================================================
