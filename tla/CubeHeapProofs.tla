--------------------------- MODULE CubeHeapProofs ---------------------------
(***************************************************************************)
(* The heap of the cube: what stands where in it, what may refer to what,  *)
(* what an insertion under way has still to come to, and what becomes of   *)
(* that when the heap grows, a node moves or an object is changed.  Module *)
(* NanoCubeProofs has the theorems that this is for.                       *)
(***************************************************************************)
EXTENDS NanoCube, TLAPS, FiniteSetTheorems, WellFoundedInduction

(* Bins and places.  A bin is a sequence of paths, one for each of the     *)
(* dimensions it restricts; a content summarises a bin, the tree of        *)
(* dimension d one that restricts the d - 1 dimensions before.  A node has *)
(* a place: the bin of its tree and its path in it.                        *)

Names == UNION { { p[i] : i \in DOMAIN p } : p \in UNION { Paths[d] : d \in Dims } }
Path  == Seq(Names)
Bin   == Seq(Path)
Depth(d) == CHOOSE n \in Nat : \A p \in Paths[d] : Len(p) = n

Pre(p, n) == [i \in 1 .. n |-> p[i]]
Starts(q, p) == Len(q) <= Len(p) /\ q = Pre(p, Len(q))   \* q is the start of p

(* Bin c is in bin b, or is b.                                             *)
Within(c, b) == Len(c) = Len(b) /\ \A i \in DOMAIN b : Starts(b[i], c[i])

(* What stands where: P gives the place of each node, and to each content  *)
(* its bin.                                                                *)
At(b, q)   == [node |-> TRUE, tree |-> b, path |-> q]
Of(b)      == [node |-> FALSE, tree |-> b, path |-> <<>>]
Spots      == { At(b, q) : b \in Bin, q \in Path } \cup { Of(b) : b \in Bin }

-----------------------------------------------------------------------------
(* What the fields of an object may hold, by its spot.  A proper pointer   *)
(* has exactly the content or the node of its place; a shared one has that *)
(* of a smaller bin.  Pointers to nodes replaced are allowed at the places *)
(* of W only, and are all in R.                                            *)

HolderFits(P, r, b) ==
  /\ r \in [c : Nat, proper : BOOLEAN]
  /\ \/ r = NoContent
     \/ /\ r.c \in DOMAIN P /\ ~P[r.c].node
        /\ Within(P[r.c].tree, b)
        /\ r.proper => P[r.c].tree = b

NodeRef(P, r, b, q) ==
  /\ r.c \in DOMAIN P /\ P[r.c].node /\ P[r.c].path = q
  /\ Within(P[r.c].tree, b)
  /\ r.proper <=> P[r.c].tree = b

KidFits(P, R, W, r, b, q) ==
  /\ r \in [c : Nat, proper : BOOLEAN]
  /\ \/ NodeRef(P, r, b, q)
     \/ ~r.proper /\ r.c \in R /\ <<b, q>> \in W

Branches(object) ==
  /\ DOMAIN object = {"kind", "self", "kids"}
  /\ object.kids \in [DOMAIN object.kids -> [c : Nat, proper : BOOLEAN]]
  /\ DOMAIN object.kids \subseteq Names

OnlyChild(object) == \E k \in DOMAIN object.kids : DOMAIN object.kids = {k}

NodeFits(P, R, W, object, b, q) ==
  /\ object.kind = "node" /\ Branches(object)
  /\ Len(b) + 1 \in Dims /\ Kind[Len(b) + 1] = "quad" /\ Len(q) <= Depth(Len(b) + 1)
  /\ DOMAIN object.kids = {} <=> Len(q) = Depth(Len(b) + 1)
  /\ OnlyChild(object) => ~object.self.proper
  /\ HolderFits(P, object.self, Append(b, q))
  /\ \A k \in DOMAIN object.kids : KidFits(P, R, W, object.kids[k], b, Append(q, k))

FlatFits(P, object, b) ==
  /\ object.kind = "flat" /\ Branches(object)
  /\ Len(b) + 1 \in Dims /\ Kind[Len(b) + 1] = "flat"
  /\ DOMAIN object.kids = {} \/ OnlyChild(object) => ~object.self.proper
  /\ HolderFits(P, object.self, Append(b, <<>>))
  /\ \A k \in DOMAIN object.kids : HolderFits(P, object.kids[k], Append(b, <<k>>))

QuadFits(P, object, b) ==
  /\ object.kind = "quad" /\ DOMAIN object = {"kind", "root"} /\ object.root \in Nat
  /\ Len(b) + 1 \in Dims /\ Kind[Len(b) + 1] = "quad"
  /\ object.root # Null => NodeRef(P, Pointer(object.root, TRUE), b, <<>>)

LeafFits(object, b) ==
  /\ object.kind = "leaf" /\ DOMAIN object = {"kind", "bag"}
  /\ object.bag \in [Addresses -> Nat]
  /\ Len(b) = Len(Kind)

Fits(P, R, W, object, spot) ==
  IF spot.node THEN NodeFits(P, R, W, object, spot.tree, spot.path)
  ELSE \/ QuadFits(P, object, spot.tree)
       \/ FlatFits(P, object, spot.tree)
       \/ LeafFits(object, spot.tree)

Sound(h, P, R, W) ==
  /\ DOMAIN h = DOMAIN P /\ IsFiniteSet(DOMAIN P) /\ DOMAIN P \subseteq Nat \ {Null}
  /\ P \in [DOMAIN P -> Spots]
  /\ \A x, y \in DOMAIN P : P[x] = P[y] => x = y
  /\ Root \in DOMAIN P /\ P[Root] = Of(<<>>)
  /\ \A x \in DOMAIN P : Fits(P, R, W, h[x], P[x])
  /\ \A x \in DOMAIN P \ {Root} : \E y \in DOMAIN P : x \in Owned(h[y])

-----------------------------------------------------------------------------
(* An insertion of a under way.                                            *)

(* The bin of the tree that the call of dimension j is on.                 *)
Here(st, a, j) == [i \in 1 .. j - 1 |-> Pre(a[i], st.calls[i].level + 1)]

EntryFits(h, P, x, b, q) ==
  /\ x.o \in DOMAIN P /\ P[x.o].tree = b
  /\ \/ P[x.o].node /\ P[x.o].path = q /\ x.e = Self
     \/ /\ ~P[x.o].node /\ h[x.o].kind = "flat"
        /\ \/ x.e = Self /\ q = <<>>
           \/ x.e # Self /\ x.e \in DOMAIN h[x.o].kids /\ q = <<x.e>>

ChildFits(h, P, x, b, q) ==
  \/ x = NoEntry
  \/ /\ x.o \in DOMAIN P /\ Within(P[x.o].tree, b)
     /\ EntryFits(h, P, x, P[x.o].tree, q)

(* c is strictly within b in its last dimension.                           *)
Finer(c, b) == Within(c, b) /\ b # <<>> /\ Len(c[Len(b)]) > Len(b[Len(b)])

(* The entry below is that of the path or, where the walk stopped, the     *)
(* shared node that the entry has in its place.                            *)
SharesKid(h, n, k, m) ==
  k \in DOMAIN h[n].kids /\ ~h[n].kids[k].proper /\ h[n].kids[k].c = m
OnPath(h, P, call, b, p, inner) ==
  call.level \in 0 .. Len(p) - 1 =>
    \/ EntryFits(h, P, call.child, b, Pre(p, call.level + 1))
    \/ /\ inner /\ Kind[Len(b) + 1] = "quad" /\ call.child.e = Self
       /\ SharesKid(h, call.stack[call.level].o, p[call.level + 1], call.child.o)

CallFits(h, P, call, b, p, inner) ==
  /\ DOMAIN call = {"s", "parallel", "walking", "level", "node", "prev", "parNode", "stack", "child"}
  /\ call.s \in DOMAIN P /\ P[call.s] = Of(b)
  /\ call.parallel # Null =>
       /\ call.parallel \in DOMAIN P /\ ~P[call.parallel].node
       /\ Finer(P[call.parallel].tree, b)
  /\ call.walking \in BOOLEAN /\ call.level \in -1 .. Len(p)
  /\ call.walking =>
       /\ inner /\ call.level \in 0 .. Len(p) - 1
       /\ Kind[Len(b) + 1] = "quad"
       /\ call.node \in DOMAIN P /\ P[call.node] = At(b, Pre(p, call.level))
       /\ call.prev = IF call.level = 0 THEN Null ELSE call.stack[call.level - 1].o
       /\ 0 .. call.level - 1 \subseteq DOMAIN call.stack
       /\ call.child = NoEntry
       /\ \A l \in 0 .. call.level - 1 : EntryFits(h, P, call.stack[l], b, Pre(p, l))
       /\ call.parallel = Null => call.parNode = Null
       /\ call.parNode # Null =>
            /\ call.parNode \in DOMAIN P
            /\ P[call.parNode].node /\ P[call.parNode].path = Pre(p, call.level)
            /\ Finer(P[call.parNode].tree, b)
  /\ ~call.walking =>
       /\ \A l \in 0 .. call.level : EntryFits(h, P, call.stack[l], b, Pre(p, l))
       /\ ChildFits(h, P, call.child, b, Pre(p, call.level + 1))
       /\ ~inner => call.level < Len(p)
       /\ Kind[Len(b) + 1] = "flat" => EntryFits(h, P, call.stack[1], b, p)
       /\ OnPath(h, P, call, b, p, inner)

(* The insertion will still come to the place of path q in the tree of b.  *)
Comes(st, b, q) ==
  LET upTo(i) == \A j \in 1 .. i - 1 : Len(b[j]) <= st.calls[j].level + 1
  IN  \/ \E i \in 1 .. st.d :
           i <= Len(b) /\ Len(b[i]) <= st.calls[i].level /\ upTo(i)
      \/ /\ st.d # 0 /\ st.calls[st.d].walking
         /\ Len(b) >= st.d - 1 /\ upTo(st.d)
         /\ Len(b) = st.d - 1 => Len(q) > st.calls[st.d].level

(* ... and goes through it.                                                *)
Covers(b, q, a) ==
  /\ Len(b) + 1 \in Dims
  /\ \A i \in 1 .. Len(b) : Starts(b[i], a[i])
  /\ Starts(q, a[Len(b) + 1])

Ahead(st, a) == { w \in Bin \X Path : Covers(w[1], w[2], a) /\ Comes(st, w[1], w[2]) }

Going(st, P, a) ==
  /\ DOMAIN st = {"heap", "calls", "d", "updated", "replaced", "fault"}
  /\ st.d \in {0} \cup Dims
  /\ 1 .. st.d \subseteq DOMAIN st.calls
  /\ Sound(st.heap, P, st.replaced, Ahead(st, a))
  /\ \A j \in 1 .. st.d :
       CallFits(st.heap, P, st.calls[j], Here(st, a, j), a[j], j = st.d)

-----------------------------------------------------------------------------
(* Paths and bins.                                                         *)

LEMMA PreIs ==
  ASSUME NEW S, NEW p \in Seq(S), NEW n \in 0 .. Len(p)
  PROVE  /\ Pre(p, n) \in Seq(S) /\ Len(Pre(p, n)) = n
         /\ \A i \in 1 .. n : Pre(p, n)[i] = p[i]
<1>1. \A i \in 1 .. n : p[i] \in S
  OBVIOUS
<1>2. Pre(p, n) \in [1 .. n -> S]
  BY <1>1 DEF Pre
<1>3. n \in Nat
  OBVIOUS
<1> QED BY <1>2, <1>3 DEF Pre

LEMMA PreGrows ==
  ASSUME NEW S, NEW p \in Seq(S), NEW n \in 0 .. Len(p) - 1
  PROVE  Append(Pre(p, n), p[n + 1]) = Pre(p, n + 1)
<1>1. Pre(p, n) \in Seq(S) /\ Len(Pre(p, n)) = n /\ \A i \in 1 .. n : Pre(p, n)[i] = p[i]
  BY PreIs
<1>2. /\ Pre(p, n + 1) \in Seq(S) /\ Len(Pre(p, n + 1)) = n + 1
      /\ \A i \in 1 .. n + 1 : Pre(p, n + 1)[i] = p[i]
  <2>1. n + 1 \in 0 .. Len(p)
    OBVIOUS
  <2> QED BY <2>1, PreIs
<1>3. p[n + 1] \in S
  OBVIOUS
<1> QED BY <1>1, <1>2, <1>3

LEMMA PreEnds ==
  ASSUME NEW S, NEW p \in Seq(S)
  PROVE  Pre(p, 0) = <<>> /\ Pre(p, Len(p)) = p
<1>1. Pre(p, 0) \in Seq(S) /\ Len(Pre(p, 0)) = 0
  BY PreIs
<1>2. Pre(p, Len(p)) \in Seq(S) /\ Len(Pre(p, Len(p))) = Len(p)
      /\ \A i \in 1 .. Len(p) : Pre(p, Len(p))[i] = p[i]
  BY PreIs
<1> QED BY <1>1, <1>2

LEMMA StartsIs ==
  ASSUME NEW S, NEW p \in Seq(S), NEW q \in Seq(S)
  PROVE  Starts(q, p) <=> Len(q) <= Len(p) /\ \A i \in 1 .. Len(q) : q[i] = p[i]
<1>1. ASSUME Len(q) <= Len(p)
      PROVE  q = Pre(p, Len(q)) <=> \A i \in 1 .. Len(q) : q[i] = p[i]
  <2>1. /\ Pre(p, Len(q)) \in Seq(S) /\ Len(Pre(p, Len(q))) = Len(q)
        /\ \A i \in 1 .. Len(q) : Pre(p, Len(q))[i] = p[i]
    BY <1>1, PreIs
  <2> QED BY SMTT(20), <2>1
<1> QED BY <1>1 DEF Starts

LEMMA PreStarts ==
  ASSUME NEW S, NEW p \in Seq(S), NEW n \in 0 .. Len(p)
  PROVE  Starts(Pre(p, n), p)
BY PreIs DEF Starts

LEMMA StartsTransitive ==
  ASSUME NEW S, NEW p \in Seq(S), NEW q \in Seq(S), NEW r \in Seq(S),
         Starts(r, q), Starts(q, p)
  PROVE  Starts(r, p)
<1>1. Len(r) <= Len(q) /\ \A i \in 1 .. Len(r) : r[i] = q[i]
  BY StartsIs
<1>2. Len(q) <= Len(p) /\ \A i \in 1 .. Len(q) : q[i] = p[i]
  BY StartsIs
<1>3. Len(r) <= Len(p) /\ \A i \in 1 .. Len(r) : r[i] = p[i]
  BY <1>1, <1>2
<1> QED BY <1>3, StartsIs

LEMMA StartsItself ==
  ASSUME NEW S, NEW p \in Seq(S)
  PROVE  Starts(p, p)
BY StartsIs

LEMMA StartsBoth ==
  ASSUME NEW S, NEW p \in Seq(S), NEW q \in Seq(S), Starts(p, q), Starts(q, p)
  PROVE  p = q
<1>1. Len(p) <= Len(q) /\ \A i \in 1 .. Len(p) : p[i] = q[i]
  BY StartsIs
<1>2. Len(q) <= Len(p)
  BY StartsIs
<1> QED BY <1>1, <1>2

(* Bins.                                                                   *)
LEMMA AppendIs ==
  ASSUME NEW S, NEW b \in Seq(S), NEW q \in S
  PROVE  /\ Append(b, q) \in Seq(S) /\ Append(b, q) # <<>>
         /\ Len(Append(b, q)) = Len(b) + 1 /\ Append(b, q)[Len(b) + 1] = q
         /\ \A i \in 1 .. Len(b) : Append(b, q)[i] = b[i]
OBVIOUS

LEMMA AppendSame ==
  ASSUME NEW S, NEW b \in Seq(S), NEW c \in Seq(S), NEW q \in S, NEW r \in S,
         Append(b, q) = Append(c, r)
  PROVE  b = c /\ q = r
<1>1. Len(b) + 1 = Len(c) + 1
  BY AppendIs
<1>2. q = r
  BY <1>1, AppendIs
<1>3. Len(b) = Len(c)
  BY <1>1
<1>4. \A i \in 1 .. Len(b) : b[i] = c[i]
  BY <1>3, AppendIs
<1> QED BY <1>2, <1>3, <1>4

LEMMA NotEmpty ==
  ASSUME NEW S, NEW s \in Seq(S), s # <<>>
  PROVE  \E t \in Seq(S), x \in S : s = Append(t, x) /\ Len(t) = Len(s) - 1
<1> DEFINE t == Pre(s, Len(s) - 1)
<1>1. Len(s) \in Nat \ {0}
  OBVIOUS
<1>2. Len(s) - 1 \in 0 .. Len(s) - 1 /\ Len(s) - 1 \in 0 .. Len(s) /\ s[Len(s)] \in S
  BY <1>1
<1>3. Append(t, s[Len(s) - 1 + 1]) = Pre(s, Len(s) - 1 + 1)
  BY <1>2, PreGrows
<1>4. t \in Seq(S) /\ Len(t) = Len(s) - 1
  BY <1>2, PreIs
<1>5. Pre(s, Len(s)) = s
  BY PreEnds
<1> HIDE DEF t
<1>6. Len(s) - 1 + 1 = Len(s)
  BY <1>1
<1> QED BY <1>2, <1>3, <1>4, <1>5, <1>6

LEMMA WithinItself ==
  ASSUME NEW b \in Bin
  PROVE  Within(b, b)
<1>1. \A i \in DOMAIN b : b[i] \in Path
  BY DEF Bin
<1> QED BY <1>1, StartsItself DEF Within, Path

LEMMA WithinTransitive ==
  ASSUME NEW b \in Bin, NEW c \in Bin, NEW e \in Bin, Within(e, c), Within(c, b)
  PROVE  Within(e, b)
<1>1. Len(e) = Len(c) /\ Len(c) = Len(b) /\ DOMAIN c = DOMAIN b /\ DOMAIN e = DOMAIN b
  BY DEF Within, Bin
<1>2. ASSUME NEW i \in DOMAIN b PROVE Starts(b[i], e[i])
  <2>1. b[i] \in Path /\ c[i] \in Path /\ e[i] \in Path
    BY <1>1 DEF Bin
  <2>2. Starts(b[i], c[i]) /\ Starts(c[i], e[i])
    BY <1>1 DEF Within
  <2> QED BY <2>1, <2>2, StartsTransitive DEF Path
<1> QED BY <1>1, <1>2 DEF Within

LEMMA WithinBoth ==
  ASSUME NEW b \in Bin, NEW c \in Bin, Within(b, c), Within(c, b)
  PROVE  b = c
<1>1. Len(b) = Len(c) /\ DOMAIN b = 1 .. Len(b) /\ DOMAIN c = 1 .. Len(c)
  BY DEF Within, Bin
<1>2. ASSUME NEW i \in 1 .. Len(b) PROVE b[i] = c[i]
  <2>1. b[i] \in Path /\ c[i] \in Path /\ Starts(b[i], c[i]) /\ Starts(c[i], b[i])
    BY <1>1 DEF Bin, Within
  <2> QED BY <2>1, StartsBoth DEF Path
<1> QED BY <1>1, <1>2 DEF Bin

LEMMA WithinAppend ==
  ASSUME NEW b \in Bin, NEW c \in Bin, NEW q \in Path, NEW r \in Path,
         Within(c, b), Starts(q, r)
  PROVE  Within(Append(c, r), Append(b, q))
<1>1. Len(b) = Len(c) /\ DOMAIN b = 1 .. Len(b) /\ Len(b) \in Nat
  BY DEF Within, Bin
<1>2. Len(Append(c, r)) = Len(Append(b, q)) /\ DOMAIN Append(b, q) = 1 .. Len(b) + 1
  BY <1>1, AppendIs DEF Bin
<1>3. ASSUME NEW i \in 1 .. Len(b) + 1
      PROVE  Starts(Append(b, q)[i], Append(c, r)[i])
  <2>1. CASE i = Len(b) + 1
    BY <2>1, <1>1, AppendIs DEF Bin
  <2>2. CASE i # Len(b) + 1
    <3>1. i \in 1 .. Len(b)
      BY <2>2, <1>1
    <3>2. Append(b, q)[i] = b[i] /\ Append(c, r)[i] = c[i]
      BY <3>1, <1>1, AppendIs DEF Bin
    <3> QED BY <3>1, <3>2, <1>1 DEF Within
  <2> QED BY <2>1, <2>2
<1> QED BY <1>2, <1>3 DEF Within

LEMMA FinerIs ==
  ASSUME NEW b \in Bin, NEW c \in Bin, Finer(c, b)
  PROVE  Within(c, b) /\ c # b /\ Len(b) \in Nat \ {0} /\ Len(c) = Len(b)
         /\ Len(c[Len(b)]) > Len(b[Len(b)])
<1>1. Len(b) \in Nat \ {0}
  BY DEF Finer, Bin
<1>2. b[Len(b)] \in Path
  BY <1>1 DEF Bin
<1>3. Len(b[Len(b)]) \in Nat
  BY <1>2 DEF Path
<1> QED BY <1>1, <1>3 DEF Finer, Within

LEMMA FinerWithin ==
  ASSUME NEW b \in Bin, NEW c \in Bin, NEW e \in Bin, Within(e, c), Finer(c, b)
  PROVE  Finer(e, b)
<1>1. Within(c, b) /\ Len(b) \in Nat \ {0} /\ Len(c) = Len(b)
      /\ Len(c[Len(b)]) > Len(b[Len(b)])
  BY FinerIs
<1>2. Within(e, b)
  BY <1>1, WithinTransitive
<1>3. Len(b) \in DOMAIN c /\ Len(b) \in DOMAIN b /\ Len(b) \in DOMAIN e
  BY <1>1 DEF Bin, Within
<1>4. Starts(c[Len(b)], e[Len(b)])
  BY <1>3 DEF Within
<1>5. c[Len(b)] \in Path /\ e[Len(b)] \in Path /\ b[Len(b)] \in Path
  BY <1>3 DEF Bin
<1>6. Len(c[Len(b)]) <= Len(e[Len(b)])
  BY <1>4 DEF Starts
<1>7. Len(e[Len(b)]) > Len(b[Len(b)])
  BY <1>1, <1>6, <1>5 DEF Path
<1>8. b # <<>>
  BY <1>1
<1> QED BY <1>2, <1>7, <1>8 DEF Finer

-----------------------------------------------------------------------------
(* Induction on the natural numbers, over a set of them.                   *)
LEMMA SetInduction ==
  ASSUME NEW S, 0 \in S, \A n \in Nat : n \in S => n + 1 \in S
  PROVE  Nat \subseteq S
<1> SUFFICES ASSUME Nat \ S # {} PROVE FALSE
  OBVIOUS
<1> DEFINE R == OpToRel(<, Nat)
<1>1. PICK x \in Nat \ S : \A y \in Nat \ S : ~ (<<y, x>> \in R)
  <2>1. IsWellFoundedOn(R, Nat)
    BY NatLessThanWellFounded
  <2> HIDE DEF R
  <2> QED BY <2>1, WFMin
<1>2. \A y \in Nat \ S : ~ (y < x)
  BY <1>1 DEF OpToRel
<1>3. x # 0 /\ x - 1 \in Nat /\ x - 1 \in S
  BY <1>2
<1>4. x - 1 + 1 = x
  OBVIOUS
<1> QED
  BY <1>3, <1>4


-----------------------------------------------------------------------------
(* Addresses.                                                              *)

LEMMA NoNameIsSelf ==
  ASSUME DimsAssumption
  PROVE  Self \notin Names
<1> SUFFICES ASSUME NEW d \in Dims, NEW p \in Paths[d], NEW i \in DOMAIN p, p[i] = Self
             PROVE  FALSE
  BY DEF Names
<1>1. p \in Seq({ p[j] : j \in DOMAIN p } \ {Self})
  BY DEF DimsAssumption
<1> QED BY <1>1

LEMMA AddressIs ==
  ASSUME DimsAssumption, NEW a \in Addresses, NEW d \in Dims
  PROVE  /\ a[d] \in Path /\ Len(a[d]) = Depth(d) /\ Len(a[d]) \in Nat \ {0}
         /\ Kind[d] = "flat" => Len(a[d]) = 1
         /\ a[d][1] # Self
<1>1. a[d] \in Paths[d]
  BY DEF Addresses
<1>2. a[d] \in Seq({ a[d][j] : j \in DOMAIN a[d] } \ {Self})
  BY <1>1 DEF DimsAssumption
<1>3. a[d] \in Path
  <2>1. \A j \in DOMAIN a[d] : a[d][j] \in Names
    BY <1>1 DEF Names
  <2> QED BY <1>2, <2>1 DEF Path
<1>4. Len(a[d]) \in Nat /\ Len(a[d]) > 0
  BY <1>1, <1>3 DEF DimsAssumption, Path
<1>5. \A p \in Paths[d] : Len(p) = Len(a[d])
  BY <1>1 DEF DimsAssumption
<1>6. Depth(d) = Len(a[d])
  BY <1>1, <1>4, <1>5 DEF Depth
<1>7. Kind[d] = "flat" => Len(a[d]) = 1
  BY <1>1 DEF DimsAssumption
<1>8. a[d][1] # Self
  BY <1>2, <1>4
<1> QED BY <1>3, <1>4, <1>6, <1>7, <1>8

LEMMA DimsAre ==
  ASSUME DimsAssumption
  PROVE  /\ Len(Kind) \in Nat \ {0} /\ Dims = 1 .. Len(Kind)
         /\ \A d \in Dims : Kind[d] \in {"quad", "flat"}
BY DEF DimsAssumption, Dims

-----------------------------------------------------------------------------
(* The heap.                                                               *)

(* There is a number from 1 that is not used.                              *)
LEMMA FreshIs ==
  ASSUME NEW h, IsFiniteSet(DOMAIN h), DOMAIN h \subseteq Nat \ {0}
  PROVE  Fresh(h) \notin DOMAIN h /\ Fresh(h) \in Nat \ {0}
<1> DEFINE n == Cardinality(DOMAIN h)
           I == 1 .. n + 1
<1>1. n \in Nat
  BY FS_CardinalityType
<1>2. \E i \in I : i \notin DOMAIN h
  <2> SUFFICES ASSUME I \subseteq DOMAIN h PROVE FALSE
    OBVIOUS
  <2>1. Cardinality(I) <= n
    BY FS_Subset
  <2>2. Cardinality(I) = n + 1
    <3> HIDE DEF n
    <3>1. n + 1 \in Int /\ 1 \in Int /\ ~ (1 > n + 1) /\ n + 1 - 1 + 1 = n + 1
      BY <1>1
    <3>2. Cardinality(1 .. n + 1) = n + 1 - 1 + 1
      BY <3>1, FS_Interval
    <3> QED BY <3>1, <3>2
  <2> QED BY <2>1, <2>2, <1>1
<1>3. \E i \in I : i \notin DOMAIN h /\ \A j \in 1 .. i - 1 : j \in DOMAIN h
  <2> DEFINE S == { k \in Nat : \A j \in 1 .. k : j \in I => j \in DOMAIN h }
  <2> SUFFICES ASSUME \A i \in I : i \in DOMAIN h \/ \E j \in 1 .. i - 1 : j \notin DOMAIN h
               PROVE  FALSE
    OBVIOUS
  <2>1. 0 \in S
    OBVIOUS
  <2>2. ASSUME NEW k \in Nat, k \in S PROVE k + 1 \in S
    <3> SUFFICES ASSUME NEW j \in 1 .. k + 1, j \in I PROVE j \in DOMAIN h
      OBVIOUS
    <3>1. CASE j \in 1 .. k
      BY <3>1, <2>2
    <3>2. CASE j = k + 1
      <4>1. \A l \in 1 .. j - 1 : l \in 1 .. k /\ l \in I
        BY <3>2, <1>1
      <4> QED BY <4>1, <2>2
    <3> QED BY <3>1, <3>2
  <2> HIDE DEF S
  <2>3. n + 1 \in S
    BY <2>1, <2>2, <1>1, SetInduction
  <2>4. \A i \in I : i \in DOMAIN h
    BY <2>3 DEF S
  <2> QED BY <2>4, <1>2
<1>4. PICK i \in I : i \notin DOMAIN h /\ \A j \in 1 .. i - 1 : j \in DOMAIN h
  BY <1>3
<1>5. Fresh(h) \in I /\ Fresh(h) \notin DOMAIN h
  BY <1>4 DEF Fresh
<1> QED BY <1>5, <1>1

LEMMA AllocateIs ==
  ASSUME NEW h, IsFiniteSet(DOMAIN h), DOMAIN h \subseteq Nat \ {0}, NEW object
  PROVE  /\ DOMAIN Allocate(h, object) = DOMAIN h \cup {Fresh(h)}
         /\ Allocate(h, object)[Fresh(h)] = object
         /\ \A x \in DOMAIN h : Allocate(h, object)[x] = h[x]
         /\ IsFiniteSet(DOMAIN Allocate(h, object))
         /\ DOMAIN Allocate(h, object) \subseteq Nat \ {0}
<1>1. Fresh(h) \notin DOMAIN h /\ Fresh(h) \in Nat \ {0}
  BY FreshIs
<1>2. IsFiniteSet(DOMAIN h \cup {Fresh(h)})
  BY FS_AddElement
<1> DEFINE g == Put(h, Fresh(h), object)
<1>3. /\ DOMAIN g = DOMAIN h \cup {Fresh(h)}
      /\ g[Fresh(h)] = object
      /\ \A x \in DOMAIN h : x # Fresh(h) => g[x] = h[x]
  BY DEF Put
<1>4. g = Allocate(h, object)
  BY DEF Allocate
<1> HIDE DEF g
<1> QED BY <1>1, <1>2, <1>3, <1>4

-----------------------------------------------------------------------------
(* Owners.                                                                 *)

LEMMA SpotIs ==
  ASSUME NEW h, NEW P, NEW R, NEW W, Sound(h, P, R, W), NEW x \in DOMAIN P
  PROVE  /\ P[x].tree \in Bin /\ P[x].path \in Path /\ P[x].node \in BOOLEAN
         /\ P[x].node => P[x] = At(P[x].tree, P[x].path)
         /\ ~P[x].node => P[x] = Of(P[x].tree)
<1>1. P[x] \in Spots
  BY DEF Sound
<1>2. <<>> \in Path
  BY DEF Path
<1>3. CASE P[x] \in { At(b, q) : b \in Bin, q \in Path }
  <2>1. PICK b \in Bin, q \in Path : P[x] = At(b, q)
    BY <1>3
  <2> QED BY <2>1 DEF At
<1>4. CASE P[x] \in { Of(b) : b \in Bin }
  <2>1. PICK b \in Bin : P[x] = Of(b)
    BY <1>4
  <2> QED BY <2>1, <1>2 DEF Of
<1> QED BY <1>1, <1>3, <1>4 DEF Spots

LEMMA SpotOfNode ==
  ASSUME NEW h, NEW P, NEW R, NEW W, Sound(h, P, R, W), NEW x \in DOMAIN P
  PROVE  /\ P[x].node => NodeFits(P, R, W, h[x], P[x].tree, P[x].path)
         /\ ~P[x].node => QuadFits(P, h[x], P[x].tree) \/ FlatFits(P, h[x], P[x].tree)
                          \/ LeafFits(h[x], P[x].tree)
BY DEF Sound, Fits

LEMMA OwnedByBranches ==
  ASSUME NEW object, Branches(object), object.kind \in {"node", "flat"}, NEW x
  PROVE  x \in Owned(object) <=>
           /\ x # Null
           /\ \/ object.self.c = x /\ object.self.proper
              \/ \E k \in DOMAIN object.kids : object.kids[k].c = x /\ object.kids[k].proper
BY DEF Owned

LEMMA OwnedByTree ==
  ASSUME NEW object, object.kind = "quad"
  PROVE  Owned(object) = {object.root} \ {Null}
BY DEF Owned

LEMMA OwnedByLeaf ==
  ASSUME NEW object, object.kind = "leaf"
  PROVE  Owned(object) = {}
BY DEF Owned

(* A node is owned by its tree or by the node above it.                    *)
LEMMA OwnerOfNode ==
  ASSUME NEW h, NEW P, NEW R, NEW W, Sound(h, P, R, W),
         NEW n \in DOMAIN P, P[n].node, NEW y \in DOMAIN P, n \in Owned(h[y])
  PROVE  \/ /\ P[n].path = <<>> /\ P[y] = Of(P[n].tree)
            /\ h[y].kind = "quad" /\ h[y].root = n
         \/ \E k \in Names :
              /\ P[y].node /\ P[y].tree = P[n].tree /\ P[n].path = Append(P[y].path, k)
              /\ k \in DOMAIN h[y].kids /\ h[y].kids[k].c = n /\ h[y].kids[k].proper
<1>1. n # Null
  BY DEF Sound
<1>2. n \in Owned(h[y])
  OBVIOUS
<1>3. P[y].tree \in Bin /\ (~P[y].node => P[y] = Of(P[y].tree))
  BY SpotIs
<1>4. ASSUME NEW r, NEW b, HolderFits(P, r, b), r.proper PROVE r.c # n
  BY <1>4 DEF HolderFits, NoContent, Holder
<1>5. CASE P[y].node
  <2>1. NodeFits(P, R, W, h[y], P[y].tree, P[y].path)
    BY <1>5, SpotOfNode
  <2>2. PICK k \in DOMAIN h[y].kids : h[y].kids[k].c = n /\ h[y].kids[k].proper
    BY <2>1, <1>2, <1>4, OwnedByBranches DEF NodeFits
  <2>3. KidFits(P, R, W, h[y].kids[k], P[y].tree, Append(P[y].path, k)) /\ k \in Names
    BY <2>1 DEF NodeFits, Branches
  <2>4. P[n].tree = P[y].tree /\ P[n].path = Append(P[y].path, k)
    BY <2>2, <2>3 DEF KidFits, NodeRef
  <2> QED BY <1>5, <2>2, <2>3, <2>4
<1>6. CASE FlatFits(P, h[y], P[y].tree)
  <2>1. Branches(h[y]) /\ h[y].kind = "flat"
    BY <1>6 DEF FlatFits
  <2>2. HolderFits(P, h[y].self, Append(P[y].tree, <<>>))
        /\ \A k \in DOMAIN h[y].kids : HolderFits(P, h[y].kids[k], Append(P[y].tree, <<k>>))
    BY <1>6 DEF FlatFits
  <2>3. ~ (h[y].self.c = n /\ h[y].self.proper)
    BY <2>2, <1>4
  <2>4. ASSUME NEW k \in DOMAIN h[y].kids PROVE ~ (h[y].kids[k].c = n /\ h[y].kids[k].proper)
    BY <2>2, <1>4
  <2>5. n \notin Owned(h[y])
    BY <2>1, <2>3, <2>4, OwnedByBranches
  <2> QED BY <2>5, <1>2
<1>7. CASE LeafFits(h[y], P[y].tree)
  BY <1>7, <1>2, OwnedByLeaf DEF LeafFits
<1>8. CASE ~P[y].node /\ QuadFits(P, h[y], P[y].tree)
  <2>1. h[y].root = n /\ h[y].kind = "quad"
    BY <1>8, <1>2, OwnedByTree DEF QuadFits
  <2>2. NodeRef(P, Pointer(n, TRUE), P[y].tree, <<>>)
    BY <1>8, <2>1, <1>1 DEF QuadFits
  <2>3. P[n].path = <<>> /\ P[n].tree = P[y].tree
    BY <2>2 DEF NodeRef, Pointer
  <2> QED BY <2>1, <2>3, <1>3, <1>8
<1> QED BY <1>5, <1>6, <1>7, <1>8, SpotOfNode

(* A content is owned by the entry of the tree above whose place it is in. *)
LEMMA OwnerOfContent ==
  ASSUME NEW h, NEW P, NEW R, NEW W, Sound(h, P, R, W), Self \notin Names,
         NEW c \in DOMAIN P, ~P[c].node, NEW y \in DOMAIN P, c \in Owned(h[y])
  PROVE  \E e \in Names \cup {Self}, q \in Path :
           /\ EntryFits(h, P, Entry(y, e), P[y].tree, q)
           /\ P[c].tree = Append(P[y].tree, q)
           /\ HolderOf(h, Entry(y, e)).c = c /\ HolderOf(h, Entry(y, e)).proper
<1>1. c # Null
  BY DEF Sound
<1>2. c \in Owned(h[y])
  OBVIOUS
<1>3. P[y].tree \in Bin /\ P[y].path \in Path
  BY SpotIs
<1>4. ASSUME NEW r, NEW b, HolderFits(P, r, b), r.proper, r.c = c PROVE P[c].tree = b
  BY <1>4, <1>1 DEF HolderFits, NoContent, Holder
<1>5. CASE P[y].node
  <2>1. NodeFits(P, R, W, h[y], P[y].tree, P[y].path)
    BY <1>5, SpotOfNode
  <2>2. ASSUME NEW k \in DOMAIN h[y].kids, h[y].kids[k].c = c, h[y].kids[k].proper
        PROVE  FALSE
    <3>1. KidFits(P, R, W, h[y].kids[k], P[y].tree, Append(P[y].path, k))
      BY <2>1 DEF NodeFits
    <3> QED BY <3>1, <2>2 DEF KidFits, NodeRef
  <2>3. h[y].self.c = c /\ h[y].self.proper
    BY <2>1, <2>2, <1>2, OwnedByBranches DEF NodeFits
  <2>4. P[c].tree = Append(P[y].tree, P[y].path)
    BY <2>1, <2>3, <1>4 DEF NodeFits
  <2>5. EntryFits(h, P, Entry(y, Self), P[y].tree, P[y].path)
    BY <1>5 DEF EntryFits, Entry
  <2>6. HolderOf(h, Entry(y, Self)) = h[y].self
    BY DEF HolderOf, Entry
  <2> QED BY <2>3, <2>4, <2>5, <2>6, <1>3
<1>6. CASE ~P[y].node /\ FlatFits(P, h[y], P[y].tree)
  <2>1. Branches(h[y]) /\ h[y].kind = "flat"
    BY <1>6 DEF FlatFits
  <2>2. HolderFits(P, h[y].self, Append(P[y].tree, <<>>))
        /\ \A k \in DOMAIN h[y].kids : HolderFits(P, h[y].kids[k], Append(P[y].tree, <<k>>))
    BY <1>6 DEF FlatFits
  <2>3. CASE h[y].self.c = c /\ h[y].self.proper
    <3>1. EntryFits(h, P, Entry(y, Self), P[y].tree, <<>>)
      BY <1>6, <2>1 DEF EntryFits, Entry
    <3>2. HolderOf(h, Entry(y, Self)) = h[y].self
      BY DEF HolderOf, Entry
    <3>3. P[c].tree = Append(P[y].tree, <<>>)
      BY <2>3, <2>2, <1>4
    <3>4. <<>> \in Path
      BY DEF Path
    <3> QED BY <3>1, <3>2, <3>3, <3>4, <2>3
  <2>4. CASE \E k \in DOMAIN h[y].kids : h[y].kids[k].c = c /\ h[y].kids[k].proper
    <3>1. PICK k \in DOMAIN h[y].kids : h[y].kids[k].c = c /\ h[y].kids[k].proper
      BY <2>4
    <3>2. k \in Names /\ k # Self
      BY <2>1 DEF Branches
    <3>3. EntryFits(h, P, Entry(y, k), P[y].tree, <<k>>)
      BY <1>6, <2>1, <3>2 DEF EntryFits, Entry
    <3>4. HolderOf(h, Entry(y, k)) = h[y].kids[k]
      BY <3>2 DEF HolderOf, Entry
    <3>5. HolderFits(P, h[y].kids[k], Append(P[y].tree, <<k>>))
      BY <2>2
    <3>6. P[c].tree = Append(P[y].tree, <<k>>)
      BY <3>1, <3>5, <1>4
    <3>7. <<k>> \in Path
      BY <3>2 DEF Path
    <3> QED BY <3>1, <3>2, <3>3, <3>4, <3>6, <3>7
  <2> QED BY <2>1, <2>3, <2>4, <1>2, OwnedByBranches
<1>7. CASE LeafFits(h[y], P[y].tree)
  BY <1>7, <1>2, OwnedByLeaf DEF LeafFits
<1>8. CASE ~P[y].node /\ QuadFits(P, h[y], P[y].tree)
  <2>1. h[y].root = c
    BY <1>8, <1>2, OwnedByTree DEF QuadFits
  <2>2. NodeRef(P, Pointer(c, TRUE), P[y].tree, <<>>)
    BY <1>8, <2>1, <1>1 DEF QuadFits
  <2> QED BY <2>2 DEF NodeRef, Pointer
<1> QED BY <1>5, <1>6, <1>7, <1>8, SpotOfNode

LEMMA Least ==
  ASSUME NEW S \in SUBSET Nat, S # {}
  PROVE  \E m \in S : \A n \in S : m <= n
<1> DEFINE L == OpToRel(<, Nat)
<1>1. PICK x \in S : \A y \in S : ~ (<<y, x>> \in L)
  <2>1. IsWellFoundedOn(L, Nat)
    BY NatLessThanWellFounded
  <2> HIDE DEF L
  <2> QED BY <2>1, WFMin
<1>2. \A y \in S : ~ (y < x)
  BY <1>1 DEF OpToRel
<1> QED BY <1>2

(* Owners lead up to the root: no set of other objects owns itself.        *)
LEMMA NoOrphans ==
  ASSUME NEW h, NEW P, NEW R, NEW W, Sound(h, P, R, W), Self \notin Names,
         NEW Z \in SUBSET DOMAIN P, \A x \in Z : \E y \in Z : x \in Owned(h[y])
  PROVE  Z = {}
<1> SUFFICES ASSUME Z # {} PROVE FALSE
  OBVIOUS
<1> DEFINE lens == { Len(P[x].tree) : x \in Z }
<1>1. \A x \in Z : Len(P[x].tree) \in Nat /\ P[x].tree \in Bin
                   /\ Len(P[x].path) \in Nat /\ P[x].path \in Path
  <2> TAKE x \in Z
  <2>1. P[x].tree \in Bin /\ P[x].path \in Path
    BY SpotIs
  <2> QED BY <2>1 DEF Bin, Path
<1>2. PICK m \in lens : \A l \in lens : m <= l
  <2>1. lens \in SUBSET Nat /\ lens # {}
    BY <1>1
  <2> HIDE DEF lens
  <2> QED BY <2>1, Least
<1> DEFINE top == { x \in Z : Len(P[x].tree) = m }
           depths == { Len(P[x].path) : x \in top }
<1>3. \A x \in Z : Len(P[x].tree) >= m
  BY <1>1, <1>2
<1>4. ASSUME NEW x \in top PROVE P[x].node
  <2> SUFFICES ASSUME ~P[x].node PROVE FALSE
    OBVIOUS
  <2>1. PICK y \in Z : x \in Owned(h[y])
    OBVIOUS
  <2>2. PICK q \in Path : P[x].tree = Append(P[y].tree, q)
    BY <2>1, OwnerOfContent
  <2>3. Len(P[x].tree) = Len(P[y].tree) + 1
    BY <2>2, <1>1, AppendIs DEF Bin
  <2> QED BY <2>3, <1>1, <1>3
<1>5. PICK x \in top : \A y \in top : Len(P[x].path) <= Len(P[y].path)
  <2>1. depths \in SUBSET Nat /\ depths # {}
    BY <1>1, <1>2
  <2>2. PICK n \in depths : \A l \in depths : n <= l
    <3> HIDE DEF depths
    <3> QED BY <2>1, Least
  <2> QED BY <2>2
<1>6. PICK y \in Z : x \in Owned(h[y])
  OBVIOUS
<1>7. P[x].node
  BY <1>4
<1>8. CASE P[y] = Of(P[x].tree)
  BY <1>8, <1>4 DEF Of
<1>9. CASE \E k \in Names : P[y].node /\ P[y].tree = P[x].tree
                            /\ P[x].path = Append(P[y].path, k)
  <2>1. y \in top /\ Len(P[x].path) = Len(P[y].path) + 1
    BY <1>9, <1>1 DEF Path
  <2> QED BY <2>1, <1>5, <1>1
<1> QED BY <1>6, <1>7, <1>8, <1>9, OwnerOfNode

(* What is in a place.                                                     *)
LEMMA KindOfContent ==
  ASSUME NEW h, NEW P, NEW R, NEW W, Sound(h, P, R, W), NEW x \in DOMAIN P, ~P[x].node
  PROVE  /\ h[x].kind = "quad" => QuadFits(P, h[x], P[x].tree)
         /\ h[x].kind = "flat" => FlatFits(P, h[x], P[x].tree)
         /\ h[x].kind = "leaf" => LeafFits(h[x], P[x].tree)
         /\ h[x].kind \in {"quad", "flat", "leaf"}
<1>1. QuadFits(P, h[x], P[x].tree) \/ FlatFits(P, h[x], P[x].tree)
      \/ LeafFits(h[x], P[x].tree)
  BY SpotOfNode
<1>2. /\ QuadFits(P, h[x], P[x].tree) => h[x].kind = "quad"
      /\ FlatFits(P, h[x], P[x].tree) => h[x].kind = "flat"
      /\ LeafFits(h[x], P[x].tree) => h[x].kind = "leaf"
  BY DEF QuadFits, FlatFits, LeafFits
<1> QED BY <1>1, <1>2

LEMMA EntryKind ==
  ASSUME NEW h, NEW P, NEW R, NEW W, Sound(h, P, R, W),
         NEW x, NEW b, NEW q, EntryFits(h, P, x, b, q)
  PROVE  /\ x.o \in DOMAIN P /\ P[x.o].tree = b
         /\ Branches(h[x.o]) /\ Len(b) + 1 \in Dims
         /\ IF P[x.o].node
            THEN /\ NodeFits(P, R, W, h[x.o], b, q) /\ Kind[Len(b) + 1] = "quad"
                 /\ P[x.o] = At(b, q) /\ x.e = Self
            ELSE /\ FlatFits(P, h[x.o], b) /\ Kind[Len(b) + 1] = "flat"
                 /\ P[x.o] = Of(b)
                 /\ \/ x.e = Self /\ q = <<>>
                    \/ x.e # Self /\ x.e \in DOMAIN h[x.o].kids /\ q = <<x.e>>
<1>1. x.o \in DOMAIN P /\ P[x.o].tree = b
  BY DEF EntryFits
<1>2. CASE P[x.o].node
  <2>1. P[x.o].path = q /\ x.e = Self
    BY <1>2 DEF EntryFits
  <2>2. NodeFits(P, R, W, h[x.o], b, q) /\ P[x.o] = At(b, q)
    BY <1>1, <1>2, <2>1, SpotIs, SpotOfNode
  <2> QED BY <1>1, <1>2, <2>1, <2>2 DEF NodeFits
<1>3. CASE ~P[x.o].node
  <2>1. h[x.o].kind = "flat"
    BY <1>3 DEF EntryFits
  <2>2. FlatFits(P, h[x.o], b) /\ P[x.o] = Of(b)
    BY <1>1, <1>3, <2>1, SpotIs, KindOfContent
  <2>3. \/ x.e = Self /\ q = <<>>
        \/ x.e # Self /\ x.e \in DOMAIN h[x.o].kids /\ q = <<x.e>>
    BY <1>3 DEF EntryFits
  <2> QED BY <1>1, <1>3, <2>2, <2>3 DEF FlatFits
<1> QED BY <1>2, <1>3

LEMMA EntrySame ==
  ASSUME NEW h, NEW P, NEW R, NEW W, Sound(h, P, R, W), NEW b, NEW q,
         NEW x, EntryFits(h, P, x, b, q), NEW y, EntryFits(h, P, y, b, q)
  PROVE  x.o = y.o /\ x.e = y.e
<1>1. /\ x.o \in DOMAIN P /\ P[x.o].tree = b
      /\ IF P[x.o].node
         THEN Kind[Len(b) + 1] = "quad" /\ P[x.o] = At(b, q) /\ x.e = Self
         ELSE /\ Kind[Len(b) + 1] = "flat" /\ P[x.o] = Of(b)
              /\ \/ x.e = Self /\ q = <<>>
                 \/ x.e # Self /\ q = <<x.e>>
  BY EntryKind
<1>2. /\ y.o \in DOMAIN P /\ P[y.o].tree = b
      /\ IF P[y.o].node
         THEN Kind[Len(b) + 1] = "quad" /\ P[y.o] = At(b, q) /\ y.e = Self
         ELSE /\ Kind[Len(b) + 1] = "flat" /\ P[y.o] = Of(b)
              /\ \/ y.e = Self /\ q = <<>>
                 \/ y.e # Self /\ q = <<y.e>>
  BY EntryKind
<1>3. P[x.o] = P[y.o] => x.o = y.o
  BY <1>1, <1>2 DEF Sound
<1>4. x.e = y.e
  BY <1>1, <1>2
<1> QED BY <1>1, <1>2, <1>3, <1>4

(* Where the holder of an entry is not proper there is no content.         *)
LEMMA Vacant ==
  ASSUME NEW h, NEW P, NEW R, NEW W, Sound(h, P, R, W), Self \notin Names,
         NEW b \in Bin, NEW q \in Path,
         NEW x, EntryFits(h, P, x, b, q), ~HolderOf(h, x).proper,
         NEW c \in DOMAIN P
  PROVE  P[c] # Of(Append(b, q))
<1> SUFFICES ASSUME P[c] = Of(Append(b, q)) PROVE FALSE
  OBVIOUS
<1>1. ~P[c].node /\ P[c].tree = Append(b, q)
  BY DEF Of
<1>2. c # Root
  <2>1. P[Root].tree = <<>>
    BY DEF Sound, Of
  <2> QED BY <2>1, <1>1, AppendIs DEF Bin
<1>3. PICK y \in DOMAIN P : c \in Owned(h[y])
  BY <1>2 DEF Sound
<1>4. PICK e \in Names \cup {Self}, r \in Path :
           /\ EntryFits(h, P, Entry(y, e), P[y].tree, r)
           /\ P[c].tree = Append(P[y].tree, r)
           /\ HolderOf(h, Entry(y, e)).proper
  BY <1>1, <1>3, OwnerOfContent
<1>5. P[y].tree \in Bin
  BY SpotIs
<1>6. P[y].tree = b /\ r = q
  <2>1. Append(P[y].tree, r) = Append(b, q)
    BY <1>1, <1>4
  <2> QED BY <2>1, <1>5, AppendSame DEF Bin
<1>7. Entry(y, e).o = x.o /\ Entry(y, e).e = x.e
  BY <1>4, <1>6, EntrySame
<1>8. HolderOf(h, Entry(y, e)) = HolderOf(h, x)
  BY <1>7 DEF HolderOf
<1> QED BY <1>4, <1>8

(* Where a node has no kid of its own there is no node.                    *)
LEMMA NoNodeBelow ==
  ASSUME NEW h, NEW P, NEW R, NEW W, Sound(h, P, R, W),
         NEW n \in DOMAIN P, P[n].node, NEW k \in Names,
         k \in DOMAIN h[n].kids => ~h[n].kids[k].proper,
         NEW m \in DOMAIN P
  PROVE  P[m] # At(P[n].tree, Append(P[n].path, k))
<1> SUFFICES ASSUME P[m] = At(P[n].tree, Append(P[n].path, k)) PROVE FALSE
  OBVIOUS
<1>1. P[m].node /\ P[m].tree = P[n].tree /\ P[m].path = Append(P[n].path, k)
  BY DEF At
<1>2. m # Root
  BY <1>1 DEF Sound, Of
<1>3. PICK y \in DOMAIN P : m \in Owned(h[y])
  BY <1>2 DEF Sound
<1>4. P[n].path \in Path /\ P[y].path \in Path
  BY SpotIs
<1>5. P[m].path # <<>>
  BY <1>1, <1>4, AppendIs DEF Path
<1>6. PICK j \in Names : /\ P[y].node /\ P[y].tree = P[n].tree
                         /\ P[m].path = Append(P[y].path, j)
                         /\ j \in DOMAIN h[y].kids /\ h[y].kids[j].proper
  BY <1>1, <1>3, <1>5, OwnerOfNode
<1>7. P[y].path = P[n].path /\ j = k
  <2>1. Append(P[y].path, j) = Append(P[n].path, k)
    BY <1>1, <1>6
  <2> QED BY SMTT(20), <2>1, <1>4, AppendSame DEF Path
<1>8. P[y] = P[n]
  BY <1>6, <1>7, SpotIs
<1>9. y = n
  BY <1>8 DEF Sound
<1> QED BY <1>6, <1>7, <1>9

LEMMA NoRootNode ==
  ASSUME NEW h, NEW P, NEW R, NEW W, Sound(h, P, R, W),
         NEW t \in DOMAIN P, ~P[t].node, h[t].kind = "quad", h[t].root = Null,
         NEW m \in DOMAIN P
  PROVE  P[m] # At(P[t].tree, <<>>)
<1> SUFFICES ASSUME P[m] = At(P[t].tree, <<>>) PROVE FALSE
  OBVIOUS
<1>1. P[m].node /\ P[m].tree = P[t].tree /\ P[m].path = <<>>
  BY DEF At
<1>2. m # Root /\ m # Null
  BY <1>1 DEF Sound, Of
<1>3. PICK y \in DOMAIN P : m \in Owned(h[y])
  BY <1>2 DEF Sound
<1>4. P[y].path \in Path
  BY SpotIs
<1>5. P[y] = Of(P[t].tree) /\ h[y].root = m
  <2>1. \A k \in Names : P[m].path # Append(P[y].path, k)
    BY <1>1, <1>4, AppendIs DEF Path
  <2> QED BY <1>1, <1>3, <2>1, OwnerOfNode
<1>6. P[y] = P[t]
  BY <1>5, SpotIs
<1>7. y = t
  BY <1>6 DEF Sound
<1> QED BY <1>5, <1>7, <1>2

(* The spot is in the tree of b at q or below, or deeper within that part. *)
UnderPlace(spot, b, q) ==
  \/ spot.node /\ spot.tree = b /\ Starts(q, spot.path)
  \/ /\ Len(spot.tree) > Len(b) /\ \A i \in 1 .. Len(b) : spot.tree[i] = b[i]
     /\ Starts(q, spot.tree[Len(b) + 1])

(* The spot is in the content of place q of the tree of b.                 *)
UnderContent(spot, b, q) ==
  /\ Len(spot.tree) > Len(b) /\ \A i \in 1 .. Len(b) : spot.tree[i] = b[i]
  /\ spot.tree[Len(b) + 1] = q

LEMMA StartsAppend ==
  ASSUME NEW q \in Path, NEW p \in Path, NEW k \in Names, Starts(q, Append(p, k))
  PROVE  q = Append(p, k) \/ Starts(q, p)
<1>1. Append(p, k) \in Path /\ Len(Append(p, k)) = Len(p) + 1
      /\ \A i \in 1 .. Len(p) : Append(p, k)[i] = p[i]
  BY AppendIs DEF Path
<1>2. Len(q) <= Len(p) + 1 /\ \A i \in 1 .. Len(q) : q[i] = Append(p, k)[i]
  BY <1>1, StartsIs DEF Path
<1>3. CASE Len(q) = Len(p) + 1
  BY <1>1, <1>2, <1>3 DEF Path
<1>4. CASE Len(q) # Len(p) + 1
  <2>1. Len(q) <= Len(p)
    BY <1>2, <1>4 DEF Path
  <2>2. \A i \in 1 .. Len(q) : q[i] = p[i]
    BY <2>1, <1>1, <1>2 DEF Path
  <2> QED BY <2>1, <2>2, StartsIs DEF Path
<1> QED BY <1>3, <1>4

LEMMA StartsEmpty ==
  ASSUME NEW q \in Path, Starts(q, <<>>)
  PROVE  q = <<>>
BY DEF Starts, Path

(* An owner of what is there is there too, unless the place is empty.      *)
LEMMA NothingUnder ==
  ASSUME NEW h, NEW P, NEW R, NEW W, Sound(h, P, R, W), Self \notin Names,
         NEW b \in Bin, NEW q \in Path, Kind[Len(b) + 1] = "quad",
         \A m \in DOMAIN P : P[m] # At(b, q),
         NEW x \in DOMAIN P
  PROVE  ~UnderPlace(P[x], b, q)
<1> DEFINE Z == { y \in DOMAIN P : UnderPlace(P[y], b, q) }
<1>1. Len(b) \in Nat
  BY DEF Bin
<1>2. ASSUME NEW y \in Z PROVE \E z \in Z : y \in Owned(h[z])
  <2>1. y # Root
    BY <1>1 DEF Sound, Of, UnderPlace
  <2>2. PICK z \in DOMAIN P : y \in Owned(h[z])
    BY <2>1 DEF Sound
  <2>3. /\ P[z].tree \in Bin /\ P[y].tree \in Bin /\ P[z].path \in Path /\ P[y].path \in Path
        /\ (P[y].node => P[y] = At(P[y].tree, P[y].path))
    BY SpotIs
  <2>4. UnderPlace(P[y], b, q)
    OBVIOUS
  <2>5. CASE P[y].node /\ P[y].path = <<>> /\ P[z] = Of(P[y].tree)
    <3>1. ~ (P[y].tree = b /\ Starts(q, <<>>))
      BY <2>5, <2>3, StartsEmpty
    <3>2. P[z].tree = P[y].tree
      BY <2>5 DEF Of
    <3>3. UnderPlace(P[z], b, q)
      BY <3>1, <3>2, <2>4, <2>5 DEF UnderPlace
    <3> QED BY <3>3, <2>2
  <2>6. ASSUME P[y].node,
               NEW k \in Names, P[z].node, P[z].tree = P[y].tree, P[y].path = Append(P[z].path, k)
        PROVE  UnderPlace(P[z], b, q)
    <3>1. CASE P[y].tree = b /\ Starts(q, P[y].path)
      <4>1. q # P[y].path
        BY <3>1, <2>3, <2>6
      <4>2. Starts(q, P[z].path)
        BY <3>1, <4>1, <2>3, <2>6, StartsAppend
      <4> QED BY <3>1, <4>2, <2>6 DEF UnderPlace
    <3>2. CASE ~ (P[y].tree = b /\ Starts(q, P[y].path))
      BY <3>2, <2>4, <2>6 DEF UnderPlace
    <3> QED BY <3>1, <3>2
  <2>7. ASSUME ~P[y].node,
               NEW e, NEW r \in Path, EntryFits(h, P, Entry(z, e), P[z].tree, r),
               P[y].tree = Append(P[z].tree, r)
        PROVE  UnderPlace(P[z], b, q)
    <3>1. /\ Len(P[y].tree) = Len(P[z].tree) + 1 /\ P[y].tree[Len(P[z].tree) + 1] = r
          /\ \A i \in 1 .. Len(P[z].tree) : P[y].tree[i] = P[z].tree[i]
          /\ Len(P[z].tree) \in Nat
      BY <2>3, <2>7, AppendIs DEF Bin
    <3>2. /\ Len(P[y].tree) > Len(b) /\ \A i \in 1 .. Len(b) : P[y].tree[i] = b[i]
          /\ Starts(q, P[y].tree[Len(b) + 1])
      BY <2>4, <2>7 DEF UnderPlace
    <3>3. CASE Len(P[z].tree) = Len(b)
      <4>1. P[z].tree = b
        BY <3>1, <3>2, <3>3, <2>3 DEF Bin
      <4>2. Starts(q, r)
        BY <3>1, <3>2, <3>3
      <4>3. P[z] = At(b, r)
        BY <4>1, <2>7, EntryKind DEF Entry
      <4> QED BY <4>2, <4>3 DEF UnderPlace, At
    <3>4. CASE Len(P[z].tree) # Len(b)
      <4>1. Len(P[z].tree) > Len(b)
        BY <3>1, <3>2, <3>4, <1>1
      <4>2. \A i \in 1 .. Len(b) + 1 : i \in 1 .. Len(P[z].tree)
        BY <4>1, <3>1, <1>1
      <4>3. \A i \in 1 .. Len(b) + 1 : P[z].tree[i] = P[y].tree[i]
        BY <4>2, <3>1
      <4>4. \A i \in 1 .. Len(b) : P[z].tree[i] = b[i]
        BY <4>3, <3>2, <1>1
      <4>5. Starts(q, P[z].tree[Len(b) + 1])
        BY <4>3, <3>2, <1>1
      <4> QED BY <4>1, <4>4, <4>5 DEF UnderPlace
    <3> QED BY <3>3, <3>4
  <2>8. CASE P[y].node
    BY <2>8, <2>2, <2>5, <2>6, OwnerOfNode
  <2>9. CASE ~P[y].node
    <3>1. UnderPlace(P[z], b, q)
      BY <2>9, <2>2, <2>7, OwnerOfContent
    <3> QED BY <3>1, <2>2
  <2> QED BY <2>8, <2>9
<1>3. Z \in SUBSET DOMAIN P
  OBVIOUS
<1> HIDE DEF Z
<1>4. Z = {}
  BY <1>2, <1>3, NoOrphans
<1> QED BY <1>4 DEF Z

LEMMA NothingWithin ==
  ASSUME NEW h, NEW P, NEW R, NEW W, Sound(h, P, R, W), Self \notin Names,
         NEW b \in Bin, NEW q \in Path,
         \A c \in DOMAIN P : P[c] # Of(Append(b, q)),
         NEW x \in DOMAIN P
  PROVE  ~UnderContent(P[x], b, q)
<1> DEFINE Z == { y \in DOMAIN P : UnderContent(P[y], b, q) }
<1>1. Len(b) \in Nat
  BY DEF Bin
<1>2. ASSUME NEW y \in Z PROVE \E z \in Z : y \in Owned(h[z])
  <2>1. y # Root
    BY <1>1 DEF Sound, Of, UnderContent
  <2>2. PICK z \in DOMAIN P : y \in Owned(h[z])
    BY <2>1 DEF Sound
  <2>3. /\ P[z].tree \in Bin /\ P[y].tree \in Bin
        /\ (~P[y].node => P[y] = Of(P[y].tree))
    BY SpotIs
  <2>4. UnderContent(P[y], b, q)
    OBVIOUS
  <2>5. CASE P[z].tree = P[y].tree
    BY <2>2, <2>4, <2>5 DEF UnderContent
  <2>6. ASSUME ~P[y].node, NEW r \in Path, P[y].tree = Append(P[z].tree, r)
        PROVE  UnderContent(P[z], b, q)
    <3>1. /\ Len(P[y].tree) = Len(P[z].tree) + 1 /\ P[y].tree[Len(P[z].tree) + 1] = r
          /\ \A i \in 1 .. Len(P[z].tree) : P[y].tree[i] = P[z].tree[i]
          /\ Len(P[z].tree) \in Nat
      BY <2>3, <2>6, AppendIs DEF Bin
    <3>2. /\ Len(P[y].tree) > Len(b) /\ \A i \in 1 .. Len(b) : P[y].tree[i] = b[i]
          /\ P[y].tree[Len(b) + 1] = q
      BY <2>4 DEF UnderContent
    <3>3. Len(P[z].tree) # Len(b)
      <4> SUFFICES ASSUME Len(P[z].tree) = Len(b) PROVE FALSE
        OBVIOUS
      <4>1. P[z].tree = b /\ r = q
        BY <3>1, <3>2, <2>3 DEF Bin
      <4> QED BY <4>1, <2>3, <2>6
    <3>4. Len(P[z].tree) > Len(b)
      BY <3>1, <3>2, <3>3, <1>1
    <3>5. \A i \in 1 .. Len(b) + 1 : i \in 1 .. Len(P[z].tree)
      BY <3>4, <3>1, <1>1
    <3>6. \A i \in 1 .. Len(b) + 1 : P[z].tree[i] = P[y].tree[i]
      BY <3>5, <3>1
    <3>7. \A i \in 1 .. Len(b) : P[z].tree[i] = b[i]
      BY <3>6, <3>2, <1>1
    <3>8. P[z].tree[Len(b) + 1] = q
      BY <3>6, <3>2, <1>1
    <3> QED BY <3>4, <3>7, <3>8 DEF UnderContent
  <2>7. CASE P[y].node
    <3>1. P[z].tree = P[y].tree
      BY <2>7, <2>2, OwnerOfNode DEF Of
    <3> QED BY <3>1, <2>5
  <2>8. CASE ~P[y].node
    <3>1. UnderContent(P[z], b, q)
      BY <2>8, <2>2, <2>6, OwnerOfContent
    <3> QED BY <3>1, <2>2
  <2> QED BY <2>7, <2>8
<1>3. Z \in SUBSET DOMAIN P
  OBVIOUS
<1> HIDE DEF Z
<1>4. Z = {}
  BY <1>2, <1>3, NoOrphans
<1> QED BY <1>4 DEF Z

-----------------------------------------------------------------------------
(* Changes of the heap: it grows, and a node is moved to another address.  *)

Extends(Q, P) == DOMAIN P \subseteq DOMAIN Q /\ \A x \in DOMAIN P : Q[x] = P[x]

LEMMA HolderFitsStill ==
  ASSUME NEW P, NEW Q, Extends(Q, P), NEW r, NEW b, HolderFits(P, r, b)
  PROVE  HolderFits(Q, r, b)
BY DEF HolderFits, Extends

LEMMA NodeRefStill ==
  ASSUME NEW P, NEW Q, Extends(Q, P), NEW r, NEW b, NEW q, NodeRef(P, r, b, q)
  PROVE  NodeRef(Q, r, b, q)
BY DEF NodeRef, Extends

LEMMA KidFitsStill ==
  ASSUME NEW P, NEW Q, Extends(Q, P), NEW R, NEW W, NEW r, NEW b, NEW q,
         KidFits(P, R, W, r, b, q)
  PROVE  KidFits(Q, R, W, r, b, q)
BY NodeRefStill DEF KidFits

LEMMA FitsStill ==
  ASSUME NEW P, NEW Q, Extends(Q, P), NEW R, NEW W, NEW object, NEW spot,
         Fits(P, R, W, object, spot)
  PROVE  Fits(Q, R, W, object, spot)
<1>1. ASSUME NodeFits(P, R, W, object, spot.tree, spot.path)
      PROVE  NodeFits(Q, R, W, object, spot.tree, spot.path)
  <2>1. HolderFits(Q, object.self, Append(spot.tree, spot.path))
    BY <1>1, HolderFitsStill DEF NodeFits
  <2>2. ASSUME NEW k \in DOMAIN object.kids
        PROVE  KidFits(Q, R, W, object.kids[k], spot.tree, Append(spot.path, k))
    <3>1. KidFits(P, R, W, object.kids[k], spot.tree, Append(spot.path, k))
      BY <1>1 DEF NodeFits
    <3> QED BY <3>1, KidFitsStill
  <2> QED BY <1>1, <2>1, <2>2 DEF NodeFits
<1>2. ASSUME FlatFits(P, object, spot.tree) PROVE FlatFits(Q, object, spot.tree)
  <2>1. HolderFits(Q, object.self, Append(spot.tree, <<>>))
    BY <1>2, HolderFitsStill DEF FlatFits
  <2>2. ASSUME NEW k \in DOMAIN object.kids
        PROVE  HolderFits(Q, object.kids[k], Append(spot.tree, <<k>>))
    <3>1. HolderFits(P, object.kids[k], Append(spot.tree, <<k>>))
      BY <1>2 DEF FlatFits
    <3> QED BY <3>1, HolderFitsStill
  <2> QED BY <1>2, <2>1, <2>2 DEF FlatFits
<1>3. ASSUME QuadFits(P, object, spot.tree) PROVE QuadFits(Q, object, spot.tree)
  <2>1. object.root # Null => NodeRef(Q, Pointer(object.root, TRUE), spot.tree, <<>>)
    BY <1>3, NodeRefStill DEF QuadFits
  <2> QED BY <1>3, <2>1 DEF QuadFits
<1> QED BY <1>1, <1>2, <1>3 DEF Fits

(* New objects in places of their own, each with an owner, and changes     *)
(* that give up nothing owned.                                             *)
LEMMA Grown ==
  ASSUME NEW h, NEW P, NEW R, NEW W, Sound(h, P, R, W),
         NEW g, NEW Q, Extends(Q, P), DOMAIN g = DOMAIN Q,
         IsFiniteSet(DOMAIN Q), DOMAIN Q \subseteq Nat \ {Null},
         Q \in [DOMAIN Q -> Spots],
         \A x \in DOMAIN Q \ DOMAIN P, y \in DOMAIN Q : Q[x] = Q[y] => x = y,
         \A x \in DOMAIN Q : (x \in DOMAIN P /\ g[x] = h[x]) \/ Fits(Q, R, W, g[x], Q[x]),
         \A x \in DOMAIN P : Owned(h[x]) \subseteq Owned(g[x]),
         \A x \in DOMAIN Q \ DOMAIN P : \E y \in DOMAIN Q : x \in Owned(g[y])
  PROVE  Sound(g, Q, R, W)
<1>1. \A x, y \in DOMAIN Q : Q[x] = Q[y] => x = y
  <2> TAKE x, y \in DOMAIN Q
  <2>1. CASE x \in DOMAIN P /\ y \in DOMAIN P
    BY <2>1 DEF Sound, Extends
  <2>2. CASE x \notin DOMAIN P
    BY <2>2
  <2>3. CASE y \notin DOMAIN P
    BY <2>3
  <2> QED BY <2>1, <2>2, <2>3
<1>2. Root \in DOMAIN Q /\ Q[Root] = Of(<<>>)
  BY DEF Sound, Extends
<1>3. ASSUME NEW x \in DOMAIN Q PROVE Fits(Q, R, W, g[x], Q[x])
  <2>1. CASE x \in DOMAIN P /\ g[x] = h[x]
    <3>1. Fits(P, R, W, h[x], P[x]) /\ Q[x] = P[x]
      BY <2>1 DEF Sound, Extends
    <3> QED BY <3>1, <2>1, FitsStill
  <2> QED BY <2>1
<1>4. ASSUME NEW x \in DOMAIN Q \ {Root} PROVE \E y \in DOMAIN Q : x \in Owned(g[y])
  <2>1. CASE x \in DOMAIN P
    <3>1. PICK y \in DOMAIN P : x \in Owned(h[y])
      BY <2>1 DEF Sound
    <3> QED BY <3>1 DEF Extends
  <2> QED BY <2>1
<1> QED BY <1>1, <1>2, <1>3, <1>4 DEF Sound

(* A node has one owner, and one pointer of it.                            *)
LEMMA OneOwnerOfNode ==
  ASSUME NEW h, NEW P, NEW R, NEW W, Sound(h, P, R, W),
         NEW n \in DOMAIN P, P[n].node,
         NEW x \in DOMAIN P, n \in Owned(h[x]), NEW y \in DOMAIN P, n \in Owned(h[y])
  PROVE  x = y
<1>0. P[x].path \in Path /\ P[y].path \in Path
  BY SpotIs
<1>1. /\ P[x].node => P[x] = At(P[x].tree, P[x].path)
      /\ P[y].node => P[y] = At(P[y].tree, P[y].path)
  BY SpotIs
<1>2. \A p \in Path, k \in Names : Append(p, k) # <<>>
  BY AppendIs DEF Path
<1>3. CASE P[n].path = <<>>
  <2>1. P[x] = Of(P[n].tree) /\ P[y] = Of(P[n].tree)
    BY <1>0, <1>2, <1>3, OwnerOfNode
  <2> QED BY <2>1 DEF Sound
<1>4. CASE P[n].path # <<>>
  <2>1. PICK k \in Names : P[x].node /\ P[x].tree = P[n].tree /\ P[n].path = Append(P[x].path, k)
    BY <1>4, OwnerOfNode
  <2>2. PICK j \in Names : P[y].node /\ P[y].tree = P[n].tree /\ P[n].path = Append(P[y].path, j)
    BY <1>4, OwnerOfNode
  <2>3. P[x].path = P[y].path
    <3>1. Append(P[x].path, k) = Append(P[y].path, j)
      BY <2>1, <2>2
    <3> QED BY <3>1, <1>0, AppendSame DEF Path
  <2>4. P[x] = P[y]
    BY <1>1, <2>1, <2>2, <2>3
  <2> QED BY <2>4 DEF Sound
<1> QED BY <1>3, <1>4

(* Node i is moved to j: its owner follows it, and those that shared it    *)
(* are left with a pointer to a node replaced.                             *)
Moves(h, P, W, g, i, j, y) ==
  /\ DOMAIN g = (DOMAIN P \ {i}) \cup {j} /\ g[j] = h[i]
  /\ \A x \in DOMAIN P \ {i, y} : g[x] = h[x]
  /\ \/ h[y].kind = "quad" /\ g[y] = [h[y] EXCEPT !.root = j]
     \/ \E k \in DOMAIN h[y].kids :
          /\ P[y].node /\ h[y].kids[k] = Pointer(i, TRUE)
          /\ g[y] = [h[y] EXCEPT !.kids = Put(@, k, Pointer(j, TRUE))]
  /\ \A x \in DOMAIN P : P[x].node =>
       \A k \in DOMAIN h[x].kids :
         h[x].kids[k].c = i /\ ~h[x].kids[k].proper
           => <<P[x].tree, Append(P[x].path, k)>> \in W

MovedSpots(P, g, i, j) == [x \in DOMAIN g |-> IF x = j THEN P[i] ELSE P[x]]

LEMMA Moved ==
  ASSUME NEW h, NEW P, NEW R, NEW W, Sound(h, P, R, W), Self \notin Names,
         NEW i \in DOMAIN P, P[i].node, NEW j \in Nat \ {Null}, j \notin DOMAIN P,
         NEW y \in DOMAIN P, i \in Owned(h[y]),
         NEW g, Moves(h, P, W, g, i, j, y)
  PROVE  Sound(g, MovedSpots(P, g, i, j), R \cup {i}, W)
<1> DEFINE Q == MovedSpots(P, g, i, j)
           S == R \cup {i}
<1>1. /\ DOMAIN Q = (DOMAIN P \ {i}) \cup {j} /\ Q[j] = P[i]
      /\ \A x \in DOMAIN P \ {i} : x \in DOMAIN Q /\ Q[x] = P[x]
      /\ Q = [x \in DOMAIN Q |-> Q[x]]
      /\ DOMAIN g = DOMAIN Q /\ g[j] = h[i]
  BY DEF Moves, MovedSpots
<1>0. \A x \in DOMAIN P \ {i, y} : g[x] = h[x]
  BY DEF Moves
<1> HIDE DEF Q
<1>2. i # Root /\ i # Null /\ y # i
  <2>1. y # i
    <3> SUFFICES ASSUME y = i PROVE FALSE
      OBVIOUS
    <3>1. P[i] # Of(P[i].tree)
      BY DEF Of
    <3>2. PICK k \in Names : P[i].path = Append(P[i].path, k)
      BY <3>1, OwnerOfNode
    <3>3. P[i].path \in Path
      BY SpotIs
    <3> QED BY <3>2, <3>3 DEF Path
  <2> QED BY <2>1 DEF Sound, Of
<1>3. ASSUME NEW r, NEW b, HolderFits(P, r, b) PROVE HolderFits(Q, r, b)
  BY <1>1, <1>3 DEF HolderFits
<1>4. ASSUME NEW r, NEW b, NEW q, KidFits(P, R, W, r, b, q),
             r.c = i => ~r.proper /\ <<b, q>> \in W
      PROVE  KidFits(Q, S, W, r, b, q)
  <2>1. CASE r.c = i
    BY <1>4, <2>1 DEF KidFits
  <2>2. CASE r.c # i
    <3>1. NodeRef(P, r, b, q) => NodeRef(Q, r, b, q)
      BY <1>1, <2>2 DEF NodeRef
    <3> QED BY <1>4, <3>1 DEF KidFits
  <2> QED BY <2>1, <2>2
(* A kid that is not the one moved.                                        *)
<1>5. ASSUME NEW x \in DOMAIN P, P[x].node, NEW k \in DOMAIN h[x].kids,
             h[x].kids[k].c = i => ~h[x].kids[k].proper
      PROVE  KidFits(Q, S, W, h[x].kids[k], P[x].tree, Append(P[x].path, k))
  <2>1. KidFits(P, R, W, h[x].kids[k], P[x].tree, Append(P[x].path, k))
    BY <1>5, SpotOfNode DEF NodeFits
  <2>2. h[x].kids[k].c = i => <<P[x].tree, Append(P[x].path, k)>> \in W
    BY <1>5 DEF Moves
  <2> QED BY <2>1, <2>2, <1>4, <1>5
<1>6. ASSUME NEW x \in DOMAIN P, x # y PROVE Fits(Q, S, W, h[x], P[x])
  <2>1. i \notin Owned(h[x])
    BY <1>6, OneOwnerOfNode
  <2>2. CASE P[x].node
    <3>1. NodeFits(P, R, W, h[x], P[x].tree, P[x].path)
      BY <2>2, SpotOfNode
    <3>2. ASSUME NEW k \in DOMAIN h[x].kids
          PROVE  KidFits(Q, S, W, h[x].kids[k], P[x].tree, Append(P[x].path, k))
      <4>1. h[x].kids[k].c = i => ~h[x].kids[k].proper
        BY <2>1, <3>1, <1>2, OwnedByBranches DEF NodeFits
      <4> QED BY <4>1, <2>2, <1>5
    <3>3. HolderFits(Q, h[x].self, Append(P[x].tree, P[x].path))
      BY <3>1, <1>3 DEF NodeFits
    <3>4. NodeFits(Q, S, W, h[x], P[x].tree, P[x].path)
      BY <3>1, <3>2, <3>3 DEF NodeFits
    <3> QED BY <2>2, <3>4 DEF Fits
  <2>3. CASE ~P[x].node /\ FlatFits(P, h[x], P[x].tree)
    <3>1. HolderFits(Q, h[x].self, Append(P[x].tree, <<>>))
      BY <2>3, <1>3 DEF FlatFits
    <3>2. ASSUME NEW k \in DOMAIN h[x].kids
          PROVE  HolderFits(Q, h[x].kids[k], Append(P[x].tree, <<k>>))
      <4>1. HolderFits(P, h[x].kids[k], Append(P[x].tree, <<k>>))
        BY <2>3 DEF FlatFits
      <4> QED BY <4>1, <1>3
    <3>3. FlatFits(Q, h[x], P[x].tree)
      BY <2>3, <3>1, <3>2 DEF FlatFits
    <3> QED BY <2>3, <3>3 DEF Fits
  <2>4. CASE ~P[x].node /\ QuadFits(P, h[x], P[x].tree)
    <3>1. h[x].root # i
      BY <2>1, <2>4, <1>2, OwnedByTree DEF QuadFits
    <3>2. h[x].root # Null => NodeRef(Q, Pointer(h[x].root, TRUE), P[x].tree, <<>>)
      BY <3>1, <2>4, <1>1 DEF QuadFits, NodeRef, Pointer
    <3>3. QuadFits(Q, h[x], P[x].tree)
      BY <2>4, <3>2 DEF QuadFits
    <3> QED BY <2>4, <3>3 DEF Fits
  <2>5. CASE ~P[x].node /\ LeafFits(h[x], P[x].tree)
    BY <2>5 DEF Fits
  <2> QED BY <2>2, <2>3, <2>4, <2>5, SpotOfNode
<1>7. ASSUME h[y].kind = "quad", g[y] = [h[y] EXCEPT !.root = j]
      PROVE  /\ Fits(Q, S, W, g[y], P[y])
             /\ j \in Owned(g[y]) /\ Owned(h[y]) \subseteq {i} \cup Owned(g[y])
  <2>1. ~P[y].node /\ QuadFits(P, h[y], P[y].tree)
    <3>1. ~P[y].node
      BY <1>7, SpotOfNode DEF NodeFits
    <3> QED BY <3>1, <1>7, KindOfContent
  <2>2. h[y].root = i
    BY <2>1, <1>7, <1>2, OwnedByTree
  <2>3. P[i].path = <<>> /\ P[i].tree = P[y].tree
    BY <2>1, <2>2, <1>2 DEF QuadFits, NodeRef, Pointer
  <2>4. g[y].kind = "quad" /\ DOMAIN g[y] = DOMAIN h[y] /\ g[y].root = j
    BY <2>1, <1>7 DEF QuadFits
  <2>5. NodeRef(Q, Pointer(j, TRUE), P[y].tree, <<>>)
    <3>1. Within(P[y].tree, P[y].tree)
      BY SpotIs, WithinItself
    <3> QED BY <3>1, <2>3, <1>1 DEF NodeRef, Pointer
  <2>6. QuadFits(Q, g[y], P[y].tree)
    BY <2>1, <2>4, <2>5 DEF QuadFits
  <2>7. Fits(Q, S, W, g[y], P[y])
    BY <2>1, <2>6 DEF Fits
  <2>8. Owned(g[y]) = {j} \ {Null} /\ Owned(h[y]) = {i} \ {Null}
    BY <2>4, <2>2, <1>7, OwnedByTree
  <2> QED BY <2>7, <2>8
<1>8. ASSUME \E k \in DOMAIN h[y].kids :
              /\ P[y].node /\ h[y].kids[k] = Pointer(i, TRUE)
              /\ g[y] = [h[y] EXCEPT !.kids = Put(@, k, Pointer(j, TRUE))]
      PROVE  /\ Fits(Q, S, W, g[y], P[y])
             /\ j \in Owned(g[y]) /\ Owned(h[y]) \subseteq {i} \cup Owned(g[y])
  <2>1. PICK k \in DOMAIN h[y].kids :
              /\ P[y].node /\ h[y].kids[k] = Pointer(i, TRUE)
              /\ g[y] = [h[y] EXCEPT !.kids = Put(@, k, Pointer(j, TRUE))]
    BY <1>8
  <2>2. NodeFits(P, R, W, h[y], P[y].tree, P[y].path) /\ P[y].path \in Path
    BY <2>1, SpotOfNode, SpotIs
  <2>3. /\ DOMAIN g[y] = {"kind", "self", "kids"} /\ g[y].kind = "node"
        /\ g[y].self = h[y].self /\ g[y].kids = Put(h[y].kids, k, Pointer(j, TRUE))
    BY <2>1, <2>2 DEF NodeFits, Branches
  <2>4. /\ DOMAIN g[y].kids = DOMAIN h[y].kids /\ g[y].kids[k] = Pointer(j, TRUE)
        /\ \A e \in DOMAIN h[y].kids : e # k => g[y].kids[e] = h[y].kids[e]
    BY <2>3 DEF Put
  <2>4a. g[y].kids = [e \in DOMAIN g[y].kids |-> g[y].kids[e]]
    BY <2>3 DEF Put
  <2>5. P[i].path = Append(P[y].path, k) /\ P[i].tree = P[y].tree
    <3>1. KidFits(P, R, W, h[y].kids[k], P[y].tree, Append(P[y].path, k))
      BY <2>2 DEF NodeFits
    <3> QED BY <3>1, <2>1 DEF KidFits, NodeRef, Pointer
  <2>6. ASSUME NEW e \in DOMAIN h[y].kids, e # k
        PROVE  h[y].kids[e].c = i => ~h[y].kids[e].proper
    <3> SUFFICES ASSUME h[y].kids[e].c = i, h[y].kids[e].proper PROVE FALSE
      OBVIOUS
    <3>1. KidFits(P, R, W, h[y].kids[e], P[y].tree, Append(P[y].path, e))
          /\ e \in Names /\ k \in Names
      BY <2>2 DEF NodeFits, Branches
    <3>2. Append(P[y].path, e) = Append(P[y].path, k)
      BY <3>1, <2>5 DEF KidFits, NodeRef
    <3>3. e = k
      BY <3>1, <3>2, <2>2, AppendSame DEF Path
    <3> QED BY <3>3, <2>6
  <2>7. ASSUME NEW e \in DOMAIN h[y].kids
        PROVE  KidFits(Q, S, W, g[y].kids[e], P[y].tree, Append(P[y].path, e))
    <3>1. CASE e # k
      BY <3>1, <2>1, <2>4, <2>6, <1>5
    <3>2. CASE e = k
      <4>1. Within(P[y].tree, P[y].tree)
        BY SpotIs, WithinItself
      <4>2. NodeRef(Q, Pointer(j, TRUE), P[y].tree, Append(P[y].path, k))
        BY <4>1, <2>5, <1>1 DEF NodeRef, Pointer
      <4> QED BY <4>2, <3>2, <2>4 DEF KidFits, Pointer
    <3> QED BY <3>1, <3>2
  <2>8. NodeFits(Q, S, W, g[y], P[y].tree, P[y].path)
    <3>1. HolderFits(Q, g[y].self, Append(P[y].tree, P[y].path))
      BY <2>2, <2>3, <1>3 DEF NodeFits
    <3>2. Branches(g[y])
      <4>1. \A e \in DOMAIN h[y].kids : g[y].kids[e] \in [c : Nat, proper : BOOLEAN]
        BY <2>7 DEF KidFits
      <4> QED BY <4>1, <2>2, <2>3, <2>4, <2>4a DEF Branches, NodeFits
    <3>3. OnlyChild(g[y]) => OnlyChild(h[y])
      BY <2>4 DEF OnlyChild
    <3> QED BY <3>1, <3>2, <3>3, <2>2, <2>3, <2>4, <2>7 DEF NodeFits
  <2>9. Fits(Q, S, W, g[y], P[y])
    BY <2>1, <2>8 DEF Fits
  <2>10. j \in Owned(g[y])
    BY <2>3, <2>4, <2>8, OwnedByBranches DEF NodeFits, Pointer
  <2>11. ASSUME NEW z \in Owned(h[y]), z # i PROVE z \in Owned(g[y])
    <3>1. z # Null /\ \/ h[y].self.c = z /\ h[y].self.proper
                      \/ \E e \in DOMAIN h[y].kids : h[y].kids[e].c = z /\ h[y].kids[e].proper
      BY <2>2, OwnedByBranches DEF NodeFits
    <3>2. \A e \in DOMAIN h[y].kids : h[y].kids[e].c = z => g[y].kids[e] = h[y].kids[e]
      <4>1. h[y].kids[k].c = i
        BY <2>1 DEF Pointer
      <4> QED BY <4>1, <2>4, <2>11
    <3>3. \/ g[y].self.c = z /\ g[y].self.proper
          \/ \E e \in DOMAIN g[y].kids : g[y].kids[e].c = z /\ g[y].kids[e].proper
      BY <3>1, <3>2, <2>3, <2>4
    <3> QED BY <3>1, <3>3, <2>3, <2>8, OwnedByBranches DEF NodeFits
  <2> QED BY <2>9, <2>10, <2>11
<1>9. /\ Fits(Q, S, W, g[y], P[y])
      /\ j \in Owned(g[y]) /\ Owned(h[y]) \subseteq {i} \cup Owned(g[y])
  BY <1>7, <1>8 DEF Moves
<1>10. ASSUME NEW x \in DOMAIN Q PROVE Fits(Q, S, W, g[x], Q[x])
  <2>1. CASE x = j
    BY <2>1, <1>1, <1>2, <1>6
  <2>2. CASE x = y
    BY <2>2, <1>1, <1>2, <1>9
  <2>3. CASE x # j /\ x # y
    BY <2>3, <1>0, <1>1, <1>6
  <2> QED BY <2>1, <2>2, <2>3
<1>11. ASSUME NEW z \in DOMAIN Q \ {Root} PROVE \E x \in DOMAIN Q : z \in Owned(g[x])
  <2>1. CASE z = j
    BY <2>1, <1>1, <1>2, <1>9
  <2>2. CASE z # j
    <3>1. z \in DOMAIN P \ {i}
      BY <2>2, <1>1
    <3>2. PICK x \in DOMAIN P : z \in Owned(h[x])
      BY <3>1 DEF Sound
    <3>3. CASE x = i
      BY <3>2, <3>3, <1>1
    <3>4. CASE x = y
      BY <3>1, <3>2, <3>4, <1>1, <1>2, <1>9
    <3>5. CASE x # i /\ x # y
      BY <3>2, <3>5, <1>0, <1>1
    <3> QED BY <3>3, <3>4, <3>5
  <2> QED BY <2>1, <2>2
<1>12. Q \in [DOMAIN Q -> Spots] /\ IsFiniteSet(DOMAIN Q) /\ DOMAIN Q \subseteq Nat \ {Null}
       /\ DOMAIN g = DOMAIN Q
  <2>1. IsFiniteSet(DOMAIN Q)
    <3>1. IsFiniteSet(DOMAIN P)
      BY DEF Sound
    <3>2. IsFiniteSet(DOMAIN P \ {i})
      BY <3>1, FS_RemoveElement
    <3>3. IsFiniteSet((DOMAIN P \ {i}) \cup {j})
      BY <3>2, FS_AddElement
    <3> QED BY <3>3, <1>1
  <2>2. \A x \in DOMAIN Q : Q[x] \in Spots
    BY <1>1 DEF Sound
  <2> QED BY <2>1, <2>2, <1>1 DEF Sound
<1>13. \A x, z \in DOMAIN Q : Q[x] = Q[z] => x = z
  BY <1>1 DEF Sound
<1>14. Root \in DOMAIN Q /\ Q[Root] = Of(<<>>)
  BY <1>1, <1>2 DEF Sound
<1>15. Sound(g, Q, S, W)
  BY <1>10, <1>11, <1>12, <1>13, <1>14 DEF Sound
<1> QED BY <1>15 DEF Q

-----------------------------------------------------------------------------
(* One object is changed, and takes what was allocated.                    *)

(* h1 is h with new objects, each in a free place and owned by another new *)
(* one, except for top.                                                    *)
Adds(h, P, R, W, h1, Q, top) ==
  /\ Extends(Q, P) /\ DOMAIN h1 = DOMAIN Q
  /\ IsFiniteSet(DOMAIN Q) /\ DOMAIN Q \subseteq Nat \ {Null} /\ Q \in [DOMAIN Q -> Spots]
  /\ \A x \in DOMAIN Q \ DOMAIN P, y \in DOMAIN Q : Q[x] = Q[y] => x = y
  /\ \A x \in DOMAIN P : h1[x] = h[x]
  /\ \A x \in DOMAIN Q \ DOMAIN P : Fits(Q, R, W, h1[x], Q[x])
  /\ \A x \in DOMAIN Q \ DOMAIN P :
       x = top \/ \E y \in DOMAIN Q \ DOMAIN P : x \in Owned(h1[y])

LEMMA AddsNothing ==
  ASSUME NEW h, NEW P, NEW R, NEW W, Sound(h, P, R, W), NEW top
  PROVE  Adds(h, P, R, W, h, P, top)
BY DEF Adds, Sound, Extends

LEMMA Attach ==
  ASSUME NEW h, NEW P, NEW R, NEW W, Sound(h, P, R, W),
         NEW h1, NEW Q, NEW top, Adds(h, P, R, W, h1, Q, top),
         NEW y \in DOMAIN P, NEW g, DOMAIN g = DOMAIN h1,
         \A x \in DOMAIN h1 : x # y => g[x] = h1[x],
         Fits(Q, R, W, g[y], P[y]), Owned(h[y]) \subseteq Owned(g[y]),
         top \in DOMAIN Q \ DOMAIN P => top \in Owned(g[y])
  PROVE  Sound(g, Q, R, W)
<1>1. Extends(Q, P) /\ DOMAIN g = DOMAIN Q
      /\ IsFiniteSet(DOMAIN Q) /\ DOMAIN Q \subseteq Nat \ {Null} /\ Q \in [DOMAIN Q -> Spots]
      /\ \A x \in DOMAIN Q \ DOMAIN P, z \in DOMAIN Q : Q[x] = Q[z] => x = z
  BY DEF Adds
<1>2. y \in DOMAIN Q /\ Q[y] = P[y] /\ DOMAIN P \subseteq DOMAIN Q
  BY <1>1 DEF Extends
<1>3. ASSUME NEW x \in DOMAIN Q
      PROVE  (x \in DOMAIN P /\ g[x] = h[x]) \/ Fits(Q, R, W, g[x], Q[x])
  <2>1. CASE x = y
    BY <2>1, <1>2
  <2>2. CASE x # y /\ x \in DOMAIN P
    BY <2>2 DEF Adds
  <2>3. CASE x # y /\ x \notin DOMAIN P
    BY <2>3 DEF Adds
  <2> QED BY <2>1, <2>2, <2>3
<1>4. ASSUME NEW x \in DOMAIN P PROVE Owned(h[x]) \subseteq Owned(g[x])
  <2>1. CASE x = y
    BY <2>1
  <2>2. CASE x # y
    BY <2>2, <1>2 DEF Adds
  <2> QED BY <2>1, <2>2
<1>5. ASSUME NEW x \in DOMAIN Q \ DOMAIN P PROVE \E z \in DOMAIN Q : x \in Owned(g[z])
  <2>1. CASE x = top
    BY <2>1, <1>2
  <2>2. CASE x # top
    <3>1. PICK z \in DOMAIN Q \ DOMAIN P : x \in Owned(h1[z])
      BY <2>2 DEF Adds
    <3>2. z # y /\ g[z] = h1[z]
      BY <1>1
    <3> QED BY <3>1, <3>2
  <2> QED BY <2>1, <2>2
<1> QED BY <1>1, <1>3, <1>4, <1>5, Grown

(* An entry may own a content.                                             *)
MayOwn(h, x) ==
  x.e = Self => /\ ~OnlyChild(h[x.o])
                /\ h[x.o].kind = "flat" => DOMAIN h[x.o].kids # {}

LEMMA HolderSet ==
  ASSUME NEW h, NEW P, NEW R, NEW W, Sound(h, P, R, W),
         NEW x, NEW b, NEW q, EntryFits(h, P, x, b, q), ~HolderOf(h, x).proper,
         NEW h1, NEW Q, NEW holder, Adds(h, P, R, W, h1, Q, holder.c),
         HolderFits(Q, holder, Append(b, q)),
         holder.c \in DOMAIN Q \ DOMAIN P => holder.proper,
         holder.proper => MayOwn(h, x)
  PROVE  Sound(SetHolder(h1, x, holder), Q, R, W)
<1> DEFINE g == SetHolder(h1, x, holder)
           o == x.o
<1>1. /\ o \in DOMAIN P /\ P[o].tree = b /\ Branches(h[o])
      /\ IF P[o].node
         THEN /\ NodeFits(P, R, W, h[o], b, q) /\ P[o] = At(b, q) /\ x.e = Self
         ELSE /\ FlatFits(P, h[o], b) /\ P[o] = Of(b)
              /\ \/ x.e = Self /\ q = <<>>
                 \/ x.e # Self /\ x.e \in DOMAIN h[o].kids /\ q = <<x.e>>
  BY EntryKind
<1>2. Extends(Q, P) /\ o \in DOMAIN h1 /\ h1[o] = h[o]
  BY <1>1 DEF Adds, Extends
<1>3. DOMAIN g = DOMAIN h1 /\ \A z \in DOMAIN h1 : z # o => g[z] = h1[z]
  BY DEF SetHolder, SetKid
<1>4. holder \in [c : Nat, proper : BOOLEAN]
  BY DEF HolderFits
<1>5. CASE x.e = Self
  <2>1. g[o] = [h[o] EXCEPT !.self = holder]
    BY <1>2, <1>5 DEF SetHolder
  <2>2. /\ g[o].self = holder /\ g[o].kids = h[o].kids /\ g[o].kind = h[o].kind
        /\ DOMAIN g[o] = {"kind", "self", "kids"}
    BY <2>1, <1>1 DEF Branches
  <2>3. Branches(g[o]) /\ (OnlyChild(g[o]) <=> OnlyChild(h[o]))
    BY <2>2, <1>1 DEF Branches, OnlyChild
  <2>4. holder.proper => ~OnlyChild(h[o]) /\ (h[o].kind = "flat" => DOMAIN h[o].kids # {})
    BY <1>5 DEF MayOwn
  <2>5. h[o].kind \in {"node", "flat"}
    BY <1>1 DEF NodeFits, FlatFits
  <2>6. ~h[o].self.proper
    BY <1>5 DEF HolderOf
  <2>7. Owned(h[o]) \subseteq Owned(g[o]) /\ (holder.proper /\ holder.c # Null => holder.c \in Owned(g[o]))
    BY <2>2, <2>3, <2>5, <2>6, <1>1, OwnedByBranches
  <2>8. ASSUME P[o].node PROVE Fits(Q, R, W, g[o], P[o])
    <3>1. Fits(Q, R, W, h[o], P[o])
      BY <1>1, <1>2, <2>8, FitsStill DEF Sound
    <3>2. NodeFits(Q, R, W, h[o], b, q)
      BY <3>1, <1>1, <2>8 DEF Fits, At
    <3>3. NodeFits(Q, R, W, g[o], b, q)
      BY <3>2, <2>2, <2>3, <2>4 DEF NodeFits
    <3> QED BY <3>3, <1>1, <2>7, <2>8 DEF Fits, At
  <2>9. ASSUME ~P[o].node PROVE Fits(Q, R, W, g[o], P[o])
    <3>1. Fits(Q, R, W, h[o], P[o])
      BY <1>1, <1>2, <2>9, FitsStill DEF Sound
    <3>2. FlatFits(Q, h[o], b)
      BY <3>1, <1>1, <2>9 DEF Fits, FlatFits, QuadFits, LeafFits
    <3>3. q = <<>>
      BY <1>1, <2>9, <1>5
    <3>4. FlatFits(Q, g[o], b)
      BY <3>2, <3>3, <2>2, <2>3, <2>4 DEF FlatFits
    <3> QED BY <3>4, <1>1, <2>7, <2>9 DEF Fits
  <2>10. Fits(Q, R, W, g[o], P[o])
    BY <2>8, <2>9
  <2>11. holder.c \in DOMAIN Q \ DOMAIN P => holder.c \in Owned(g[o])
    BY <2>7 DEF Adds
  <2> QED BY <2>7, <2>10, <2>11, <1>1, <1>3, Attach
<1>6. CASE x.e # Self
  <2>1. ~P[o].node /\ FlatFits(P, h[o], b) /\ x.e \in DOMAIN h[o].kids /\ q = <<x.e>>
    BY <1>1, <1>6
  <2>2. g[o] = [h[o] EXCEPT !.kids = Put(@, x.e, holder)]
    BY <1>2, <1>6 DEF SetHolder, SetKid
  <2>3. /\ g[o].self = h[o].self /\ g[o].kids = Put(h[o].kids, x.e, holder)
        /\ g[o].kind = h[o].kind /\ DOMAIN g[o] = {"kind", "self", "kids"}
    BY <2>2, <1>1 DEF Branches
  <2>4. /\ DOMAIN g[o].kids = DOMAIN h[o].kids /\ g[o].kids[x.e] = holder
        /\ \A k \in DOMAIN h[o].kids : k # x.e => g[o].kids[k] = h[o].kids[k]
    BY <2>1, <2>3 DEF Put
  <2>5. g[o].kids = [k \in DOMAIN g[o].kids |-> g[o].kids[k]]
    BY <2>3 DEF Put
  <2>6. \A k \in DOMAIN h[o].kids : g[o].kids[k] \in [c : Nat, proper : BOOLEAN]
    BY <2>4, <1>1, <1>4 DEF Branches
  <2>7. Branches(g[o]) /\ (OnlyChild(g[o]) <=> OnlyChild(h[o]))
    BY <2>3, <2>4, <2>5, <2>6, <1>1 DEF Branches, OnlyChild
  <2>8. ~h[o].kids[x.e].proper
    BY <1>6 DEF HolderOf
  <2>9. h[o].kind \in {"node", "flat"}
    BY <2>1 DEF FlatFits
  <2>10. Owned(h[o]) \subseteq Owned(g[o])
    <3> SUFFICES ASSUME NEW z \in Owned(h[o]) PROVE z \in Owned(g[o])
      OBVIOUS
    <3>1. z # Null /\ \/ h[o].self.c = z /\ h[o].self.proper
                      \/ \E k \in DOMAIN h[o].kids : h[o].kids[k].c = z /\ h[o].kids[k].proper
      BY <2>9, <1>1, OwnedByBranches
    <3>2. \/ g[o].self.c = z /\ g[o].self.proper
          \/ \E k \in DOMAIN g[o].kids : g[o].kids[k].c = z /\ g[o].kids[k].proper
      BY <3>1, <2>3, <2>4, <2>8
    <3> QED BY <3>1, <3>2, <2>3, <2>7, <2>9, OwnedByBranches
  <2>11. holder.c \in DOMAIN Q \ DOMAIN P => holder.c \in Owned(g[o])
    <3> SUFFICES ASSUME holder.c \in DOMAIN Q \ DOMAIN P PROVE holder.c \in Owned(g[o])
      OBVIOUS
    <3>1. holder.proper /\ holder.c # Null
      BY DEF Adds
    <3> QED BY <3>1, <2>1, <2>3, <2>4, <2>7, <2>9, OwnedByBranches
  <2>12. Fits(Q, R, W, g[o], P[o])
    <3>1. Fits(Q, R, W, h[o], P[o])
      BY <1>1, <1>2, FitsStill DEF Sound
    <3>2. FlatFits(Q, h[o], b)
      BY <3>1, <1>1, <2>1 DEF Fits, FlatFits, QuadFits, LeafFits
    <3>3. ASSUME NEW k \in DOMAIN g[o].kids
          PROVE  HolderFits(Q, g[o].kids[k], Append(b, <<k>>))
      BY <3>2, <2>1, <2>4 DEF FlatFits
    <3>4. FlatFits(Q, g[o], b)
      BY <3>2, <3>3, <2>3, <2>4, <2>7 DEF FlatFits
    <3> QED BY <3>4, <1>1, <2>1 DEF Fits
  <2> QED BY <2>10, <2>11, <2>12, <1>1, <1>3, Attach
<1> QED BY <1>5, <1>6

(* A flat tree gets a link.                                                *)
LEMMA LinkSet ==
  ASSUME NEW h, NEW P, NEW R, NEW W, Sound(h, P, R, W),
         NEW s \in DOMAIN P, ~P[s].node, h[s].kind = "flat",
         NEW k \in Names, k \notin DOMAIN h[s].kids,
         NEW holder, HolderFits(P, holder, Append(P[s].tree, <<k>>)), ~holder.proper
  PROVE  Sound(SetKid(h, s, k, holder), P, R, W)
<1> DEFINE g == SetKid(h, s, k, holder)
<1>1. FlatFits(P, h[s], P[s].tree) /\ Branches(h[s])
  BY KindOfContent DEF FlatFits
<1>2. s \in DOMAIN h /\ DOMAIN g = DOMAIN h /\ \A z \in DOMAIN h : z # s => g[z] = h[z]
  BY DEF Sound, SetKid
<1>3. /\ g[s].self = h[s].self /\ g[s].kids = Put(h[s].kids, k, holder)
      /\ g[s].kind = "flat" /\ DOMAIN g[s] = {"kind", "self", "kids"}
  BY <1>1, <1>2 DEF Branches, SetKid
<1>4. /\ DOMAIN g[s].kids = DOMAIN h[s].kids \cup {k} /\ g[s].kids[k] = holder
      /\ \A e \in DOMAIN h[s].kids : g[s].kids[e] = h[s].kids[e]
  BY <1>3 DEF Put
<1>5. g[s].kids = [e \in DOMAIN g[s].kids |-> g[s].kids[e]]
  BY <1>3 DEF Put
<1>6. \A e \in DOMAIN g[s].kids : g[s].kids[e] \in [c : Nat, proper : BOOLEAN] /\ e \in Names
  BY <1>4, <1>1 DEF Branches, HolderFits
<1>7. Branches(g[s])
  BY <1>3, <1>5, <1>6 DEF Branches
<1>8. OnlyChild(g[s]) => DOMAIN h[s].kids = {}
  BY <1>4 DEF OnlyChild
<1>9. FlatFits(P, g[s], P[s].tree)
  <2>1. DOMAIN g[s].kids = {} \/ OnlyChild(g[s]) => ~g[s].self.proper
    BY <1>1, <1>3, <1>4, <1>8 DEF FlatFits
  <2>2. ASSUME NEW e \in DOMAIN g[s].kids
        PROVE  HolderFits(P, g[s].kids[e], Append(P[s].tree, <<e>>))
    BY <1>1, <1>4 DEF FlatFits
  <2> QED BY <2>1, <2>2, <1>1, <1>3, <1>7 DEF FlatFits
<1>10. Fits(P, R, W, g[s], P[s])
  BY <1>9 DEF Fits
<1>11. Owned(h[s]) \subseteq Owned(g[s])
  <2> SUFFICES ASSUME NEW z \in Owned(h[s]) PROVE z \in Owned(g[s])
    OBVIOUS
  <2>1. z # Null /\ \/ h[s].self.c = z /\ h[s].self.proper
                    \/ \E e \in DOMAIN h[s].kids : h[s].kids[e].c = z /\ h[s].kids[e].proper
    BY <1>1, OwnedByBranches
  <2>2. \/ g[s].self.c = z /\ g[s].self.proper
        \/ \E e \in DOMAIN g[s].kids : g[s].kids[e].c = z /\ g[s].kids[e].proper
    BY <2>1, <1>3, <1>4
  <2> QED BY <2>1, <2>2, <1>3, <1>7, OwnedByBranches
<1>12. Adds(h, P, R, W, h, P, Null)
  BY AddsNothing
<1> QED BY <1>2, <1>10, <1>11, <1>12, Attach

(* A node gets a kid, or another one in place of a shared one.             *)
LEMMA KidSet ==
  ASSUME NEW h, NEW P, NEW R, NEW W, Sound(h, P, R, W),
         NEW n \in DOMAIN P, P[n].node, NEW k \in Names,
         Len(P[n].path) < Depth(Len(P[n].tree) + 1),
         k \in DOMAIN h[n].kids => ~h[n].kids[k].proper,
         NEW h1, NEW Q, NEW r, Adds(h, P, R, W, h1, Q, r.c),
         KidFits(Q, R, W, r, P[n].tree, Append(P[n].path, k)),
         r.c \in DOMAIN Q \ DOMAIN P => r.proper
  PROVE  Sound(SetKid(h1, n, k, r), Q, R, W)
<1> DEFINE g == SetKid(h1, n, k, r)
<1>1. NodeFits(P, R, W, h[n], P[n].tree, P[n].path) /\ Branches(h[n])
  BY SpotOfNode DEF NodeFits
<1>2. /\ n \in DOMAIN h1 /\ h1[n] = h[n] /\ Q[n] = P[n] /\ Extends(Q, P)
      /\ DOMAIN g = DOMAIN h1 /\ \A z \in DOMAIN h1 : z # n => g[z] = h1[z]
  BY DEF Adds, Extends, SetKid
<1>3. /\ g[n].self = h[n].self /\ g[n].kids = Put(h[n].kids, k, r)
      /\ g[n].kind = "node" /\ DOMAIN g[n] = {"kind", "self", "kids"}
  BY <1>1, <1>2 DEF NodeFits, Branches, SetKid
<1>4. /\ DOMAIN g[n].kids = DOMAIN h[n].kids \cup {k} /\ g[n].kids[k] = r
      /\ \A e \in DOMAIN h[n].kids : e # k => g[n].kids[e] = h[n].kids[e]
  BY <1>3 DEF Put
<1>5. g[n].kids = [e \in DOMAIN g[n].kids |-> g[n].kids[e]]
  BY <1>3 DEF Put
<1>6. \A e \in DOMAIN g[n].kids : g[n].kids[e] \in [c : Nat, proper : BOOLEAN] /\ e \in Names
  BY <1>4, <1>1 DEF Branches, KidFits
<1>7. Branches(g[n])
  BY <1>3, <1>5, <1>6 DEF Branches
<1>8. DOMAIN h[n].kids # {} /\ (OnlyChild(g[n]) => OnlyChild(h[n]))
  <2>1. DOMAIN h[n].kids # {}
    BY <1>1, SpotIs DEF NodeFits, Path
  <2> QED BY <2>1, <1>4 DEF OnlyChild
<1>9. NodeFits(Q, R, W, g[n], P[n].tree, P[n].path)
  <2>1. NodeFits(Q, R, W, h[n], P[n].tree, P[n].path)
    <3>1. Fits(Q, R, W, h[n], P[n])
      BY <1>2, FitsStill DEF Sound
    <3> QED BY <3>1 DEF Fits
  <2>2. ASSUME NEW e \in DOMAIN g[n].kids
        PROVE  KidFits(Q, R, W, g[n].kids[e], P[n].tree, Append(P[n].path, e))
    BY <2>1, <1>4 DEF NodeFits
  <2> QED BY <2>1, <2>2, <1>3, <1>4, <1>7, <1>8 DEF NodeFits
<1>10. Fits(Q, R, W, g[n], P[n])
  BY <1>9 DEF Fits
<1>11. Owned(h[n]) \subseteq Owned(g[n])
  <2> SUFFICES ASSUME NEW z \in Owned(h[n]) PROVE z \in Owned(g[n])
    OBVIOUS
  <2>1. z # Null /\ \/ h[n].self.c = z /\ h[n].self.proper
                    \/ \E e \in DOMAIN h[n].kids : h[n].kids[e].c = z /\ h[n].kids[e].proper
    BY <1>1, OwnedByBranches DEF NodeFits
  <2>2. \/ g[n].self.c = z /\ g[n].self.proper
        \/ \E e \in DOMAIN g[n].kids : g[n].kids[e].c = z /\ g[n].kids[e].proper
    BY <2>1, <1>3, <1>4
  <2> QED BY <2>1, <2>2, <1>3, <1>7, OwnedByBranches
<1>12. r.c \in DOMAIN Q \ DOMAIN P => r.c \in Owned(g[n])
  <2> SUFFICES ASSUME r.c \in DOMAIN Q \ DOMAIN P PROVE r.c \in Owned(g[n])
    OBVIOUS
  <2>1. r.proper /\ r.c # Null
    BY DEF Adds
  <2> QED BY <2>1, <1>3, <1>4, <1>7, OwnedByBranches
<1> QED BY <1>2, <1>10, <1>11, <1>12, Attach

(* An empty tree gets its root.                                            *)
LEMMA RootSet ==
  ASSUME NEW h, NEW P, NEW R, NEW W, Sound(h, P, R, W),
         NEW s \in DOMAIN P, ~P[s].node, h[s].kind = "quad", h[s].root = Null,
         NEW h1, NEW Q, NEW n \in DOMAIN Q, Adds(h, P, R, W, h1, Q, n),
         Q[n] = At(P[s].tree, <<>>)
  PROVE  Sound([h1 EXCEPT ![s].root = n], Q, R, W)
<1> DEFINE g == [h1 EXCEPT ![s].root = n]
<1>1. QuadFits(P, h[s], P[s].tree)
  BY KindOfContent
<1>2. /\ s \in DOMAIN h1 /\ h1[s] = h[s] /\ Q[s] = P[s] /\ n \in Nat \ {Null}
      /\ DOMAIN g = DOMAIN h1 /\ \A z \in DOMAIN h1 : z # s => g[z] = h1[z]
  BY DEF Adds, Extends
<1>3. g[s].kind = "quad" /\ DOMAIN g[s] = {"kind", "root"} /\ g[s].root = n
  BY <1>1, <1>2 DEF QuadFits
<1>4. NodeRef(Q, Pointer(n, TRUE), P[s].tree, <<>>)
  <2>1. Within(P[s].tree, P[s].tree)
    BY SpotIs, WithinItself
  <2> QED BY <2>1 DEF NodeRef, Pointer, At
<1>5. QuadFits(Q, g[s], P[s].tree)
  BY <1>1, <1>2, <1>3, <1>4 DEF QuadFits
<1>6. Fits(Q, R, W, g[s], P[s])
  BY <1>5 DEF Fits
<1>7. Owned(h[s]) = {} /\ Owned(g[s]) = {n}
  BY <1>2, <1>3, OwnedByTree
<1> QED BY <1>2, <1>6, <1>7, Attach

(* A record is counted.                                                    *)
LEMMA BagSet ==
  ASSUME NEW h, NEW P, NEW R, NEW W, Sound(h, P, R, W),
         NEW c \in DOMAIN P, ~P[c].node, h[c].kind = "leaf", NEW a \in Addresses
  PROVE  Sound([h EXCEPT ![c].bag[a] = @ + 1], P, R, W)
<1> DEFINE g == [h EXCEPT ![c].bag[a] = @ + 1]
<1>1. LeafFits(h[c], P[c].tree)
  BY KindOfContent
<1>2. /\ c \in DOMAIN h /\ DOMAIN g = DOMAIN h
      /\ \A z \in DOMAIN h : z # c => g[z] = h[z]
  BY DEF Sound
<1>3. /\ g[c].kind = "leaf" /\ DOMAIN g[c] = {"kind", "bag"}
      /\ g[c].bag = [h[c].bag EXCEPT ![a] = @ + 1]
  BY <1>1, <1>2 DEF LeafFits
<1>4. g[c].bag \in [Addresses -> Nat]
  BY <1>1, <1>3 DEF LeafFits
<1>5. LeafFits(g[c], P[c].tree)
  BY <1>1, <1>3, <1>4 DEF LeafFits
<1>6. Fits(P, R, W, g[c], P[c])
  BY <1>5 DEF Fits
<1>7. Owned(h[c]) = {}
  BY OwnedByLeaf
<1>8. Adds(h, P, R, W, h, P, Null)
  BY AddsNothing
<1> QED BY <1>2, <1>6, <1>7, <1>8, Attach

-----------------------------------------------------------------------------
(* What the calls under way refer to is not disturbed.                     *)

(* All objects but i stay where they are, and go on having what they had.  *)
Carries(h, P, g, Q, i) ==
  \A x \in DOMAIN P \ {i} :
    /\ x \in DOMAIN Q /\ Q[x] = P[x] /\ g[x].kind = h[x].kind
    /\ h[x].kind = "flat" => DOMAIN h[x].kids \subseteq DOMAIN g[x].kids

LEMMA EntryCarried ==
  ASSUME NEW h, NEW P, NEW g, NEW Q, NEW i, Carries(h, P, g, Q, i),
         NEW x, NEW b, NEW q, EntryFits(h, P, x, b, q), x.o # i
  PROVE  EntryFits(g, Q, x, b, q)
<1>1. x.o \in DOMAIN P \ {i}
  BY DEF EntryFits
<1>2. /\ x.o \in DOMAIN Q /\ Q[x.o] = P[x.o] /\ g[x.o].kind = h[x.o].kind
      /\ h[x.o].kind = "flat" => DOMAIN h[x.o].kids \subseteq DOMAIN g[x.o].kids
  BY <1>1 DEF Carries
<1> QED BY <1>1, <1>2 DEF EntryFits

LEMMA ChildCarried ==
  ASSUME NEW h, NEW P, NEW g, NEW Q, NEW i, Carries(h, P, g, Q, i),
         NEW x, NEW b, NEW q, ChildFits(h, P, x, b, q),
         i \in DOMAIN P => ~Within(P[i].tree, b)
  PROVE  ChildFits(g, Q, x, b, q)
<1>1. CASE x = NoEntry
  BY <1>1 DEF ChildFits
<1>2. CASE x # NoEntry
  <2>1. x.o \in DOMAIN P /\ Within(P[x.o].tree, b) /\ EntryFits(h, P, x, P[x.o].tree, q)
    BY <1>2 DEF ChildFits
  <2>2. x.o # i
    BY <2>1
  <2>3. EntryFits(g, Q, x, P[x.o].tree, q)
    BY <2>1, <2>2, EntryCarried
  <2>4. x.o \in DOMAIN Q /\ Q[x.o] = P[x.o]
    BY <2>1, <2>2 DEF Carries
  <2> QED BY <2>1, <2>3, <2>4 DEF ChildFits
<1> QED BY <1>1, <1>2

(* A call that is not the innermost one is not walking.                    *)
LEMMA CallCarried ==
  ASSUME NEW h, NEW P, NEW g, NEW Q, NEW i, Carries(h, P, g, Q, i),
         NEW call, NEW b, NEW p, CallFits(h, P, call, b, p, FALSE),
         i \in DOMAIN P => P[i].node /\ Len(P[i].tree) # Len(b)
  PROVE  CallFits(g, Q, call, b, p, FALSE)
<1>1. ~call.walking
  BY DEF CallFits
<1>2. i \in DOMAIN P => ~Within(P[i].tree, b) /\ P[i].node /\ P[i].tree # b
  BY DEF Within
<1>3. ASSUME NEW x, NEW q, EntryFits(h, P, x, b, q) PROVE EntryFits(g, Q, x, b, q)
  <2>1. x.o # i
    BY <1>2, <1>3 DEF EntryFits
  <2> QED BY <2>1, <1>3, EntryCarried
<1>4. ASSUME NEW x \in DOMAIN P, ~P[x].node PROVE x \in DOMAIN Q /\ Q[x] = P[x]
  BY <1>2, <1>4 DEF Carries
<1>5. call.s \in DOMAIN Q /\ Q[call.s] = Of(b)
  <2>1. call.s \in DOMAIN P /\ P[call.s] = Of(b)
    BY DEF CallFits
  <2>2. ~P[call.s].node
    BY <2>1 DEF Of
  <2> QED BY <2>1, <2>2, <1>4
<1>6. call.parallel # Null =>
        /\ call.parallel \in DOMAIN Q /\ ~Q[call.parallel].node
        /\ Finer(Q[call.parallel].tree, b)
  BY <1>4 DEF CallFits
<1>7. \A l \in 0 .. call.level : EntryFits(g, Q, call.stack[l], b, Pre(p, l))
  <2> TAKE l \in 0 .. call.level
  <2>1. EntryFits(h, P, call.stack[l], b, Pre(p, l))
    BY <1>1 DEF CallFits
  <2> QED BY <2>1, <1>3
<1>8. ChildFits(g, Q, call.child, b, Pre(p, call.level + 1))
  <2>1. ChildFits(h, P, call.child, b, Pre(p, call.level + 1))
    BY <1>1 DEF CallFits
  <2> QED BY <2>1, <1>2, ChildCarried
<1>9. Kind[Len(b) + 1] = "flat" => EntryFits(g, Q, call.stack[1], b, p)
  <2>1. Kind[Len(b) + 1] = "flat" => EntryFits(h, P, call.stack[1], b, p)
    BY <1>1 DEF CallFits
  <2> QED BY <2>1, <1>3
<1>10. OnPath(g, Q, call, b, p, FALSE)
  <2>1. OnPath(h, P, call, b, p, FALSE)
    BY <1>1 DEF CallFits
  <2> QED BY <2>1, <1>3 DEF OnPath
<1> QED BY <1>1, <1>5, <1>6, <1>7, <1>8, <1>9, <1>10 DEF CallFits

LEMMA NothingCarried ==
  ASSUME NEW h, NEW P, NEW R, NEW W, NEW h1, NEW Q, NEW top, Adds(h, P, R, W, h1, Q, top),
         NEW y \in DOMAIN P, NEW g, \A x \in DOMAIN h1 : x # y => g[x] = h1[x],
         g[y].kind = h[y].kind,
         h[y].kind = "flat" => DOMAIN h[y].kids \subseteq DOMAIN g[y].kids
  PROVE  Carries(h, P, g, Q, Null)
<1> SUFFICES ASSUME NEW x \in DOMAIN P
             PROVE  /\ x \in DOMAIN Q /\ Q[x] = P[x] /\ g[x].kind = h[x].kind
                    /\ h[x].kind = "flat" => DOMAIN h[x].kids \subseteq DOMAIN g[x].kids
  BY DEF Carries
<1>1. x \in DOMAIN Q /\ Q[x] = P[x] /\ x \in DOMAIN h1 /\ h1[x] = h[x]
  BY DEF Adds, Extends
<1> QED BY <1>1

LEMMA SetKidCarries ==
  ASSUME NEW h, NEW P, NEW R, NEW W, NEW h1, NEW Q, NEW top, Adds(h, P, R, W, h1, Q, top),
         NEW y \in DOMAIN P, Branches(h[y]), NEW k, NEW r
  PROVE  Carries(h, P, SetKid(h1, y, k, r), Q, Null)
<1> DEFINE g == SetKid(h1, y, k, r)
<1>1. y \in DOMAIN h1 /\ h1[y] = h[y]
  BY DEF Adds, Extends
<1>2. /\ \A x \in DOMAIN h1 : x # y => g[x] = h1[x]
      /\ g[y].kind = h[y].kind /\ g[y].kids = Put(h[y].kids, k, r)
  BY <1>1 DEF SetKid, Branches
<1>3. DOMAIN h[y].kids \subseteq DOMAIN g[y].kids
  BY <1>2 DEF Put
<1> HIDE DEF g
<1>4. Carries(h, P, g, Q, Null)
  BY <1>2, <1>3, NothingCarried
<1> QED BY <1>4 DEF g

LEMMA SetHolderCarries ==
  ASSUME NEW h, NEW P, NEW R, NEW W, NEW h1, NEW Q, NEW top, Adds(h, P, R, W, h1, Q, top),
         NEW x, x.o \in DOMAIN P, Branches(h[x.o]), NEW r
  PROVE  Carries(h, P, SetHolder(h1, x, r), Q, Null)
<1>1. CASE x.e = Self
  <2> DEFINE g == SetHolder(h1, x, r)
  <2>1. x.o \in DOMAIN h1 /\ h1[x.o] = h[x.o]
    BY DEF Adds, Extends
  <2>2. /\ \A z \in DOMAIN h1 : z # x.o => g[z] = h1[z]
        /\ g[x.o].kind = h[x.o].kind /\ g[x.o].kids = h[x.o].kids
    BY <2>1, <1>1 DEF SetHolder, Branches
  <2> HIDE DEF g
  <2>3. Carries(h, P, g, Q, Null)
    BY <2>2, NothingCarried
  <2> QED BY <2>3 DEF g
<1>2. CASE x.e # Self
  BY <1>2, SetKidCarries DEF SetHolder
<1> QED BY <1>1, <1>2

=============================================================================
