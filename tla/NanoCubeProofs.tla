--------------------------- MODULE NanoCubeProofs ---------------------------
(***************************************************************************)
(* Ownership in the in-memory cube, for every schema, every set of         *)
(* addresses and every number of records: as long as no assert of the      *)
(* insertion fails, no pointer dangles between insertions, every object    *)
(* has exactly one owner, a node with one child shares the summary of that *)
(* child, no bin answers with a record of another bin or with one more     *)
(* often than it was inserted, and destroying the cube frees each object   *)
(* once.                                                                   *)
(***************************************************************************)
EXTENDS CubeWalkProofs

-----------------------------------------------------------------------------
(* A content of its own.                                                   *)

FreeContent(P, b, q) == \A x \in DOMAIN P : ~UnderContent(P[x], b, q)

LEMMA OfIs ==
  ASSUME NEW b \in Bin
  PROVE  Of(b) \in Spots /\ ~Of(b).node /\ Of(b).tree = b
<1>1. Of(b) \in { Of(c) : c \in Bin }
  OBVIOUS
<1>2. Of(b) \in Spots
  BY <1>1 DEF Spots
<1>3. ~Of(b).node /\ Of(b).tree = b
  BY DEF Of
<1> QED BY <1>2, <1>3

LEMMA UnderAppend ==
  ASSUME NEW b \in Bin, NEW q \in Path, NEW spot, spot.tree = Append(b, q)
  PROVE  UnderContent(spot, b, q)
<1>1. /\ Len(Append(b, q)) = Len(b) + 1 /\ Append(b, q)[Len(b) + 1] = q
      /\ \A i \in 1 .. Len(b) : Append(b, q)[i] = b[i]
  BY AppendIs DEF Bin
<1>2. Len(b) \in Nat
  BY DEF Bin
<1> QED BY <1>1, <1>2 DEF UnderContent

LEMMA FreeSpots ==
  ASSUME NEW P, NEW b \in Bin, NEW q \in Path, FreeContent(P, b, q)
  PROVE  /\ Append(b, q) \in Bin /\ Len(Append(b, q)) = Len(b) + 1
         /\ FreeSpot(P, Of(Append(b, q))) /\ FreeSpot(P, At(Append(b, q), <<>>))
<1>1. PICK B : B = Append(b, q)
  OBVIOUS
<1>2. B \in Bin /\ Len(B) = Len(b) + 1
  BY <1>1, AppendIs DEF Bin
<1>3. <<>> \in Path
  BY DEF Path
<1>4. Of(B) \in Spots /\ Of(B).tree = B
  BY <1>2, OfIs
<1>5. At(B, <<>>) \in Spots /\ At(B, <<>>).tree = B
  BY <1>2, <1>3, AtIs
<1>6. \A x \in DOMAIN P : P[x] # Of(B) /\ P[x] # At(B, <<>>)
  <2> TAKE x \in DOMAIN P
  <2>1. P[x].tree # B
    BY <1>1, UnderAppend DEF FreeContent
  <2> QED BY <2>1, <1>4, <1>5
<1> QED BY <1>1, <1>2, <1>4, <1>5, <1>6 DEF FreeSpot

ContentMade(h, P, R, W, h1, i, B) ==
  \E Q : /\ Adds(h, P, R, W, h1, Q, i) /\ i \in DOMAIN Q \ DOMAIN P /\ Q[i] = Of(B)
         /\ \A x \in DOMAIN Q \ DOMAIN P : PlaceOf(Q[x]) = <<B, <<>>>>

LEMMA OneContent ==
  ASSUME NEW h, NEW P, NEW R, NEW W, Sound(h, P, R, W),
         NEW b \in Bin, NEW q \in Path, FreeContent(P, b, q), NEW B, B = Append(b, q),
         NEW object, QuadFits(P, object, B) \/ FlatFits(P, object, B) \/ LeafFits(object, B)
  PROVE  ContentMade(h, P, R, W, Allocate(h, object), Fresh(h), B)
<1>1. B \in Bin /\ FreeSpot(P, Of(B))
  BY FreeSpots
<1>2. ~Of(B).node /\ Of(B).tree = B
  BY <1>1, OfIs
<1>3. Fits(P, R, W, object, Of(B))
  BY <1>2 DEF Fits
<1>4. PICK i, Q : i = Fresh(h) /\ Q = Put(P, i, Of(B))
  OBVIOUS
<1>5. Adds(h, P, R, W, Allocate(h, object), Q, i) /\ PlacedAt(Q, P, i, Of(B))
  BY <1>1, <1>3, <1>4, AddsCopy
<1>6. PlaceOf(Of(B)) = <<B, <<>>>>
  BY DEF PlaceOf, Of
<1>7. \A x \in DOMAIN Q \ DOMAIN P : PlaceOf(Q[x]) = <<B, <<>>>>
  BY <1>5, <1>6 DEF PlacedAt
<1> QED BY <1>4, <1>5, <1>7 DEF ContentMade, PlacedAt

LEMMA EmptyBranches ==
  /\ Branches(FlatTree) /\ DOMAIN FlatTree.kids = {}
  /\ FlatTree.self = NoContent /\ FlatTree.kind = "flat"
<1>1. DOMAIN <<>> = {}
  OBVIOUS
<1>2. FlatTree.kids = <<>> /\ FlatTree.self = NoContent /\ FlatTree.kind = "flat"
  BY DEF FlatTree
<1>3. FlatTree.kids \in [DOMAIN FlatTree.kids -> [c : Nat, proper : BOOLEAN]]
  BY <1>1, <1>2
<1>4. DOMAIN FlatTree = {"kind", "self", "kids"}
  BY DEF FlatTree
<1> QED BY <1>1, <1>2, <1>3, <1>4 DEF Branches

LEMMA NewContentFits ==
  ASSUME DimsAssumption, NEW P, NEW b \in Bin, Len(b) + 1 \in Dims, NEW B \in Bin, Len(B) = Len(b) + 1,
         NEW object, object = NewContent(Len(B) + 1)
  PROVE  QuadFits(P, object, B) \/ FlatFits(P, object, B) \/ LeafFits(object, B)
<1>1. Len(b) \in Nat /\ Len(B) \in Nat
  BY DEF Bin
<1>2. Len(Kind) \in Nat \ {0} /\ Dims = 1 .. Len(Kind)
  BY DimsAre
<1>3. CASE Len(B) + 1 \notin Dims
  <2>1. object = Leaf
    BY <1>3 DEF NewContent
  <2>2. Len(B) = Len(Kind)
    BY <1>1, <1>2, <1>3
  <2>3. object.kind = "leaf" /\ DOMAIN object = {"kind", "bag"} /\ object.bag \in [Addresses -> Nat]
    BY <2>1 DEF Leaf
  <2> QED BY <2>2, <2>3 DEF LeafFits
<1>4. CASE Len(B) + 1 \in Dims /\ Kind[Len(B) + 1] = "flat"
  <2>1. object = FlatTree
    BY <1>4 DEF NewContent
  <2>2. NoContent \in [c : Nat, proper : BOOLEAN] /\ ~NoContent.proper
    BY DEF NoContent, Holder, Null
  <2>3. HolderFits(P, NoContent, Append(B, <<>>))
    BY <2>2 DEF HolderFits
  <2> QED BY <1>4, <2>1, <2>2, <2>3, EmptyBranches DEF FlatFits
<1>5. CASE Len(B) + 1 \in Dims /\ Kind[Len(B) + 1] # "flat"
  <2>1. object = QuadTree /\ Kind[Len(B) + 1] = "quad"
    BY <1>5, DimsAre DEF NewContent
  <2>2. DOMAIN object = {"kind", "root"} /\ object.root = Null /\ object.kind = "quad" /\ object.root \in Nat
    BY <2>1 DEF QuadTree, Null
  <2> QED BY <1>5, <2>1, <2>2 DEF QuadFits
<1> QED BY <1>3, <1>4, <1>5

FiniteHeap(h) == IsFiniteSet(DOMAIN h) /\ DOMAIN h \subseteq Nat \ {0}
Allocated(h, i, object, g) ==
  /\ i \notin DOMAIN h /\ i \in Nat \ {0}
  /\ DOMAIN g = DOMAIN h \cup {i} /\ g[i] = object
  /\ \A x \in DOMAIN h : g[x] = h[x]
  /\ FiniteHeap(g)

LEMMA AllocateAs ==
  ASSUME NEW h, FiniteHeap(h),
         NEW i, i = Fresh(h), NEW object, NEW g, g = Allocate(h, object)
  PROVE  Allocated(h, i, object, g)
<1>0. IsFiniteSet(DOMAIN h) /\ DOMAIN h \subseteq Nat \ {0}
  BY DEF FiniteHeap
<1>1. i \notin DOMAIN h /\ i \in Nat \ {0}
  BY <1>0, FreshIs
<1>2. g = Put(h, i, object)
  BY DEF Allocate
<1>3. /\ DOMAIN g = DOMAIN h \cup {i} /\ g[i] = object
      /\ \A x \in DOMAIN h : g[x] = h[x]
  BY <1>1, <1>2 DEF Put
<1>4. IsFiniteSet(DOMAIN h \cup {i})
  BY <1>0, FS_AddElement
<1> QED BY <1>0, <1>1, <1>3, <1>4 DEF Allocated, FiniteHeap

(* The copy of a tree that has nodes: a tree, and a node that shares all.  *)
TreeCopy(h1, node, copy, tree) == [Allocate(h1, copy) EXCEPT ![tree].root = node]

LEMMA TreeCopied ==
  ASSUME DimsAssumption, NEW h, NEW P, NEW R, NEW W, Sound(h, P, R, W),
         NEW b \in Bin, NEW q \in Path, FreeContent(P, b, q), NEW B, B = Append(b, q),
         Len(B) + 1 \in Dims, Kind[Len(B) + 1] = "quad",
         NEW copy, NodeFits(P, R, W, copy, B, <<>>),
         NEW tree, tree = Fresh(h), NEW h1, h1 = Allocate(h, QuadTree),
         NEW node, node = Fresh(h1)
  PROVE  ContentMade(h, P, R, W, TreeCopy(h1, node, copy, tree), tree, B)
<1>1. /\ B \in Bin /\ Of(B) \in Spots /\ At(B, <<>>) \in Spots
      /\ \A x \in DOMAIN P : P[x] # Of(B) /\ P[x] # At(B, <<>>)
  BY FreeSpots DEF FreeSpot
<1>2. /\ ~Of(B).node /\ Of(B).tree = B
      /\ At(B, <<>>).node /\ At(B, <<>>).tree = B /\ At(B, <<>>).path = <<>>
  BY DEF Of, At
<1>3. /\ IsFiniteSet(DOMAIN h) /\ DOMAIN h \subseteq Nat \ {0} /\ DOMAIN h = DOMAIN P
      /\ P \in [DOMAIN P -> Spots]
  BY DEF Sound, Null
<1>4. /\ tree \notin DOMAIN h /\ tree \in Nat \ {0}
      /\ DOMAIN h1 = DOMAIN h \cup {tree} /\ h1[tree] = QuadTree
      /\ \A x \in DOMAIN h : h1[x] = h[x]
      /\ IsFiniteSet(DOMAIN h1) /\ DOMAIN h1 \subseteq Nat \ {0} /\ FiniteHeap(h1)
  <2>1. FiniteHeap(h)
    BY <1>3 DEF FiniteHeap
  <2>2. Allocated(h, tree, QuadTree, h1)
    BY <2>1, AllocateAs
  <2> QED BY <2>2 DEF Allocated, FiniteHeap
<1>5. PICK g : g = TreeCopy(h1, node, copy, tree)
  OBVIOUS
<1>6. node \notin DOMAIN h1 /\ node \in Nat \ {0}
  BY <1>4, FreshIs
<1>7. /\ DOMAIN g = DOMAIN h \cup {tree, node} /\ g[node] = copy
      /\ g[tree] = [h1[tree] EXCEPT !.root = node]
      /\ \A x \in DOMAIN h : g[x] = h[x]
      /\ IsFiniteSet(DOMAIN g) /\ DOMAIN g \subseteq Nat \ {0}
  <2>1. PICK k : k = Allocate(h1, copy)
    OBVIOUS
  <2>2. /\ DOMAIN k = DOMAIN h1 \cup {node} /\ k[node] = copy
        /\ \A x \in DOMAIN h1 : k[x] = h1[x]
        /\ IsFiniteSet(DOMAIN k)
    <3>1. Allocated(h1, node, copy, k)
      BY <2>1, <1>4, AllocateAs
    <3> QED BY <3>1 DEF Allocated, FiniteHeap
  <2>3. g = [k EXCEPT ![tree].root = node]
    BY <1>5, <2>1 DEF TreeCopy
  <2>4. DOMAIN g = DOMAIN h \cup {tree, node} /\ tree # node
    BY <2>2, <2>3, <1>4, <1>6
  <2>5. DOMAIN g = DOMAIN k
    BY <2>3
  <2> QED BY <2>2, <2>3, <2>4, <2>5, <1>3, <1>4, <1>6
<1>8. PICK Q : Q = [x \in DOMAIN g |-> IF x = tree THEN Of(B) ELSE IF x = node THEN At(B, <<>>) ELSE P[x]]
  OBVIOUS
<1>9. tree # node /\ node \notin DOMAIN h /\ tree \notin DOMAIN P /\ node \notin DOMAIN P
  BY <1>3, <1>4, <1>6
<1>10. /\ DOMAIN Q = DOMAIN g /\ Q[tree] = Of(B) /\ Q[node] = At(B, <<>>)
       /\ \A x \in DOMAIN P : Q[x] = P[x]
       /\ DOMAIN Q \ DOMAIN P = {tree, node}
  BY <1>3, <1>7, <1>8, <1>9
<1>11. Extends(Q, P)
  BY <1>3, <1>7, <1>10 DEF Extends
<1>12. Q \in [DOMAIN Q -> Spots]
  <2>1. \A x \in DOMAIN Q : Q[x] \in Spots
    BY <1>1, <1>3, <1>7, <1>10
  <2>2. Q = [x \in DOMAIN Q |-> Q[x]]
    BY <1>8, <1>10
  <2> QED BY <2>1, <2>2
<1>13. \A x \in DOMAIN Q \ DOMAIN P, y \in DOMAIN Q : Q[x] = Q[y] => x = y
  <2>1. Of(B) # At(B, <<>>)
    BY <1>2
  <2> QED BY <2>1, <1>1, <1>3, <1>7, <1>10
<1>14. g[tree] = [kind |-> "quad", root |-> node]
  BY <1>4, <1>7 DEF QuadTree
<1>15. Fits(Q, R, W, g[tree], Q[tree])
  <2>1. Pointer(node, TRUE).c = node /\ Pointer(node, TRUE).proper = TRUE
    BY DEF Pointer
  <2>2. Within(B, B)
    BY <1>1, WithinItself
  <2>3. node \in DOMAIN Q /\ Q[node].node /\ Q[node].path = <<>> /\ Q[node].tree = B
    BY <1>2, <1>10, <1>7
  <2>4. NodeRef(Q, Pointer(node, TRUE), B, <<>>)
    BY <2>1, <2>2, <2>3 DEF NodeRef
  <2>5. g[tree].root = node /\ g[tree].kind = "quad" /\ DOMAIN g[tree] = {"kind", "root"}
    BY <1>14
  <2>6. QuadFits(Q, g[tree], B)
    BY <2>4, <2>5, <1>6 DEF QuadFits
  <2> QED BY <2>6, <1>2, <1>10 DEF Fits
<1>16. Fits(Q, R, W, g[node], Q[node])
  <2>1. Fits(P, R, W, copy, At(B, <<>>))
    BY <1>2 DEF Fits
  <2>2. Fits(Q, R, W, copy, At(B, <<>>))
    BY <2>1, <1>11, FitsStill
  <2> QED BY <2>2, <1>7, <1>10
<1>17. node \in Owned(g[tree])
  <2>1. g[tree].kind = "quad" /\ g[tree].root = node
    BY <1>14
  <2> QED BY <2>1, <1>6, OwnedByTree DEF Null
<1>18. Adds(h, P, R, W, g, Q, tree)
  <2>1. DOMAIN g = DOMAIN Q /\ IsFiniteSet(DOMAIN Q) /\ DOMAIN Q \subseteq Nat \ {Null}
    BY <1>7, <1>10 DEF Null
  <2>2. \A x \in DOMAIN P : g[x] = h[x]
    BY <1>3, <1>7
  <2>3. \A x \in DOMAIN Q \ DOMAIN P : Fits(Q, R, W, g[x], Q[x])
    BY <1>10, <1>15, <1>16
  <2>4. \A x \in DOMAIN Q \ DOMAIN P :
          x = tree \/ \E y \in DOMAIN Q \ DOMAIN P : x \in Owned(g[y])
    BY <1>10, <1>17
  <2> QED BY <2>1, <2>2, <2>3, <2>4, <1>11, <1>12, <1>13 DEF Adds
<1>19. PlaceOf(Of(B)) = <<B, <<>>>> /\ PlaceOf(At(B, <<>>)) = <<B, <<>>>>
  BY DEF PlaceOf, Of, At
<1>20. \A x \in DOMAIN Q \ DOMAIN P : PlaceOf(Q[x]) = <<B, <<>>>>
  BY <1>10, <1>19
<1> QED BY <1>5, <1>10, <1>18, <1>20 DEF ContentMade

LEMMA LazyCopyIs ==
  ASSUME DimsAssumption, NEW h, NEW P, NEW R, NEW W, Sound(h, P, R, W),
         NEW b \in Bin, NEW q \in Path, FreeContent(P, b, q), NEW B, B = Append(b, q),
         NEW c \in DOMAIN P, ~P[c].node, Within(P[c].tree, B), Upward(W, P[c].tree, B)
  PROVE  ContentMade(h, P, R, W, LazyCopy(h, c), Fresh(h), B)
<1>0. PICK C : C = P[c].tree
  OBVIOUS
<1>1. B \in Bin /\ C \in Bin /\ Within(C, B) /\ P[c] = Of(C)
  BY <1>0, FreeSpots, SpotIs
<1>2. /\ h[c].kind = "quad" => QuadFits(P, h[c], C)
      /\ h[c].kind = "flat" => FlatFits(P, h[c], C)
      /\ h[c].kind = "leaf" => LeafFits(h[c], C)
      /\ h[c].kind \in {"quad", "flat", "leaf"}
  BY <1>0, KindOfContent
<1>3. Coarser(C, B)
  <2>1. C # B
    BY <1>1, FreeSpots DEF FreeSpot
  <2> QED BY <2>1, <1>1 DEF Coarser
<1>4. Len(C) = Len(B) /\ P \in [DOMAIN P -> Spots]
  BY <1>1 DEF Within, Sound
<1>5. CASE h[c].kind = "leaf"
  <2>1. LeafFits(h[c], B)
    BY <1>2, <1>4, <1>5 DEF LeafFits
  <2>2. LazyCopy(h, c) = Allocate(h, h[c])
    BY <1>5 DEF LazyCopy
  <2>3. ContentMade(h, P, R, W, Allocate(h, h[c]), Fresh(h), B)
    BY <2>1, OneContent
  <2> QED BY <2>2, <2>3
<1>6. CASE h[c].kind = "flat"
  <2>1. FlatFits(P, SharingCopy(h[c]), B)
    BY <1>1, <1>2, <1>4, <1>6, FlatCopyFits
  <2>2. LazyCopy(h, c) = Allocate(h, SharingCopy(h[c]))
    BY <1>6 DEF LazyCopy
  <2>3. ContentMade(h, P, R, W, Allocate(h, SharingCopy(h[c])), Fresh(h), B)
    BY <2>1, OneContent
  <2> QED BY <2>2, <2>3
<1>7. CASE h[c].kind = "quad"
  <2>1. QuadFits(P, h[c], C)
    BY <1>2, <1>7
  <2>2. Len(B) + 1 \in Dims /\ Kind[Len(B) + 1] = "quad"
    BY <2>1, <1>4 DEF QuadFits
  <2>3. CASE h[c].root = Null
    <3>1. LazyCopy(h, c) = Allocate(h, QuadTree)
      BY <1>7, <2>3 DEF LazyCopy
    <3>2. QuadFits(P, QuadTree, B)
      BY <2>2 DEF QuadFits, QuadTree, Null
    <3>3. ContentMade(h, P, R, W, Allocate(h, QuadTree), Fresh(h), B)
      BY <3>2, OneContent
    <3> QED BY <3>1, <3>3
  <2>4. CASE h[c].root # Null
    <3>1. PICK n, tree, h1, node :
            /\ n = h[c].root /\ tree = Fresh(h) /\ h1 = Allocate(h, QuadTree)
            /\ node = Fresh(h1)
      OBVIOUS
    <3>2. n \in DOMAIN P /\ P[n].node /\ P[n].path = <<>> /\ P[n].tree = C
      <4>1. NodeRef(P, Pointer(n, TRUE), C, <<>>)
        BY <2>1, <2>4, <3>1 DEF QuadFits
      <4> QED BY <4>1 DEF NodeRef, Pointer
    <3>3. NodeFits(P, R, W, h[n], C, <<>>)
      BY <3>2, SpotOfNode
    <3>4. <<>> \in Path
      BY DEF Path
    <3>5. Upward(W, C, B)
      BY <1>0
    <3>6. NodeFits(P, R, W, SharingCopy(h[n]), B, <<>>)
      BY <1>3, <1>4, <3>3, <3>4, <3>5, NodeCopyFits
    <3>7. ContentMade(h, P, R, W, TreeCopy(h1, node, SharingCopy(h[n]), tree), tree, B)
      BY <2>2, <3>1, <3>6, TreeCopied
    <3>8. LazyCopy(h, c) = TreeCopy(h1, node, SharingCopy(h[n]), tree)
      BY <1>7, <2>4, <3>1, Zenon DEF LazyCopy, TreeCopy
    <3> QED BY <3>1, <3>7, <3>8
  <2> QED BY <2>3, <2>4
<1> QED BY <1>2, <1>5, <1>6, <1>7

LEMMA EntryHolder ==
  ASSUME NEW h, NEW P, NEW R, NEW W, Sound(h, P, R, W),
         NEW x, NEW b, NEW q, EntryFits(h, P, x, b, q)
  PROVE  HolderFits(P, HolderOf(h, x), Append(b, q))
<1>1. /\ IF P[x.o].node
         THEN NodeFits(P, R, W, h[x.o], b, q) /\ x.e = Self
         ELSE /\ FlatFits(P, h[x.o], b)
              /\ \/ x.e = Self /\ q = <<>>
                 \/ x.e # Self /\ x.e \in DOMAIN h[x.o].kids /\ q = <<x.e>>
  BY EntryKind
<1>2. CASE P[x.o].node
  BY <1>1, <1>2 DEF NodeFits, HolderOf
<1>3. CASE ~P[x.o].node /\ x.e = Self /\ q = <<>>
  BY <1>1, <1>3 DEF FlatFits, HolderOf
<1>4. CASE ~P[x.o].node /\ x.e # Self /\ x.e \in DOMAIN h[x.o].kids /\ q = <<x.e>>
  BY <1>1, <1>4 DEF FlatFits, HolderOf
<1> QED BY <1>1, <1>2, <1>3, <1>4

LEMMA VacantContent ==
  ASSUME Self \notin Names, NEW h, NEW P, NEW R, NEW W, Sound(h, P, R, W),
         NEW b \in Bin, NEW q \in Path,
         NEW x, EntryFits(h, P, x, b, q), ~HolderOf(h, x).proper
  PROVE  FreeContent(P, b, q)
<1>1. \A c \in DOMAIN P : P[c] # Of(Append(b, q))
  BY Vacant
<1>2. ASSUME NEW y \in DOMAIN P PROVE ~UnderContent(P[y], b, q)
  BY <1>1, NothingWithin
<1> QED BY <1>2 DEF FreeContent

UpwardAll(W, b) == \A c \in Bin : Within(c, b) => Upward(W, c, b)

(* The heap g in which entry x owns its content.                           *)
OwnsContent(h, P, R, W, g, x, B) ==
  \E Q : /\ Sound(g, Q, R, W) /\ Carries(h, P, g, Q, Null)
         /\ HolderOf(g, x).c \in DOMAIN Q /\ Q[HolderOf(g, x).c] = Of(B)
         /\ Kept(h, P, g, Q, {PlaceOf(P[x.o]), <<B, <<>>>>})
         /\ x.e = Self => g[x.o].kids = h[x.o].kids

LEMMA HolderIsSet ==
  ASSUME NEW h, NEW x, x.o \in DOMAIN h, Branches(h[x.o]), NEW r
  PROVE  HolderOf(SetHolder(h, x, r), x) = r
<1>1. DOMAIN h[x.o] = {"kind", "self", "kids"}
  BY DEF Branches
<1>2. CASE x.e = Self
  <2>1. SetHolder(h, x, r) = [h EXCEPT ![x.o].self = r]
    BY <1>2 DEF SetHolder
  <2>2. SetHolder(h, x, r)[x.o].self = r
    BY <1>1, <2>1
  <2> QED BY <2>2, <1>2 DEF HolderOf
<1>3. CASE x.e # Self
  <2>1. SetHolder(h, x, r) = [h EXCEPT ![x.o].kids = Put(@, x.e, r)]
    BY <1>3 DEF SetHolder, SetKid
  <2>2. SetHolder(h, x, r)[x.o].kids = Put(h[x.o].kids, x.e, r)
    BY <1>1, <2>1
  <2>3. SetHolder(h, x, r)[x.o].kids[x.e] = r
    BY <2>2 DEF Put
  <2> QED BY <2>3, <1>3 DEF HolderOf
<1> QED BY <1>2, <1>3

LEMMA ContentTaken ==
  ASSUME NEW h, NEW P, NEW R, NEW W, Sound(h, P, R, W),
         NEW b \in Bin, NEW q \in Path, NEW B, B = Append(b, q),
         NEW x, EntryFits(h, P, x, b, q), ~HolderOf(h, x).proper, MayOwn(h, x),
         NEW h1, NEW i, ContentMade(h, P, R, W, h1, i, B)
  PROVE  OwnsContent(h, P, R, W, SetHolder(h1, x, Holder(i, TRUE)), x, B)
<1>1. PICK Q : /\ Adds(h, P, R, W, h1, Q, i) /\ i \in DOMAIN Q \ DOMAIN P /\ Q[i] = Of(B)
               /\ \A y \in DOMAIN Q \ DOMAIN P : PlaceOf(Q[y]) = <<B, <<>>>>
  BY DEF ContentMade
<1>2. PICK r : r = Holder(i, TRUE)
  OBVIOUS
<1>3. B \in Bin /\ Len(B) = Len(b) + 1
  BY AppendIs DEF Bin
<1>4. r.c = i /\ r.proper = TRUE /\ r \in [c : Nat, proper : BOOLEAN]
  <2>1. i \in Nat
    BY <1>1 DEF Adds
  <2> QED BY <2>1, <1>2 DEF Holder
<1>5. HolderFits(Q, r, B)
  BY <1>1, <1>3, <1>4, OfIs, WithinItself DEF HolderFits
<1>6. HolderFits(Q, r, Append(b, q)) /\ Adds(h, P, R, W, h1, Q, r.c)
  BY <1>1, <1>4, <1>5
<1>7. /\ r.c \in DOMAIN Q \ DOMAIN P => r.proper
      /\ r.proper => MayOwn(h, x)
  BY <1>4
<1>8. Sound(SetHolder(h1, x, r), Q, R, W)
  BY <1>6, <1>7, HolderSet
<1>9. x.o \in DOMAIN P /\ Branches(h[x.o])
  BY EntryKind
<1>10. Carries(h, P, SetHolder(h1, x, r), Q, Null)
  BY <1>1, <1>9, SetHolderCarries
<1>11. x.o \in DOMAIN h1 /\ Branches(h1[x.o])
  BY <1>1, <1>9 DEF Adds, Extends
<1>12. HolderOf(SetHolder(h1, x, r), x) = r
  BY <1>11, HolderIsSet
<1>13. Kept(h, P, SetHolder(h1, x, r), Q, {PlaceOf(P[x.o]), <<B, <<>>>>})
  <2>1. PICK g : g = SetHolder(h1, x, r)
    OBVIOUS
  <2>2. PICK V : V = {PlaceOf(P[x.o]), <<B, <<>>>>}
    OBVIOUS
  <2>3. Kept(h, P, h1, Q, V)
    BY <1>1, <2>2, AddsKept
  <2>4. Q[x.o] = P[x.o] /\ DOMAIN h1 = DOMAIN Q
    BY <1>1, <1>9 DEF Adds, Extends
  <2>5. \A y \in DOMAIN Q : y # x.o => g[y] = h1[y]
    BY <2>1, <2>4 DEF SetHolder, SetKid
  <2>6. Kept(h, P, g, Q, V)
    BY <2>2, <2>3, <2>4, <2>5, OneKept
  <2> QED BY <2>1, <2>2, <2>6
<1>14. x.e = Self => SetHolder(h1, x, r)[x.o].kids = h[x.o].kids
  <2>1. h1[x.o] = h[x.o]
    BY <1>1, <1>9 DEF Adds
  <2> QED BY <2>1, <1>11 DEF SetHolder, Branches
<1> QED BY <1>1, <1>2, <1>4, <1>8, <1>10, <1>12, <1>13, <1>14 DEF OwnsContent

LEMMA OwnContentIs ==
  ASSUME DimsAssumption, NEW h, NEW P, NEW R, NEW W, Sound(h, P, R, W),
         NEW b \in Bin, NEW q \in Path, NEW B, B = Append(b, q),
         NEW x, EntryFits(h, P, x, b, q), MayOwn(h, x), UpwardAll(W, B),
         NEW d, d = Len(B) + 1, NEW g, g = OwnContent(h, x, d)
  PROVE  OwnsContent(h, P, R, W, g, x, B)
<1>1. PICK r : r = HolderOf(h, x)
  OBVIOUS
<1>2. Self \notin Names /\ Null \notin DOMAIN P
  BY NoNameIsSelf DEF Sound
<1>3. HolderFits(P, r, B)
  BY <1>1, EntryHolder
<1>4. Len(b) + 1 \in Dims
  BY EntryKind
<1>5. B \in Bin /\ Len(B) = Len(b) + 1
  BY AppendIs DEF Bin
<1>6. CASE r.c = Null
  <2>1. ~r.proper
    BY <1>2, <1>3, <1>6 DEF HolderFits, NoContent, Holder
  <2>2. ~HolderOf(h, x).proper
    BY <1>1, <2>1
  <2>3. FreeContent(P, b, q)
    BY <1>2, <2>2, VacantContent
  <2>4. PICK object : object = NewContent(d)
    OBVIOUS
  <2>5. QuadFits(P, object, B) \/ FlatFits(P, object, B) \/ LeafFits(object, B)
    BY <2>4, <1>4, <1>5, NewContentFits
  <2>6. ContentMade(h, P, R, W, Allocate(h, object), Fresh(h), B)
    BY <2>3, <2>5, OneContent
  <2>7. OwnsContent(h, P, R, W, SetHolder(Allocate(h, object), x, Holder(Fresh(h), TRUE)), x, B)
    BY <2>2, <2>6, ContentTaken
  <2>8. g = SetHolder(Allocate(h, object), x, Holder(Fresh(h), TRUE))
    BY <1>1, <1>6, <2>4 DEF OwnContent
  <2> QED BY <2>7, <2>8
<1>7. CASE r.c # Null /\ r.proper
  <2>1. g = h
    BY <1>1, <1>7 DEF OwnContent
  <2>2. r.c \in DOMAIN P /\ ~P[r.c].node /\ P[r.c].tree = B
    BY <1>3, <1>7 DEF HolderFits, NoContent, Holder
  <2>3. P[r.c] = Of(B)
    <3>1. PICK c : c = r.c
      OBVIOUS
    <3>2. c \in DOMAIN P /\ ~P[c].node /\ P[c].tree = B
      BY <2>2, <3>1
    <3>3. P[c] = Of(P[c].tree)
      BY <3>2, SpotIs
    <3> QED BY <3>1, <3>2, <3>3
  <2>4. Carries(h, P, h, P, Null)
    BY DEF Carries
  <2> QED BY <1>1, <2>1, <2>2, <2>3, <2>4, KeptSame DEF OwnsContent
<1>8. CASE r.c # Null /\ ~r.proper
  <2>1. r.c \in DOMAIN P /\ ~P[r.c].node /\ Within(P[r.c].tree, B)
    BY <1>3, <1>8 DEF HolderFits, NoContent, Holder
  <2>2. ~HolderOf(h, x).proper
    BY <1>1, <1>8
  <2>3. FreeContent(P, b, q)
    BY <1>2, <2>2, VacantContent
  <2>4. P[r.c].tree \in Bin
    BY <2>1, SpotIs
  <2>5. Upward(W, P[r.c].tree, B)
    BY <2>1, <2>4 DEF UpwardAll
  <2>6. ContentMade(h, P, R, W, LazyCopy(h, r.c), Fresh(h), B)
    BY <2>1, <2>3, <2>5, LazyCopyIs
  <2>7. OwnsContent(h, P, R, W, SetHolder(LazyCopy(h, r.c), x, Holder(Fresh(h), TRUE)), x, B)
    BY <2>2, <2>6, ContentTaken
  <2>8. g = SetHolder(LazyCopy(h, r.c), x, Holder(Fresh(h), TRUE))
    BY <1>1, <1>8 DEF OwnContent
  <2> QED BY <2>7, <2>8
<1> QED BY <1>6, <1>7, <1>8

-----------------------------------------------------------------------------
(* The way up: a call that is not walking.                                 *)

Rises(call, parent) == [call EXCEPT !.level = @ - 1, !.child = parent]
On(st, g, parent) == OnCall(OnHeap(st, g), Rises(st.calls[st.d], parent))

(* Where the call is: at the l-th entry of path p in the tree of b.        *)
RiseIs(h, P, call, parent, d, l, b, p) ==
  /\ d \in Dims /\ d \in 1 .. Len(Kind) /\ d \in Nat \ {0}
  /\ b \in Bin /\ Len(b) = d - 1 /\ Len(b) + 1 = d
  /\ p \in Path /\ Len(p) \in Nat \ {0} /\ Len(p) = Depth(d)
  /\ l \in 0 .. Len(p) /\ Pre(p, l) \in Path /\ Len(Pre(p, l)) = l
  /\ EntryFits(h, P, parent, b, Pre(p, l))
  /\ ChildFits(h, P, call.child, b, Pre(p, l + 1))
  /\ Kind[d] = "flat" => Len(p) = 1 /\ EntryFits(h, P, call.stack[1], b, p)

LEMMA CallInner ==
  ASSUME NEW h, NEW P, NEW call, NEW b, NEW p, CallFits(h, P, call, b, p, FALSE)
  PROVE  CallFits(h, P, call, b, p, TRUE)
BY DEF CallFits, OnPath

(* All calls are on their way up.                                          *)
LEMMA OuterGoing ==
  ASSUME DimsAssumption, NEW a, NEW st, NEW P, Shape(st),
         Sound(st.heap, P, st.replaced, Ahead(st, a)), Outer(st.heap, P, st, a, st.d)
  PROVE  Going(st, P, a)
<1>1. \A j \in 1 .. st.d : CallFits(st.heap, P, st.calls[j], Here(st, a, j), a[j], j = st.d)
  <2> TAKE j \in 1 .. st.d
  <2>1. CallFits(st.heap, P, st.calls[j], Here(st, a, j), a[j], FALSE)
    BY DEF Outer
  <2>2. CASE j = st.d
    <3>1. (j = st.d) = TRUE
      BY <2>2
    <3> QED BY <3>1, <2>1, CallInner
  <2>3. CASE j # st.d
    <3>1. (j = st.d) = FALSE
      BY <2>3
    <3> QED BY <3>1, <2>1
  <2> QED BY <2>2, <2>3
<1> QED BY <1>1 DEF Going, Shape

LEMMA GoingParts ==
  ASSUME DimsAssumption, NEW a, NEW st, NEW P, Going(st, P, a), st.d # 0
  PROVE  /\ Shape(st) /\ st.d \in Dims
         /\ Sound(st.heap, P, st.replaced, Ahead(st, a))
         /\ Outer(st.heap, P, st, a, st.d - 1) /\ Levels(st, a, st.d - 1)
         /\ CallFits(st.heap, P, st.calls[st.d], Here(st, a, st.d), a[st.d], TRUE)
<1>1. Shape(st) /\ st.d \in Dims /\ Sound(st.heap, P, st.replaced, Ahead(st, a))
  BY DEF Going, Shape
<1>2. st.d \in Nat \ {0} /\ st.d - 1 \in Nat
  BY <1>1, DimsAre
<1>3. CallFits(st.heap, P, st.calls[st.d], Here(st, a, st.d), a[st.d], TRUE)
  <2>1. st.d \in 1 .. st.d
    BY <1>2
  <2>2. CallFits(st.heap, P, st.calls[st.d], Here(st, a, st.d), a[st.d], st.d = st.d)
    BY <2>1 DEF Going
  <2>3. (st.d = st.d) = TRUE
    OBVIOUS
  <2> QED BY <2>2, <2>3
<1>4. Outer(st.heap, P, st, a, st.d - 1)
  <2> SUFFICES ASSUME NEW j \in 1 .. st.d - 1
               PROVE  CallFits(st.heap, P, st.calls[j], Here(st, a, j), a[j], FALSE)
    BY DEF Outer
  <2>2. j \in 1 .. st.d /\ j # st.d
    BY <1>2
  <2>3. CallFits(st.heap, P, st.calls[j], Here(st, a, j), a[j], j = st.d)
    BY <2>2 DEF Going
  <2>4. (j = st.d) = FALSE
    BY <2>2
  <2> QED BY <2>3, <2>4
<1> QED BY <1>1, <1>2, <1>3, <1>4, HereLevels

(* The innermost call is about to update the entry of its level.           *)
Rising(st, P, a) ==
  /\ Going(st, P, a) /\ st.d # 0
  /\ ~st.calls[st.d].walking /\ st.calls[st.d].level >= 0
TopOf(call) == call.stack[call.level]
Parent(st) == TopOf(st.calls[st.d])

LEMMA RisePlace ==
  ASSUME DimsAssumption, NEW a \in Addresses, NEW st, NEW P, Rising(st, P, a)
  PROVE  RiseIs(st.heap, P, st.calls[st.d], Parent(st),
                st.d, st.calls[st.d].level, Here(st, a, st.d), a[st.d])
<1>0. PICK d, call, l, b, p, h :
        /\ d = st.d /\ call = st.calls[st.d] /\ l = call.level
        /\ b = Here(st, a, st.d) /\ p = a[st.d] /\ h = st.heap
  OBVIOUS
<1>1. /\ Shape(st) /\ d \in Dims /\ CallFits(h, P, call, b, p, TRUE) /\ Levels(st, a, d - 1)
  BY <1>0, GoingParts DEF Rising
<1>2. d \in 1 .. Len(Kind) /\ d \in Nat \ {0} /\ d \in 1 .. Len(Kind) + 1
  BY <1>1, DimsAre
<1>3. b \in Bin /\ Len(b) = d - 1
  BY <1>0, <1>1, <1>2, HereIs
<1>4. p \in Path /\ Len(p) \in Nat \ {0} /\ Len(p) = Depth(d) /\ (Kind[d] = "flat" => Len(p) = 1)
  BY <1>0, <1>1, AddressIs
<1>5. ~call.walking /\ l >= 0
  BY <1>0 DEF Rising
<1>6. /\ call.level \in -1 .. Len(p)
      /\ \A k \in 0 .. call.level : EntryFits(h, P, call.stack[k], b, Pre(p, k))
      /\ ChildFits(h, P, call.child, b, Pre(p, call.level + 1))
      /\ Kind[Len(b) + 1] = "flat" => EntryFits(h, P, call.stack[1], b, p)
  BY <1>1, <1>5 DEF CallFits
<1>7. l \in 0 .. Len(p) /\ l \in 0 .. l /\ Len(b) + 1 = d
  BY <1>0, <1>2, <1>3, <1>4, <1>5, <1>6
<1>8. Pre(p, l) \in Path /\ Len(Pre(p, l)) = l
  BY <1>4, <1>7, PreIs DEF Path
<1>9. EntryFits(h, P, call.stack[l], b, Pre(p, l))
  BY <1>0, <1>6, <1>7
<1>10. ChildFits(h, P, call.child, b, Pre(p, l + 1))
  BY <1>0, <1>6
<1>11. RiseIs(h, P, call, call.stack[l], d, l, b, p)
  BY <1>1, <1>2, <1>3, <1>4, <1>6, <1>7, <1>8, <1>9, <1>10 DEF RiseIs
<1> QED BY <1>0, <1>11 DEF Parent, TopOf

(* The call after an entry is updated.                                     *)
LEMMA Risen ==
  ASSUME NEW h, NEW P, NEW g, NEW Q, Carries(h, P, g, Q, Null), Null \notin DOMAIN P,
         NEW call, NEW d, NEW l, NEW b, NEW p, NEW parent,
         CallFits(h, P, call, b, p, TRUE), ~call.walking, l = call.level,
         RiseIs(h, P, call, parent, d, l, b, p)
  PROVE  CallFits(g, Q, Rises(call, parent), b, p, FALSE)
<1>1. PICK c : c = Rises(call, parent)
  OBVIOUS
<1>2. /\ DOMAIN call = {"s", "parallel", "walking", "level", "node", "prev", "parNode", "stack", "child"}
      /\ call.s \in DOMAIN P /\ P[call.s] = Of(b)
      /\ call.parallel # Null =>
           /\ call.parallel \in DOMAIN P /\ ~P[call.parallel].node
           /\ Finer(P[call.parallel].tree, b)
      /\ call.walking \in BOOLEAN
      /\ \A k \in 0 .. call.level : EntryFits(h, P, call.stack[k], b, Pre(p, k))
      /\ Kind[Len(b) + 1] = "flat" => EntryFits(h, P, call.stack[1], b, p)
  BY DEF CallFits
<1>3. /\ DOMAIN c = DOMAIN call /\ c.s = call.s /\ c.parallel = call.parallel
      /\ c.walking = call.walking /\ c.level = l - 1 /\ c.child = parent /\ c.stack = call.stack
  BY <1>1, <1>2 DEF Rises
<1>4. l \in 0 .. Len(p) /\ Len(p) \in Nat /\ b \in Bin /\ EntryFits(h, P, parent, b, Pre(p, l))
  BY DEF RiseIs
<1>5. ASSUME NEW x \in DOMAIN P PROVE x \in DOMAIN Q /\ Q[x] = P[x]
  BY DEF Carries
<1>6. ASSUME NEW x, NEW q, EntryFits(h, P, x, b, q) PROVE EntryFits(g, Q, x, b, q)
  <2>1. x.o # Null
    BY <1>6 DEF EntryFits
  <2> QED BY <2>1, <1>6, EntryCarried
<1>7. /\ c.level \in -1 .. Len(p) /\ c.level < Len(p) /\ c.level + 1 = l
      /\ 0 .. c.level \subseteq 0 .. call.level
  BY <1>3, <1>4
<1>8. \A k \in 0 .. c.level : EntryFits(g, Q, c.stack[k], b, Pre(p, k))
  BY <1>2, <1>3, <1>6, <1>7
<1>9. ChildFits(g, Q, c.child, b, Pre(p, c.level + 1))
  <2>1. EntryFits(g, Q, parent, b, Pre(p, l))
    BY <1>4, <1>6
  <2>2. parent.o \in DOMAIN Q /\ Q[parent.o].tree = b
    BY <2>1 DEF EntryFits
  <2>3. ChildFits(g, Q, parent, b, Pre(p, l))
    BY <2>1, <2>2, <1>4, WithinItself DEF ChildFits
  <2> QED BY <2>3, <1>3, <1>7
<1>10. c.s \in DOMAIN Q /\ Q[c.s] = Of(b)
  BY <1>2, <1>3, <1>5
<1>11. c.parallel # Null =>
         /\ c.parallel \in DOMAIN Q /\ ~Q[c.parallel].node
         /\ Finer(Q[c.parallel].tree, b)
  BY <1>2, <1>3, <1>5
<1>12. Kind[Len(b) + 1] = "flat" => EntryFits(g, Q, c.stack[1], b, p)
  BY <1>2, <1>3, <1>6
<1>13. OnPath(g, Q, c, b, p, FALSE)
  <2>1. EntryFits(g, Q, parent, b, Pre(p, l))
    BY <1>4, <1>6
  <2> QED BY <2>1, <1>3, <1>7 DEF OnPath
<1> QED BY <1>1, <1>2, <1>3, <1>7, <1>8, <1>9, <1>10, <1>11, <1>12, <1>13 DEF CallFits

(* What is in W is ahead, or in the content that the record is sent into.  *)
Sent(st, a, W) ==
  \A c \in Bin, r \in Path : <<c, r>> \in W =>
    \/ <<c, r>> \in Ahead(st, a)
    \/ Covers(c, r, a) /\ Inside(c, Here(st, a, st.d + 1))

Ready(st, P, a, W) ==
  /\ Shape(st) /\ Sound(st.heap, P, st.replaced, W)
  /\ Outer(st.heap, P, st, a, st.d) /\ Sent(st, a, W)

LEMMA OuterCarried ==
  ASSUME NEW h, NEW P, NEW g, NEW Q, Carries(h, P, g, Q, Null), Null \notin DOMAIN P,
         NEW st, NEW a, NEW n \in Nat, Outer(h, P, st, a, n)
  PROVE  Outer(g, Q, st, a, n)
<1> SUFFICES ASSUME NEW j \in 1 .. n
             PROVE  CallFits(g, Q, st.calls[j], Here(st, a, j), a[j], FALSE)
  BY DEF Outer
<1>1. CallFits(h, P, st.calls[j], Here(st, a, j), a[j], FALSE)
  BY DEF Outer
<1> QED BY <1>1, CallCarried

LEMMA OnIs ==
  ASSUME DimsAssumption, NEW a \in Addresses, NEW st, NEW P, Rising(st, P, a),
         NEW g, NEW parent, NEW st2, st2 = On(st, g, parent)
  PROVE  /\ Shape(st2) /\ st2.d = st.d /\ st2.heap = g /\ st2.replaced = st.replaced
         /\ st2.updated = st.updated /\ st2.fault = st.fault
         /\ st2.calls[st.d] = Rises(st.calls[st.d], parent)
         /\ st2.calls[st.d].level = st.calls[st.d].level - 1 /\ ~st2.calls[st.d].walking
         /\ \A j \in 1 .. st.d - 1 : st2.calls[j] = st.calls[j]
         /\ st.d \in Dims /\ st.d \in Nat \ {0} /\ Levels(st2, a, st.d)
         /\ Here(st2, a, st.d) = Here(st, a, st.d)
         /\ Here(st2, a, st.d + 1) = Append(Here(st, a, st.d), Pre(a[st.d], st.calls[st.d].level))
<1>1. /\ Shape(st) /\ st.d \in Dims /\ Levels(st, a, st.d - 1)
      /\ CallFits(st.heap, P, st.calls[st.d], Here(st, a, st.d), a[st.d], TRUE)
  BY GoingParts DEF Rising
<1>2. st.d \in Nat \ {0}
  BY <1>1, DimsAre
<1>3. PICK d, call, l, p : d = st.d /\ call = st.calls[d] /\ l = call.level /\ p = a[d]
  OBVIOUS
<1>4. RiseIs(st.heap, P, call, Parent(st), d, l, Here(st, a, d), p)
  BY <1>3, RisePlace
<1>5. l \in 0 .. Len(p) /\ Len(p) \in Nat
  BY <1>4 DEF RiseIs
<1>6. PICK st1 : st1 = OnHeap(st, g)
  OBVIOUS
<1>7. /\ Shape(st1) /\ st1.d = d /\ st1.heap = g /\ st1.replaced = st.replaced
      /\ st1.updated = st.updated /\ st1.fault = st.fault /\ st1.calls = st.calls
  BY <1>1, <1>3, <1>6, OnHeapIs
<1>8. PICK c : c = Rises(call, parent)
  OBVIOUS
<1>9. st2 = OnCall(st1, c)
  BY <1>3, <1>6, <1>8 DEF On
<1>10. /\ Shape(st2) /\ st2.d = d /\ st2.heap = g /\ st2.replaced = st.replaced
       /\ st2.updated = st.updated /\ st2.fault = st.fault
       /\ st2.calls[d] = c
       /\ \A j \in 1 .. d : j # d => st2.calls[j] = st1.calls[j]
  <2>1. st1.d \in Dims
    BY <1>1, <1>3, <1>7
  <2>2. /\ Shape(st2) /\ st2.d = st1.d /\ st2.heap = st1.heap /\ st2.replaced = st1.replaced
        /\ st2.updated = st1.updated /\ st2.fault = st1.fault
        /\ st2.calls[st1.d] = c
        /\ \A j \in 1 .. st1.d : j # st1.d => st2.calls[j] = st1.calls[j]
    BY <2>1, <1>7, <1>9, OnCallIs
  <2> QED BY <2>2, <1>7
<1>11. \A j \in 1 .. d - 1 : st2.calls[j] = st.calls[j]
  BY <1>2, <1>3, <1>7, <1>10
<1>12. c.level = l - 1 /\ c.walking = call.walking
  <2>1. DOMAIN call = {"s", "parallel", "walking", "level", "node", "prev", "parNode", "stack", "child"}
    BY <1>1, <1>3 DEF CallFits
  <2> QED BY <2>1, <1>3, <1>8 DEF Rises
<1>13. Levels(st2, a, d)
  <2> SUFFICES ASSUME NEW i \in 1 .. d PROVE st2.calls[i].level \in -1 .. Len(a[i]) - 1
    BY DEF Levels
  <2>1. CASE i = d
    <3>1. l - 1 \in -1 .. Len(p) - 1
      BY <1>5
    <3> QED BY <3>1, <2>1, <1>3, <1>10, <1>12
  <2>2. CASE i # d
    <3>1. i \in 1 .. d - 1
      BY <2>2, <1>2, <1>3
    <3> QED BY <3>1, <1>1, <1>3, <1>11 DEF Levels
  <2> QED BY <2>1, <2>2
<1>14. Here(st2, a, d) = Here(st, a, d)
  <2>1. \A i \in 1 .. d - 1 : st2.calls[i].level = st.calls[i].level
    BY <1>11
  <2> QED BY <2>1, <1>2, <1>3, HereSame
<1>15. Here(st2, a, d + 1) = Append(Here(st, a, d), Pre(p, l))
  <2>1. Here(st2, a, d + 1) = Append(Here(st2, a, d), Pre(a[d], st2.calls[d].level + 1))
    BY <1>1, <1>3, <1>13, HereNext
  <2>2. st2.calls[d].level + 1 = l
    BY <1>5, <1>10, <1>12
  <2> QED BY <2>1, <2>2, <1>3, <1>14
<1>16. ~st2.calls[d].walking
  BY <1>3, <1>10, <1>12 DEF Rising
<1> QED BY <1>1, <1>2, <1>3, <1>8, <1>10, <1>11, <1>12, <1>13, <1>14, <1>15, <1>16

LEMMA RiseReady ==
  ASSUME DimsAssumption, NEW a \in Addresses, NEW st, NEW P, Rising(st, P, a),
         NEW g, NEW parent, parent = Parent(st),
         NEW Q, Sound(g, Q, st.replaced, Ahead(st, a)), Carries(st.heap, P, g, Q, Null),
         NEW st2, st2 = On(st, g, parent)
  PROVE  Ready(st2, Q, a, Ahead(st, a))
<1>0. PICK d, call, l, b, p, h :
        /\ d = st.d /\ call = st.calls[st.d] /\ l = st.calls[st.d].level
        /\ b = Here(st, a, st.d) /\ p = a[st.d] /\ h = st.heap
  OBVIOUS
<1>1. /\ Shape(st2) /\ st2.d = d /\ st2.heap = g /\ st2.replaced = st.replaced
      /\ st2.calls[d] = Rises(call, parent)
      /\ st2.calls[d].level = l - 1 /\ ~st2.calls[d].walking
      /\ \A j \in 1 .. d - 1 : st2.calls[j] = st.calls[j]
      /\ d \in Dims /\ d \in Nat \ {0}
      /\ Here(st2, a, d) = b /\ Here(st2, a, d + 1) = Append(b, Pre(p, l))
  BY <1>0, OnIs
<1>2. /\ Outer(h, P, st, a, d - 1) /\ CallFits(h, P, call, b, p, TRUE)
      /\ ~call.walking
      /\ Sound(h, P, st.replaced, Ahead(st, a)) /\ Levels(st, a, d - 1)
  BY <1>0, GoingParts DEF Rising
<1>3. RiseIs(h, P, call, parent, d, l, b, p)
  BY <1>0, RisePlace
<1>4. Null \notin DOMAIN P
  BY <1>2 DEF Sound
<1>5. CallFits(g, Q, Rises(call, parent), b, p, FALSE)
  <2>1. l = call.level /\ Carries(h, P, g, Q, Null)
    BY <1>0
  <2> QED BY <2>1, <1>2, <1>3, <1>4, Risen
<1>6. Outer(g, Q, st, a, d - 1)
  BY <1>0, <1>1, <1>2, <1>4, OuterCarried
<1>7. Outer(g, Q, st2, a, d - 1)
  <2>1. PICK n : n = d - 1
    OBVIOUS
  <2>2. n \in Nat /\ Outer(g, Q, st, a, n) /\ \A j \in 1 .. n : st2.calls[j] = st.calls[j]
    BY <2>1, <1>1, <1>6
  <2>3. Outer(g, Q, st2, a, n)
    BY <2>2, OuterSame
  <2> QED BY <2>1, <2>3
<1>8. Outer(g, Q, st2, a, d)
  <2> SUFFICES ASSUME NEW j \in 1 .. d
               PROVE  CallFits(g, Q, st2.calls[j], Here(st2, a, j), a[j], FALSE)
    BY DEF Outer
  <2>1. CASE j = d
    BY <2>1, <1>0, <1>1, <1>5
  <2>2. CASE j # d
    <3>1. j \in 1 .. d - 1
      BY <2>2, <1>1
    <3> QED BY <3>1, <1>7 DEF Outer
  <2> QED BY <2>1, <2>2
<1>9. ASSUME NEW c \in Bin, NEW r \in Path, <<c, r>> \in Ahead(st, a), <<c, r>> \notin Ahead(st2, a)
      PROVE  Covers(c, r, a) /\ Inside(c, Append(b, Pre(p, l)))
  <2>1. \A i \in 1 .. st.d - 1 : st2.calls[i].level = st.calls[i].level
    BY <1>0, <1>1
  <2>2. st2.d = st.d /\ st.d \in Dims /\ Levels(st, a, st.d - 1)
    BY <1>0, <1>1, <1>2
  <2>3. Inside(c, Here(st, a, st.d)) /\ Covers(c, r, a) /\ Now(st, c, r) /\ ~Now(st2, c, r)
    BY <2>1, <2>2, <1>9, Leaving
  <2>4. Inside(c, b) /\ Covers(c, r, a)
    BY <2>3, <1>0
  <2>5. d <= Len(c) /\ Len(c[d]) <= l
    BY <2>3, <1>0, <1>2 DEF Now
  <2>6. ~ (d <= Len(c) /\ Len(c[d]) <= l - 1)
    BY <2>3, <1>0, <1>1 DEF Now
  <2>7. d \in 1 .. Len(c) /\ c[d] \in Path /\ Len(c[d]) \in Nat
    BY <2>5, <1>1 DEF Bin, Path
  <2>8. l \in Nat /\ Len(b) = d - 1 /\ b \in Bin /\ Pre(p, l) \in Path
    BY <1>3 DEF RiseIs
  <2>9. Len(c[d]) = l
    BY <2>5, <2>6, <2>7, <2>8
  <2>10. c[d] = Pre(p, l)
    <3>1. Starts(c[d], a[d])
      BY <2>4, <2>7 DEF Covers
    <3> QED BY <3>1, <2>9, <1>0 DEF Starts
  <2>11. /\ Len(Append(b, Pre(p, l))) = d /\ Append(b, Pre(p, l))[d] = Pre(p, l)
         /\ \A i \in 1 .. d - 1 : Append(b, Pre(p, l))[i] = b[i]
    <3>1. Len(b) + 1 = d
      BY <2>8, <1>1
    <3> QED BY <3>1, <2>8, AppendIs DEF Bin
  <2>12. \A i \in 1 .. d - 1 : c[i] = b[i]
    BY <2>4, <2>8 DEF Inside
  <2>13. \A i \in 1 .. d : c[i] = Append(b, Pre(p, l))[i]
    BY <2>10, <2>11, <2>12, <1>1
  <2>14. Inside(c, Append(b, Pre(p, l)))
    BY <2>5, <2>11, <2>13 DEF Inside
  <2> QED BY <2>4, <2>14
<1>10. Sent(st2, a, Ahead(st, a))
  BY <1>1, <1>9 DEF Sent
<1> QED BY <1>1, <1>8, <1>10 DEF Ready

LEMMA InsideUnder ==
  ASSUME NEW b \in Bin, NEW q \in Path, NEW spot, spot.tree \in Bin,
         Inside(spot.tree, Append(b, q))
  PROVE  UnderContent(spot, b, q)
<1>1. /\ Len(Append(b, q)) = Len(b) + 1 /\ Append(b, q)[Len(b) + 1] = q
      /\ \A i \in 1 .. Len(b) : Append(b, q)[i] = b[i]
  BY AppendIs DEF Bin
<1>2. Len(b) \in Nat /\ Len(spot.tree) \in Nat
  BY DEF Bin
<1>3. /\ Len(spot.tree) >= Len(b) + 1
      /\ \A i \in 1 .. Len(b) + 1 : spot.tree[i] = Append(b, q)[i]
  BY <1>1 DEF Inside
<1>4. Len(b) + 1 \in 1 .. Len(b) + 1 /\ \A i \in 1 .. Len(b) : i \in 1 .. Len(b) + 1
  BY <1>2
<1> QED BY <1>1, <1>2, <1>3, <1>4 DEF UnderContent

(* There is nothing in the content that is left behind.                    *)
LEMMA ReadyGoes ==
  ASSUME DimsAssumption, NEW a, NEW st, NEW P, NEW W, Ready(st, P, a, W),
         NEW b \in Bin, NEW q \in Path, Here(st, a, st.d + 1) = Append(b, q),
         FreeContent(P, b, q)
  PROVE  Going(st, P, a)
<1>1. /\ Shape(st) /\ Sound(st.heap, P, st.replaced, W) /\ Outer(st.heap, P, st, a, st.d)
      /\ Sent(st, a, W)
  BY DEF Ready
<1>2. PICK h, V : h = st.heap /\ V = Ahead(st, a)
  OBVIOUS
<1>3. Sound(h, P, st.replaced, W)
  BY <1>1, <1>2
<1>4. ASSUME NEW n \in DOMAIN P, P[n].node, NEW k \in DOMAIN h[n].kids,
             <<P[n].tree, Append(P[n].path, k)>> \in W \ V
      PROVE  FALSE
  <2>1. P[n].tree \in Bin /\ P[n].path \in Path /\ k \in Names
    <3>1. NodeFits(P, st.replaced, W, h[n], P[n].tree, P[n].path)
      BY <1>3, <1>4, SpotOfNode
    <3>2. DOMAIN h[n].kids \subseteq Names
      BY <3>1 DEF NodeFits, Branches
    <3> QED BY <1>3, <1>4, <3>2, SpotIs
  <2>2. Append(P[n].path, k) \in Path
    BY <2>1, AppendIs DEF Path
  <2>3. Inside(P[n].tree, Append(b, q))
    BY <1>1, <1>2, <1>4, <2>1, <2>2 DEF Sent
  <2>4. UnderContent(P[n], b, q)
    BY <2>1, <2>3, InsideUnder
  <2> QED BY <2>4 DEF FreeContent
<1>5. UpToDate(h, P, W, V)
  BY <1>4 DEF UpToDate
<1>6. Sound(h, P, st.replaced, V)
  BY <1>3, <1>5, Shrink
<1> QED BY <1>1, <1>2, <1>6, OuterGoing

(* What is below the entry, if it is up to date.                           *)
LEMMA BelowFits ==
  ASSUME DimsAssumption, NEW h, NEW P, NEW R, NEW W, Sound(h, P, R, W),
         NEW call, NEW parent, NEW d, NEW l, NEW b, NEW p,
         RiseIs(h, P, call, parent, d, l, b, p),
         NEW child, child = call.child, child # NoEntry, NEW r, r = HolderOf(h, child),
         NEW B, B = Append(b, Pre(p, l))
  PROVE  /\ HolderFits(P, Pointer(r.c, FALSE), B)
         /\ r.c # Null => r.c \in DOMAIN P /\ ~P[r.c].node /\ Finer(P[r.c].tree, B)
<1>1. /\ d \in Nat \ {0} /\ b \in Bin /\ Len(b) = d - 1 /\ Len(b) + 1 = d
      /\ p \in Path /\ Len(p) \in Nat \ {0} /\ Len(p) = Depth(d)
      /\ l \in 0 .. Len(p) /\ Pre(p, l) \in Path /\ Len(Pre(p, l)) = l
      /\ ChildFits(h, P, child, b, Pre(p, l + 1))
      /\ Kind[d] = "flat" => Len(p) = 1
  BY DEF RiseIs
<1>2. PICK q : q = Pre(p, l + 1)
  OBVIOUS
<1>3. PICK C : C = P[child.o].tree
  OBVIOUS
<1>4. child.o \in DOMAIN P /\ Within(C, b) /\ EntryFits(h, P, child, C, q)
  BY <1>1, <1>2, <1>3 DEF ChildFits
<1>5. C \in Bin /\ P[child.o].path \in Path /\ Len(C) = Len(b)
  BY <1>3, <1>4, SpotIs DEF Within
<1>6. DOMAIN q = 1 .. l + 1
  BY <1>2 DEF Pre
<1>7. /\ IF P[child.o].node
         THEN NodeFits(P, R, W, h[child.o], C, q) /\ P[child.o] = At(C, q)
         ELSE /\ Kind[Len(C) + 1] = "flat"
              /\ \/ child.e = Self /\ q = <<>>
                 \/ child.e # Self /\ q = <<child.e>>
  BY <1>4, EntryKind
<1>8. l < Len(p)
  <2>1. CASE P[child.o].node
    <3>1. q \in Path /\ Len(q) <= Depth(Len(C) + 1)
      BY <2>1, <1>5, <1>7 DEF NodeFits, At
    <3>2. Len(q) = l + 1
      BY <3>1, <1>1, <1>6 DEF Path
    <3> QED BY <3>1, <3>2, <1>1, <1>5
  <2>2. CASE ~P[child.o].node
    <3>1. Len(p) = 1
      BY <2>2, <1>1, <1>5, <1>7
    <3>2. DOMAIN <<>> = {} /\ DOMAIN <<child.e>> = 1 .. 1
      OBVIOUS
    <3>3. 1 .. l + 1 = 1 .. 1 \/ 1 .. l + 1 = {}
      BY <2>2, <1>6, <1>7, <3>2
    <3>4. l + 1 \in 1 .. l + 1
      BY <1>1
    <3>5. l = 0
      BY SMTT(20), <3>3, <3>4, <1>1
    <3> QED BY <3>1, <3>5
  <2> QED BY <2>1, <2>2
<1>9. l + 1 \in 0 .. Len(p) /\ l \in 0 .. Len(p)
  BY <1>1, <1>8
<1>10. q \in Path /\ Len(q) = l + 1
  BY <1>1, <1>2, <1>9, PreIs DEF Path
<1>11. Starts(Pre(p, l), q)
  <2>1. Starts(Pre(p, l + 1), p)
    BY <1>1, <1>9, PreStarts DEF Path
  <2>2. Starts(q, p) /\ l <= Len(q)
    BY <2>1, <1>1, <1>2, <1>10
  <2> QED BY <2>2, <1>1, <1>9, <1>10, StartsLonger DEF Path
<1>12. PICK c : c = Append(C, q)
  OBVIOUS
<1>13. B \in Bin /\ c \in Bin /\ Within(c, B)
  <2>1. Append(b, Pre(p, l)) \in Bin /\ Append(C, q) \in Bin
    BY <1>1, <1>5, <1>10, AppendIs DEF Bin
  <2>2. Within(Append(C, q), Append(b, Pre(p, l)))
    BY <1>1, <1>4, <1>5, <1>10, <1>11, WithinAppend
  <2> QED BY <2>1, <2>2, <1>12
<1>14. Finer(c, B)
  <2>1. B # <<>> /\ Len(B) = d /\ B[d] = Pre(p, l)
    BY <1>1, AppendIs DEF Bin
  <2>2. c[d] = q
    BY <1>1, <1>5, <1>10, <1>12, AppendIs DEF Bin
  <2>3. Len(c[d]) > Len(B[d])
    BY <2>1, <2>2, <1>1, <1>10
  <2> QED BY <1>13, <2>1, <2>3 DEF Finer
<1>15. HolderFits(P, r, c)
  BY <1>4, <1>12, EntryHolder
<1>16. P \in [DOMAIN P -> Spots]
  BY DEF Sound
<1>17. HolderFits(P, Pointer(r.c, FALSE), B)
  BY <1>13, <1>15, <1>16, SharedHolder
<1>18. ASSUME r.c # Null
       PROVE  r.c \in DOMAIN P /\ ~P[r.c].node /\ Finer(P[r.c].tree, B)
  <2>1. PICK x : x = r.c
    OBVIOUS
  <2>2. x \in DOMAIN P /\ ~P[x].node /\ Within(P[x].tree, c)
    BY <2>1, <1>15, <1>18 DEF HolderFits, NoContent, Holder
  <2>3. P[x].tree \in Bin
    BY <2>2, SpotIs
  <2>4. Finer(P[x].tree, B)
    BY <2>2, <2>3, <1>13, <1>14, FinerWithin
  <2> QED BY <2>1, <2>2, <2>4
<1> QED BY <1>17, <1>18

(* No content is owned by the entry, before and after.                     *)
LEMMA RiseGoes ==
  ASSUME DimsAssumption, NEW a \in Addresses, NEW st, NEW P, Rising(st, P, a),
         NEW parent, parent = Parent(st), ~HolderOf(st.heap, parent).proper,
         NEW g, Sound(g, P, st.replaced, Ahead(st, a)), Carries(st.heap, P, g, P, Null),
         NEW st2, st2 = On(st, g, parent)
  PROVE  Going(st2, P, a)
<1>0. PICK d, call, l, b, p, h :
        /\ d = st.d /\ call = st.calls[st.d] /\ l = st.calls[st.d].level
        /\ b = Here(st, a, st.d) /\ p = a[st.d] /\ h = st.heap
  OBVIOUS
<1>1. Ready(st2, P, a, Ahead(st, a))
  BY RiseReady
<1>2. RiseIs(h, P, call, parent, d, l, b, p)
  BY <1>0, RisePlace
<1>3. b \in Bin /\ Pre(p, l) \in Path /\ EntryFits(h, P, parent, b, Pre(p, l))
  BY <1>2 DEF RiseIs
<1>4. Sound(h, P, st.replaced, Ahead(st, a))
  BY <1>0, GoingParts DEF Rising
<1>5. FreeContent(P, b, Pre(p, l))
  <2>1. Self \notin Names /\ ~HolderOf(h, parent).proper
    BY <1>0, NoNameIsSelf
  <2> QED BY <2>1, <1>3, <1>4, VacantContent
<1>6. Here(st2, a, st2.d + 1) = Append(b, Pre(p, l))
  <2>1. st2.d = st.d /\ Here(st2, a, st.d + 1) = Append(Here(st, a, st.d), Pre(a[st.d], st.calls[st.d].level))
    BY OnIs
  <2> QED BY <2>1, <1>0
<1> QED BY <1>1, <1>3, <1>5, <1>6, ReadyGoes

Below(h, call) == IF call.child = NoEntry THEN Null ELSE HolderOf(h, call.child).c

-----------------------------------------------------------------------------
(* Sharing on the way up.                                                  *)

LEMMA GoingUpwards ==
  ASSUME DimsAssumption, NEW a \in Addresses, NEW st, NEW P, Going(st, P, a)
  PROVE  Upwards(Due(st, a)) /\ Ahead(st, a) \subseteq Due(st, a)
<1>1. st.d \in Nat
  BY DimsAre DEF Going
<1>2. ASSUME NEW i \in 1 .. st.d PROVE st.calls[i].level \in Int
  <2>1. CallFits(st.heap, P, st.calls[i], Here(st, a, i), a[i], i = st.d)
    BY DEF Going
  <2> QED BY <2>1 DEF CallFits
<1> QED BY <1>1, <1>2, DueUpwards, AheadDue

LEMMA EmptyStarts ==
  ASSUME NEW p \in Path
  PROVE  <<>> \in Path /\ Starts(<<>>, p)
<1>1. <<>> \in Path /\ Len(<<>>) = 0 /\ Len(p) \in Nat
  BY DEF Path
<1>2. \A i \in 1 .. 0 : <<>>[i] = p[i]
  OBVIOUS
<1>3. Starts(<<>>, p) <=> Len(<<>>) <= Len(p) /\ \A i \in 1 .. Len(<<>>) : <<>>[i] = p[i]
  BY <1>1, StartsIs DEF Path
<1> QED BY <1>1, <1>2, <1>3

(* The content of bin B can be anything: the record is sent into it, or it *)
(* is a time series.                                                       *)
WithPlace(V, B) == V \cup {<<B, <<>>>>}

LEMMA WithPlaceUpwards ==
  ASSUME NEW V, Upwards(V), NEW B
  PROVE  Upwards(WithPlace(V, B))
<1> SUFFICES ASSUME NEW b \in Bin, NEW c \in Bin, NEW q \in Path, NEW k \in Names,
                    Within(c, b), <<c, Append(q, k)>> \in WithPlace(V, B)
             PROVE  <<b, q>> \in V
  BY DEF Upwards, WithPlace
<1>1. Append(q, k) # <<>>
  BY AppendIs DEF Path
<1>2. <<c, Append(q, k)>> \in V
  BY <1>1 DEF WithPlace
<1> QED BY <1>2 DEF Upwards

(* What is due, and what the record is sent into.                          *)
DueOrSent(st, a) ==
  Due(st, a) \cup
  { w \in Bin \X Path : Covers(w[1], w[2], a) /\ Inside(w[1], Here(st, a, st.d + 1)) }

LEMMA SentIs ==
  ASSUME NEW st, NEW a, NEW c \in Bin, NEW r \in Path, Covers(c, r, a),
         Inside(c, Here(st, a, st.d + 1))
  PROVE  <<c, r>> \in DueOrSent(st, a)
BY DEF DueOrSent

LEMMA DueOrSentIs ==
  ASSUME NEW st, NEW a, NEW c, NEW r, <<c, r>> \in DueOrSent(st, a)
  PROVE  \/ <<c, r>> \in Due(st, a)
         \/ c \in Bin /\ r \in Path /\ Covers(c, r, a) /\ Inside(c, Here(st, a, st.d + 1))
BY DEF DueOrSent

(* What the call is through with when an entry is updated.                 *)
LEMMA RiseDue ==
  ASSUME DimsAssumption, NEW a \in Addresses, NEW st, NEW P, Rising(st, P, a),
         NEW g, NEW st2, st2 = On(st, g, Parent(st)),
         NEW c \in Bin, NEW r \in Path, <<c, r>> \in Due(st, a) \ Due(st2, a)
  PROVE  \/ c = Here(st, a, st.d) /\ r = Pre(a[st.d], st.calls[st.d].level)
         \/ Covers(c, r, a) /\ Inside(c, Here(st2, a, st.d + 1))
<1>0. PICK d, l, b, p : d = st.d /\ l = st.calls[st.d].level /\ b = Here(st, a, st.d) /\ p = a[st.d]
  OBVIOUS
<1>1. /\ st2.d = d /\ st2.calls[d].level = l - 1 /\ ~st2.calls[d].walking
      /\ \A j \in 1 .. d - 1 : st2.calls[j] = st.calls[j]
      /\ d \in Dims /\ d \in Nat \ {0}
      /\ Here(st2, a, d + 1) = Append(b, Pre(p, l))
  BY <1>0, OnIs
<1>2. ~st.calls[d].walking /\ Levels(st, a, d - 1)
  BY <1>0, GoingParts DEF Rising
<1>3. RiseIs(st.heap, P, st.calls[d], Parent(st), d, l, b, p)
  BY <1>0, RisePlace
<1>4. /\ l \in Nat /\ Len(b) = d - 1 /\ b \in Bin /\ Pre(p, l) \in Path /\ Len(b) + 1 = d
  BY <1>3 DEF RiseIs
<1>5. Inside(c, b) /\ Covers(c, r, a) /\ Open(st, d, c, r) /\ ~Open(st2, d, c, r)
  <2>1. /\ st2.d = st.d /\ st.d \in Dims /\ Levels(st, a, st.d - 1)
        /\ \A j \in 1 .. st.d - 1 : st2.calls[j] = st.calls[j]
    BY <1>0, <1>1, <1>2
  <2> QED BY <2>1, <1>0, DueLess
<1>6. Len(c) \in Nat /\ Len(c) >= d - 1 /\ \A i \in 1 .. d - 1 : c[i] = b[i]
  BY <1>4, <1>5 DEF Inside, Bin
<1>7. CASE Len(c) = d - 1
  <2>1. c = b
    BY <1>4, <1>6, <1>7 DEF Bin
  <2>2. Len(r) <= l /\ ~(Len(r) <= l - 1) /\ Len(r) \in Nat
    BY <1>0, <1>1, <1>2, <1>5, <1>7 DEF Open, Path
  <2>3. Len(r) = l /\ Starts(r, p)
    BY <2>2, <1>0, <1>1, <1>4, <1>5, <1>7 DEF Covers
  <2> QED BY <2>1, <2>3, <1>0 DEF Starts
<1>8. CASE Len(c) # d - 1
  <2>1. d \in 1 .. Len(c) /\ c[d] \in Path /\ Len(c[d]) \in Nat
    BY <1>1, <1>6, <1>8 DEF Bin, Path
  <2>2. Len(c[d]) <= l /\ ~(Len(c[d]) <= l - 1)
    BY <1>0, <1>1, <1>2, <1>5, <1>8 DEF Open
  <2>3. Len(c[d]) = l /\ Starts(c[d], p)
    BY SMTT(20), <2>1, <2>2, <1>0, <1>4, <1>5 DEF Covers
  <2>4. c[d] = Pre(p, l)
    BY <2>3 DEF Starts
  <2>5. /\ Len(Append(b, Pre(p, l))) = d /\ Append(b, Pre(p, l))[d] = Pre(p, l)
        /\ \A i \in 1 .. d - 1 : Append(b, Pre(p, l))[i] = b[i]
    BY <1>4, AppendIs DEF Bin
  <2>6. \A i \in 1 .. d : c[i] = Append(b, Pre(p, l))[i]
    BY <2>4, <2>5, <1>1, <1>6
  <2>7. Inside(c, Append(b, Pre(p, l)))
    BY <2>1, <2>5, <2>6 DEF Inside
  <2> QED BY <2>7, <1>0, <1>1, <1>5
<1> QED BY <1>7, <1>8

(* What else could be in the place of an entry.                            *)
LEMMA EntryPlace ==
  ASSUME NEW h, NEW P, NEW R, NEW W, Sound(h, P, R, W), NEW b, NEW q, NEW parent,
         EntryFits(h, P, parent, b, q), NEW x \in DOMAIN P, PlaceOf(P[x]) = <<b, q>>
  PROVE  (x = parent.o /\ parent.e = Self) \/ h[x].kind = "quad" \/ h[x].kind = "leaf"
<1>1. P[x].tree = b /\ P[x].path = q
  BY DEF PlaceOf
<1>2. parent.o \in DOMAIN P /\ \A y, z \in DOMAIN P : P[y] = P[z] => y = z
  BY DEF EntryFits, Sound
<1>3. CASE P[parent.o].node
  <2>1. P[parent.o] = At(b, q) /\ parent.e = Self /\ Kind[Len(b) + 1] = "quad"
    BY <1>3, EntryKind
  <2>2. CASE P[x].node
    <3>1. P[x] = At(b, q)
      BY <2>2, <1>1, SpotIs
    <3> QED BY <3>1, <2>1, <1>2
  <2>3. CASE ~P[x].node
    <3>1. h[x].kind # "flat"
      BY <2>1, <2>3, <1>1, KindOfContent DEF FlatFits
    <3> QED BY <3>1, <2>3, KindOfContent
  <2> QED BY <2>2, <2>3
<1>4. CASE ~P[parent.o].node
  <2>1. /\ P[parent.o] = Of(b) /\ Kind[Len(b) + 1] = "flat"
        /\ parent.e = Self \/ q = <<parent.e>>
        /\ parent.e = Self => q = <<>>
    BY <1>4, EntryKind
  <2>2. ~P[x].node
    <3>1. P[x].node => NodeFits(P, R, W, h[x], b, q)
      BY <1>1, SpotOfNode
    <3>2. P[x].node => Kind[Len(b) + 1] = "quad"
      BY <3>1 DEF NodeFits
    <3> QED BY <3>2, <2>1
  <2>3. P[x] = Of(b)
    BY <2>2, <1>1, SpotIs
  <2>4. x = parent.o /\ q = <<>>
    <3>1. x = parent.o
      BY <2>3, <2>1, <1>2
    <3>2. q = <<>>
      BY <2>3, <1>1 DEF Of
    <3> QED BY <3>1, <3>2
  <2>5. <<parent.e>> # <<>>
    OBVIOUS
  <2> QED BY <2>1, <2>4, <2>5
<1> QED BY <1>3, <1>4

(* An entry is updated: what is not shared as it should be is where the    *)
(* insertion still comes by or is being sent.                              *)
LEMMA RiseSettled ==
  ASSUME DimsAssumption, NEW a \in Addresses, NEW st, NEW P, Rising(st, P, a), Settled(st, P, a),
         NEW parent, parent = Parent(st),
         NEW g, NEW Q, Sound(g, Q, st.replaced, Ahead(st, a)), Carries(st.heap, P, g, Q, Null),
         NEW B, B = Append(Here(st, a, st.d), Pre(a[st.d], st.calls[st.d].level)),
         Kept(st.heap, P, g, Q, {PlaceOf(P[parent.o]), <<B, <<>>>>}),
         parent.e = Self => Shares(g, parent.o),
         NEW st2, st2 = On(st, g, parent)
  PROVE  SharesBut(g, Q, DueOrSent(st2, a))
<1>0. PICK d, call, l, b, p, h, V :
        /\ d = st.d /\ call = st.calls[st.d] /\ l = st.calls[st.d].level
        /\ b = Here(st, a, st.d) /\ p = a[st.d] /\ h = st.heap /\ V = Due(st, a)
  OBVIOUS
<1>1. /\ RiseIs(h, P, call, parent, d, l, b, p)
      /\ st2.d = d /\ Here(st2, a, d + 1) = B /\ B = Append(b, Pre(p, l))
  BY <1>0, RisePlace, OnIs
<1>2. /\ b \in Bin /\ Pre(p, l) \in Path /\ EntryFits(h, P, parent, b, Pre(p, l))
      /\ d \in Nat \ {0} /\ Len(b) + 1 = d /\ l \in 0 .. Len(p) /\ p \in Path /\ Len(b) \in Nat
  BY <1>1 DEF RiseIs
<1>3. Going(st, P, a) /\ Upwards(V) /\ Ahead(st, a) \subseteq V
  BY <1>0, GoingUpwards DEF Rising
<1>4. Sound(h, P, st.replaced, Ahead(st, a)) /\ st.d \in Dims /\ Levels(st, a, st.d - 1)
  BY <1>0, <1>3, GoingParts DEF Rising
<1>5. Null \notin DOMAIN P /\ parent.o \in DOMAIN P /\ parent.o # Null
  <2>1. parent.o \in DOMAIN P
    BY <1>2 DEF EntryFits
  <2> QED BY <2>1, <1>4 DEF Sound
<1>6. EntryFits(g, Q, parent, b, Pre(p, l))
  BY <1>0, <1>2, <1>5, EntryCarried
<1>7. PlaceOf(P[parent.o]) \in V
  <2>1. PlaceOf(P[parent.o]) = <<b, Pre(p, l)>> \/ PlaceOf(P[parent.o]) = <<b, <<>>>>
    <3>1. P[parent.o] = At(b, Pre(p, l)) \/ P[parent.o] = Of(b)
      BY <1>2, <1>4, EntryKind
    <3> QED BY <3>1 DEF PlaceOf, At, Of
  <2>2. Starts(Pre(p, l), p) /\ Starts(Pre(p, l), Pre(p, l)) /\ Starts(<<>>, Pre(p, l)) /\ <<>> \in Path
    <3>1. Starts(Pre(p, l), p) /\ Starts(Pre(p, l), Pre(p, l))
      BY <1>2, PreStarts, StartsItself DEF Path
    <3>2. <<>> \in Path /\ Starts(<<>>, Pre(p, l))
      BY <1>2, EmptyStarts
    <3> QED BY <3>1, <3>2
  <2>3. Way(Here(st, a, st.d), Pre(p, l)) \subseteq Due(st, a)
    <3>1. Len(Pre(p, l)) <= st.calls[st.d].level /\ st.calls[st.d].level \in Int
      BY SMTT(20), <1>0, <1>1, <1>2 DEF RiseIs
    <3>2. Starts(Pre(p, l), a[st.d])
      BY <2>2, <1>0
    <3> QED BY <3>1, <3>2, <1>2, <1>4, WayDue
  <2>4. <<b, Pre(p, l)>> \in Way(b, Pre(p, l)) /\ <<b, <<>>>> \in Way(b, Pre(p, l))
    BY <2>2, <1>2 DEF Way
  <2> QED BY <2>1, <2>3, <2>4, <1>0
<1>8. SharesBut(g, Q, WithPlace(V, B))
  <2>1. SharesBut(h, P, WithPlace(V, B))
    BY <1>0 DEF Settled, SharesBut, WithPlace
  <2>2. Upwards(WithPlace(V, B))
    BY <1>3, WithPlaceUpwards
  <2>3. Kept(h, P, g, Q, WithPlace(V, B))
    <3>1. {PlaceOf(P[parent.o]), <<B, <<>>>>} \subseteq WithPlace(V, B)
      BY <1>7 DEF WithPlace
    <3>2. PICK U : U = {PlaceOf(P[parent.o]), <<B, <<>>>>}
      OBVIOUS
    <3>3. Kept(h, P, g, Q, U) /\ U \subseteq WithPlace(V, B)
      BY <3>1, <3>2, <1>0
    <3> QED BY <3>3, KeptMore
  <2>4. Ahead(st, a) \subseteq WithPlace(V, B)
    BY <1>3 DEF WithPlace
  <2> QED BY <2>1, <2>2, <2>3, <2>4, KeptShares
<1> SUFFICES ASSUME NEW x \in DOMAIN Q, PlaceOf(Q[x]) \notin DueOrSent(st2, a)
             PROVE  Shares(g, x)
  BY DEF SharesBut
<1>9. PICK c, r : PlaceOf(Q[x]) = <<c, r>> /\ c = Q[x].tree /\ r = Q[x].path
  BY DEF PlaceOf
<1>10. c \in Bin /\ r \in Path
  BY <1>9, SpotIs
<1>11. CASE <<c, r>> \in V
  <2>1. <<c, r>> \in Due(st, a) \ Due(st2, a)
    BY <1>0, <1>9, <1>11 DEF DueOrSent
  <2>2. ~(Covers(c, r, a) /\ Inside(c, Here(st2, a, st2.d + 1)))
    BY <1>9, <1>10, SentIs
  <2>3. c = b /\ r = Pre(p, l)
    <3>1. \/ c = Here(st, a, st.d) /\ r = Pre(a[st.d], st.calls[st.d].level)
          \/ Covers(c, r, a) /\ Inside(c, Here(st2, a, st.d + 1))
      BY <2>1, <1>10, RiseDue
    <3> QED BY <3>1, <2>2, <1>0, <1>1
  <2>4. (x = parent.o /\ parent.e = Self) \/ g[x].kind = "quad" \/ g[x].kind = "leaf"
    BY <2>3, <1>6, <1>9, EntryPlace
  <2> QED BY <2>4 DEF Shares
<1>12. CASE c = B /\ r = <<>>
  <2>1. B \in Bin /\ Len(B) = d /\ \A i \in 1 .. d : Starts(B[i], a[i])
    <3>1. Len(B) = d /\ B[d] = Pre(p, l) /\ \A i \in 1 .. d - 1 : B[i] = b[i]
      BY <1>1, <1>2, AppendIs DEF Bin
    <3>2. \A i \in 1 .. d - 1 : Starts(b[i], a[i])
      <4>1. d \in 1 .. Len(Kind) + 1
        BY <1>0, <1>2, <1>4, DimsAre
      <4>2. Levels(st, a, d - 1)
        BY <1>0, <1>4
      <4>3. \A i \in 1 .. d - 1 : Here(st, a, d)[i] = Here(st, a, d)[i] /\ Starts(Here(st, a, d)[i], a[i])
        BY <4>1, <4>2, HereIs
      <4> QED BY <4>3, <1>0
    <3>3. Starts(Pre(p, l), a[d])
      BY <1>0, <1>2, PreStarts DEF Path
    <3> QED BY <3>1, <3>2, <3>3, <1>2, <1>10, <1>12
  <2>2. Inside(B, B)
    BY <2>1 DEF Inside
  <2>3. CASE d + 1 \in Dims
    <3>1. Starts(<<>>, a[d + 1])
      BY <2>3, AddressIs, EmptyStarts
    <3>2. Covers(B, <<>>, a)
      BY <2>1, <2>3, <3>1 DEF Covers
    <3> QED BY <3>2, <2>2, <1>1, <1>9, <1>10, <1>12, SentIs
  <2>4. CASE d + 1 \notin Dims
    <3>1. Len(c) + 1 \notin Dims
      BY <2>1, <2>4, <1>12
    <3>2. ~NodeFits(Q, st.replaced, Ahead(st, a), g[x], c, r) /\ ~FlatFits(Q, g[x], c)
      BY <3>1 DEF NodeFits, FlatFits
    <3>3. QuadFits(Q, g[x], c) \/ LeafFits(g[x], c)
      BY <3>2, <1>9, SpotOfNode
    <3>4. g[x].kind \in {"quad", "leaf"}
      BY <3>3 DEF QuadFits, LeafFits
    <3> QED BY <3>4 DEF Shares
  <2> QED BY <2>3, <2>4
<1>13. CASE <<c, r>> \notin WithPlace(V, B)
  BY <1>8, <1>9, <1>13 DEF SharesBut
<1> QED BY <1>11, <1>12, <1>13 DEF WithPlace

(* There is nothing in the content that the record would be sent into.     *)
LEMMA NothingSent ==
  ASSUME DimsAssumption, NEW a \in Addresses, NEW st, NEW P, NEW R, NEW W,
         Sound(st.heap, P, R, W), NEW b \in Bin, NEW q \in Path,
         Here(st, a, st.d + 1) = Append(b, q), FreeContent(P, b, q),
         SharesBut(st.heap, P, DueOrSent(st, a))
  PROVE  Settled(st, P, a)
<1> SUFFICES ASSUME NEW x \in DOMAIN P, PlaceOf(P[x]) \in DueOrSent(st, a)
             PROVE  PlaceOf(P[x]) \in Due(st, a)
  BY DEF Settled, SharesBut
<1>1. PICK spot : spot = P[x]
  OBVIOUS
<1>2. spot.tree \in Bin /\ ~UnderContent(spot, b, q)
  BY <1>1, SpotIs DEF FreeContent
<1>3. ~Inside(spot.tree, Here(st, a, st.d + 1))
  BY <1>2, InsideUnder
<1> QED BY <1>1, <1>3, DueOrSentIs DEF PlaceOf

(* The entry below is the only child, and what it has is shared.           *)
LEMMA SharedBelow ==
  ASSUME DimsAssumption, NEW a \in Addresses, NEW st, NEW P, Rising(st, P, a),
         NEW parent, parent = Parent(st), HasOneChild(st.heap, parent),
         NEW below, below = Below(st.heap, st.calls[st.d]),
         NEW g, g = SetHolder(st.heap, parent, Holder(below, FALSE))
  PROVE  Shares(g, parent.o)
<1>0. PICK d, call, l, b, p, h, R, W, n :
        /\ d = st.d /\ call = st.calls[st.d] /\ l = st.calls[st.d].level
        /\ b = Here(st, a, st.d) /\ p = a[st.d] /\ h = st.heap
        /\ R = st.replaced /\ W = Ahead(st, a) /\ n = parent.o
  OBVIOUS
<1> SUFFICES Shares(g, n)
  BY <1>0
<1>1. RiseIs(h, P, call, parent, d, l, b, p)
  BY <1>0, RisePlace
<1>2. /\ b \in Bin /\ Pre(p, l) \in Path /\ Len(Pre(p, l)) = l /\ EntryFits(h, P, parent, b, Pre(p, l))
      /\ d \in Nat \ {0} /\ Len(b) + 1 = d /\ Len(b) = d - 1 /\ Len(b) \in Nat
      /\ p \in Path /\ Len(p) \in Nat \ {0} /\ Len(p) = Depth(d) /\ l \in 0 .. Len(p)
      /\ Kind[d] = "flat" => Len(p) = 1
  BY <1>1 DEF RiseIs
<1>3. Sound(h, P, R, W) /\ CallFits(h, P, call, b, p, TRUE) /\ ~call.walking
  BY <1>0, GoingParts DEF Rising
<1>4. /\ n \in DOMAIN P /\ P[n].tree = b /\ Branches(h[n])
      /\ IF P[n].node
         THEN NodeFits(P, R, W, h[n], b, Pre(p, l)) /\ Kind[d] = "quad" /\ P[n] = At(b, Pre(p, l))
         ELSE /\ FlatFits(P, h[n], b) /\ Kind[d] = "flat" /\ P[n] = Of(b)
              /\ parent.e = Self => Pre(p, l) = <<>>
  <2>1. /\ parent.o \in DOMAIN P /\ P[parent.o].tree = b /\ Branches(h[parent.o])
        /\ IF P[parent.o].node
           THEN /\ NodeFits(P, R, W, h[parent.o], b, Pre(p, l)) /\ Kind[Len(b) + 1] = "quad"
                /\ P[parent.o] = At(b, Pre(p, l))
           ELSE /\ FlatFits(P, h[parent.o], b) /\ Kind[Len(b) + 1] = "flat" /\ P[parent.o] = Of(b)
                /\ parent.e = Self => Pre(p, l) = <<>>
    BY <1>2, <1>3, EntryKind
  <2>2. n = parent.o /\ Len(b) + 1 = d
    BY <1>0, <1>2
  <2> QED BY <2>1, <2>2
<1>5. PICK k : parent.e = Self /\ k \in DOMAIN h[n].kids /\ DOMAIN h[n].kids = {k}
  BY <1>0 DEF HasOneChild
<1>6. k \in Names /\ Null \notin DOMAIN P /\ n \in DOMAIN h /\ DOMAIN h = DOMAIN P
  BY <1>3, <1>4, <1>5 DEF Branches, Sound
<1>7. /\ g[n].self = Holder(below, FALSE) /\ g[n].kids = h[n].kids /\ g[n].kind = h[n].kind
      /\ \A x \in DOMAIN P : x # n => g[x] = h[x]
  <2>1. g = [h EXCEPT ![n].self = Holder(below, FALSE)]
    BY <1>0, <1>5 DEF SetHolder
  <2>2. DOMAIN h[n] = {"kind", "self", "kids"}
    BY <1>4 DEF Branches
  <2> QED BY ZenonT(30), <2>1, <2>2, <1>6
<1>8. l < Len(p) /\ l \in 0 .. Len(p) - 1 /\ l + 1 \in 0 .. Len(p) /\ l \in Nat
  <2>1. CASE P[n].node
    BY <2>1, <1>2, <1>4, <1>5 DEF NodeFits
  <2>2. CASE ~P[n].node
    <3>1. Len(<<>>) = 0
      OBVIOUS
    <3> QED BY <3>1, <2>2, <1>2, <1>4, <1>5
  <2> QED BY <2>1, <2>2, <1>2
<1>9. PICK q, child, name : q = Pre(p, l + 1) /\ child = call.child /\ name = p[l + 1]
  OBVIOUS
<1>10. q \in Path /\ Len(q) = l + 1 /\ name \in Names /\ Append(Pre(p, l), name) = q
  <2>1. q \in Path /\ Len(q) = l + 1
    BY <1>2, <1>8, <1>9, PreIs DEF Path
  <2>2. Append(Pre(p, l), p[l + 1]) = Pre(p, l + 1)
    BY <1>2, <1>8, PreGrows DEF Path
  <2>3. l + 1 \in 1 .. Len(p)
    BY <1>2, <1>8
  <2> QED BY <2>1, <2>2, <2>3, <1>2, <1>9 DEF Path
<1>11. ChildFits(h, P, child, b, q)
  BY <1>1, <1>9 DEF RiseIs
(* It is enough to find it.                                                *)
<1>12. ASSUME child # NoEntry, below = HolderOf(h, child).c => KidContent(g, n, k) = below
       PROVE  Shares(g, n)
  <2>1. below = HolderOf(h, child).c
    BY <1>0, <1>9, <1>12 DEF Below
  <2>2. KidContent(g, n, k) = below
    BY <2>1, <1>12
  <2> QED BY <2>2, <1>5, <1>7 DEF Shares
(* A node of the tree with child below it.                                 *)
<1>13. ASSUME P[n].node, child.o \in DOMAIN P, P[child.o].node, P[child.o].path = q, child.e = Self,
              h[n].kids[k].c = child.o
       PROVE  Shares(g, n)
  <2>1. child.o # n
    <3>1. P[n].path = Pre(p, l)
      BY <1>4, <1>13 DEF At
    <3> QED BY <3>1, <1>2, <1>8, <1>10, <1>13
  <2>2. child # NoEntry
    BY <1>6, <1>13 DEF NoEntry, Entry
  <2>3. h[n].kind = "node"
    BY <1>4, <1>13 DEF NodeFits
  <2>4. KidContent(g, n, k) = HolderOf(h, child).c
    BY ZenonT(30), <2>1, <2>3, <1>7, <1>13 DEF KidContent, HolderOf
  <2> QED BY <2>2, <2>4, <1>12
<1>14. CASE EntryFits(h, P, child, b, q)
  <2>1. /\ child.o \in DOMAIN P
        /\ IF P[child.o].node
           THEN Kind[d] = "quad" /\ P[child.o] = At(b, q) /\ child.e = Self
           ELSE /\ Kind[d] = "flat" /\ P[child.o] = Of(b)
                /\ \/ child.e = Self /\ q = <<>>
                   \/ child.e # Self /\ child.e \in DOMAIN h[child.o].kids
    BY <1>2, <1>3, <1>14, EntryKind
  <2>2. CASE P[child.o].node
    <3>1. P[n].node
      BY <2>1, <2>2, <1>4
    <3>2. PICK m : m = child.o
      OBVIOUS
    <3>3. m \in DOMAIN P /\ P[m] = At(b, q) /\ P[m].node /\ P[m].path = q /\ P[m].tree = b
      BY <3>2, <2>1, <2>2 DEF At
    <3>4. m # Root /\ q # <<>>
      <4>1. P[Root] = Of(<<>>)
        BY <1>3 DEF Sound
      <4>2. Len(<<>>) = 0
        OBVIOUS
      <4> QED BY <4>1, <4>2, <3>3, <1>8, <1>10 DEF Of
    <3>5. PICK y \in DOMAIN P : m \in Owned(h[y])
      BY <3>3, <3>4, <1>3 DEF Sound
    <3>6. PICK j \in Names :
            /\ P[y].node /\ P[y].tree = P[m].tree /\ P[m].path = Append(P[y].path, j)
            /\ j \in DOMAIN h[y].kids /\ h[y].kids[j].c = m
      BY <3>3, <3>4, <3>5, <1>3, OwnerOfNode
    <3>7. P[y].path \in Path
      BY <1>3, SpotIs
    <3>8. P[y].path = Pre(p, l)
      <4>1. PICK u, v : u = P[y].path /\ v = Pre(p, l)
        OBVIOUS
      <4>2. Append(u, j) = Append(v, name) /\ u \in Path /\ v \in Path
        BY <4>1, <3>3, <3>6, <3>7, <1>2, <1>10
      <4>3. u = v
        BY <4>2, <1>10, AppendSame DEF Path
      <4> QED BY <4>1, <4>3
    <3>9. P[y] = At(b, Pre(p, l))
      BY <3>3, <3>6, <3>8, <1>3, SpotIs
    <3>10. y = n
      <4>1. P[n] = P[y]
        BY <3>1, <3>9, <1>4
      <4> QED BY <4>1, <1>3, <1>4 DEF Sound
    <3>11. h[n].kids[k].c = child.o
      BY <3>2, <3>6, <3>10, <1>5
    <3> QED BY <3>1, <3>2, <3>3, <3>11, <2>1, <2>2, <1>13
  <2>3. CASE ~P[child.o].node
    <3>1. child.o = n
      <4>1. P[child.o] = P[n]
        BY <2>1, <2>3, <1>4
      <4> QED BY <4>1, <2>1, <1>3, <1>4 DEF Sound
    <3>2. Len(<<>>) = 0
      OBVIOUS
    <3>3. child.e # Self /\ child.e = k
      BY <3>1, <3>2, <2>1, <2>3, <1>5, <1>8, <1>10
    <3>4. child # NoEntry
      BY <3>1, <1>4, <1>6 DEF NoEntry, Entry
    <3>5. h[n].kind = "flat"
      BY <2>1, <2>3, <3>1, <1>4 DEF FlatFits
    <3>6. KidContent(g, n, k) = HolderOf(h, child).c
      BY <3>1, <3>3, <3>5, <1>7 DEF KidContent, HolderOf
    <3> QED BY <3>4, <3>6, <1>12
  <2> QED BY <2>2, <2>3
<1>15. CASE Kind[d] = "quad" /\ child.e = Self /\ SharesKid(h, n, name, child.o)
  <2>1. P[n].node /\ NodeFits(P, R, W, h[n], b, Pre(p, l))
    BY <1>4, <1>15
  <2>2. name = k /\ h[n].kids[k].c = child.o
    BY <1>5, <1>15 DEF SharesKid
  <2>3. <<b, q>> \notin W
    <3>1. ~Before(st, b)
      <4>1. Levels(st, a, d - 1) /\ d \in 1 .. Len(Kind) + 1
        <5>1. Levels(st, a, d - 1) /\ d \in Dims
          BY <1>0, GoingParts DEF Rising
        <5>2. Dims = 1 .. Len(Kind) /\ Len(Kind) \in Nat
          BY DimsAre
        <5> QED BY <5>1, <5>2, <1>2
      <4>2. \A i \in 1 .. d - 1 : Len(b[i]) = st.calls[i].level + 1 /\ st.calls[i].level \in Int
        BY <4>1, <1>0, HereIs DEF Levels
      <4> QED BY <4>2, <1>0, <1>2 DEF Before
    <3>2. ~Now(st, b, q)
      BY <1>0, <1>2, <1>3 DEF Now
    <3> QED BY <3>1, <3>2, <1>0, <1>2, <1>10, AheadIs
  <2>4. NodeRef(P, h[n].kids[k], b, q)
    BY <2>1, <2>2, <2>3, <1>5, <1>10 DEF NodeFits, KidFits
  <2> QED BY <2>1, <2>2, <2>4, <1>13, <1>15 DEF NodeRef
<1>16. OnPath(h, P, call, b, p, TRUE)
  BY <1>3 DEF CallFits
<1>17. \/ EntryFits(h, P, call.child, b, Pre(p, call.level + 1))
       \/ /\ Kind[Len(b) + 1] = "quad" /\ call.child.e = Self
          /\ SharesKid(h, call.stack[call.level].o, p[call.level + 1], call.child.o)
  BY <1>0, <1>8, <1>16 DEF OnPath
<1>18. call.stack[call.level].o = n /\ call.level = l
  BY <1>0 DEF Parent, TopOf
<1> QED BY <1>0, <1>2, <1>9, <1>14, <1>15, <1>17, <1>18

(* No content is owned by the entry, and what it has is shared.            *)
LEMMA RiseStays ==
  ASSUME DimsAssumption, NEW a \in Addresses, NEW st, NEW P, Rising(st, P, a), Settled(st, P, a),
         NEW parent, parent = Parent(st), ~HolderOf(st.heap, parent).proper,
         NEW g, Sound(g, P, st.replaced, Ahead(st, a)), Carries(st.heap, P, g, P, Null),
         Kept(st.heap, P, g, P, {PlaceOf(P[parent.o])}),
         parent.e = Self => Shares(g, parent.o),
         NEW st2, st2 = On(st, g, parent)
  PROVE  Going(st2, P, a) /\ Settled(st2, P, a)
<1>1. Going(st2, P, a)
  BY RiseGoes
<1>2. PICK b, q, B, h : /\ b = Here(st, a, st.d) /\ q = Pre(a[st.d], st.calls[st.d].level)
                        /\ B = Append(Here(st, a, st.d), Pre(a[st.d], st.calls[st.d].level))
                        /\ h = st.heap
  OBVIOUS
<1>3. Kept(h, P, g, P, {PlaceOf(P[parent.o]), <<B, <<>>>>})
  <2>1. PICK U, V : U = {PlaceOf(P[parent.o])} /\ V = {PlaceOf(P[parent.o]), <<B, <<>>>>}
    OBVIOUS
  <2>2. Kept(h, P, g, P, U) /\ U \subseteq V
    BY <2>1, <1>2
  <2>3. Kept(h, P, g, P, V)
    BY <2>2, KeptMore
  <2> QED BY <2>1, <2>3
<1>4. SharesBut(g, P, DueOrSent(st2, a))
  BY <1>2, <1>3, RiseSettled
<1>5. st2.heap = g /\ st2.d = st.d /\ Here(st2, a, st2.d + 1) = Append(b, q)
  BY <1>2, OnIs
<1>6. Sound(h, P, st.replaced, Ahead(st, a))
  BY <1>2, GoingParts DEF Rising
<1>7. b \in Bin /\ q \in Path /\ EntryFits(h, P, parent, b, q)
  BY <1>2, RisePlace DEF RiseIs
<1>8. FreeContent(P, b, q)
  <2>1. Self \notin Names /\ ~HolderOf(h, parent).proper
    BY <1>2, NoNameIsSelf
  <2> QED BY <2>1, <1>6, <1>7, VacantContent
<1>9. Settled(st2, P, a)
  <2>1. Sound(st2.heap, P, st.replaced, Ahead(st, a)) /\ SharesBut(st2.heap, P, DueOrSent(st2, a))
    BY <1>4, <1>5
  <2> QED BY <2>1, <1>5, <1>7, <1>8, NothingSent
<1> QED BY <1>1, <1>9

(* The content that already has the record is left as it is.               *)
LEMMA UnwindSkips ==
  ASSUME DimsAssumption, NEW a \in Addresses, NEW st, NEW P, Rising(st, P, a), Settled(st, P, a),
         NEW parent, parent = Parent(st), ~HasOneChild(st.heap, parent),
         ~HolderOf(st.heap, parent).proper,
         NEW st2, st2 = On(st, st.heap, parent)
  PROVE  Going(st2, P, a) /\ Settled(st2, P, a)
<1>1. Sound(st.heap, P, st.replaced, Ahead(st, a))
  BY GoingParts DEF Rising
<1>2. Carries(st.heap, P, st.heap, P, Null)
  BY DEF Carries
<1>3. Kept(st.heap, P, st.heap, P, {PlaceOf(P[parent.o])})
  BY KeptSame
<1>4. parent.e = Self => Shares(st.heap, parent.o)
  BY DEF HasOneChild, Shares
<1> QED BY <1>1, <1>2, <1>3, <1>4, RiseStays

(* The content of an only child is shared.                                 *)
LEMMA UnwindShares ==
  ASSUME DimsAssumption, NEW a \in Addresses, NEW st, NEW P, Rising(st, P, a), Settled(st, P, a),
         NEW parent, parent = Parent(st), HasOneChild(st.heap, parent),
         NEW below, below = Below(st.heap, st.calls[st.d]),
         NEW g, g = SetHolder(st.heap, parent, Holder(below, FALSE)),
         NEW st2, st2 = On(st, g, parent)
  PROVE  Going(st2, P, a) /\ Settled(st2, P, a)
<1>0. PICK d, call, l, b, p, h, R, W, q, r :
        /\ d = st.d /\ call = st.calls[st.d] /\ l = st.calls[st.d].level
        /\ b = Here(st, a, st.d) /\ p = a[st.d] /\ h = st.heap
        /\ R = st.replaced /\ W = Ahead(st, a)
        /\ q = Pre(p, l) /\ r = Holder(below, FALSE)
  OBVIOUS
<1>1. RiseIs(h, P, call, parent, d, l, b, p)
  BY <1>0, RisePlace
<1>2. b \in Bin /\ q \in Path /\ EntryFits(h, P, parent, b, q)
  BY <1>0, <1>1 DEF RiseIs
<1>3. Sound(h, P, R, W)
  BY <1>0, GoingParts DEF Rising
<1>4. OnlyChild(h[parent.o]) /\ parent.e = Self
  BY <1>0 DEF HasOneChild, OnlyChild
<1>5. ~HolderOf(h, parent).proper
  <2>1. IF P[parent.o].node THEN NodeFits(P, R, W, h[parent.o], b, q)
        ELSE FlatFits(P, h[parent.o], b)
    BY <1>2, <1>3, EntryKind
  <2>2. ~h[parent.o].self.proper
    BY <2>1, <1>4 DEF NodeFits, FlatFits
  <2> QED BY <2>2, <1>4 DEF HolderOf
<1>6. HolderFits(P, r, Append(b, q))
  <2>1. CASE call.child = NoEntry
    <3>1. r = NoContent
      BY <2>1, <1>0 DEF Below, NoContent
    <3>2. NoContent \in [c : Nat, proper : BOOLEAN]
      BY DEF NoContent, Holder, Null
    <3> QED BY <3>1, <3>2 DEF HolderFits
  <2>2. CASE call.child # NoEntry
    <3>1. PICK child, x, B : child = call.child /\ x = HolderOf(h, child) /\ B = Append(b, Pre(p, l))
      OBVIOUS
    <3>2. HolderFits(P, Pointer(x.c, FALSE), B)
      BY <2>2, <3>1, <1>1, <1>3, BelowFits
    <3>3. r = Pointer(x.c, FALSE)
      BY <2>2, <3>1, <1>0 DEF Below, Holder, Pointer
    <3> QED BY <3>1, <3>2, <3>3, <1>0
  <2> QED BY <2>1, <2>2
<1>7. Adds(h, P, R, W, h, P, r.c)
  BY <1>3, AddsNothing
<1>8. r.proper = FALSE
  BY <1>0 DEF Holder
<1>9. Sound(SetHolder(h, parent, r), P, R, W)
  <2>1. r.c \in DOMAIN P \ DOMAIN P => r.proper
    OBVIOUS
  <2>2. r.proper => MayOwn(h, parent)
    BY <1>8
  <2> QED BY <2>1, <2>2, <1>2, <1>3, <1>5, <1>6, <1>7, HolderSet
<1>10. Carries(h, P, SetHolder(h, parent, r), P, Null)
  <2>1. parent.o \in DOMAIN P /\ Branches(h[parent.o])
    BY <1>2, <1>3, EntryKind
  <2> QED BY <2>1, <1>7, SetHolderCarries
<1>11. /\ g = SetHolder(h, parent, r) /\ ~HolderOf(st.heap, parent).proper
       /\ Sound(g, P, st.replaced, Ahead(st, a)) /\ Carries(st.heap, P, g, P, Null)
  BY <1>0, <1>5, <1>9, <1>10
<1>12. Kept(h, P, g, P, {PlaceOf(P[parent.o])})
  <2>1. PICK V : V = {PlaceOf(P[parent.o])}
    OBVIOUS
  <2>2. \A x \in DOMAIN P : x # parent.o => g[x] = h[x]
    BY <1>0, <1>3, <1>4 DEF SetHolder, Sound
  <2>3. \A x \in DOMAIN P : PlaceOf(P[x]) \notin V => g[x] = h[x]
    BY <2>1, <2>2
  <2> QED BY <2>1, <2>3 DEF Kept
<1>13. Kept(st.heap, P, g, P, {PlaceOf(P[parent.o])}) /\ Shares(g, parent.o)
  BY <1>0, <1>12, SharedBelow
<1> QED BY <1>11, <1>13, RiseStays

-----------------------------------------------------------------------------
(* The record is sent into a content.                                      *)

LEMMA AheadSame ==
  ASSUME NEW st, NEW st2, st2.d = st.d, st2.calls = st.calls, NEW a
  PROVE  /\ Ahead(st2, a) = Ahead(st, a)
         /\ \A j : Here(st2, a, j) = Here(st, a, j)
<1>1. \A b, q : Comes(st2, b, q) <=> Comes(st, b, q)
  BY DEF Comes
<1>2. Ahead(st2, a) = Ahead(st, a)
  BY <1>1 DEF Ahead
<1> QED BY <1>2 DEF Here

LEMMA ReadyCarried ==
  ASSUME DimsAssumption, NEW st, NEW P, NEW a, NEW W, Ready(st, P, a, W),
         NEW st2, Shape(st2), st2.d = st.d, st2.calls = st.calls, st2.replaced = st.replaced,
         NEW Q, Sound(st2.heap, Q, st.replaced, W), Carries(st.heap, P, st2.heap, Q, Null)
  PROVE  Ready(st2, Q, a, W)
<1>1. /\ Shape(st) /\ Sound(st.heap, P, st.replaced, W) /\ Outer(st.heap, P, st, a, st.d)
      /\ Sent(st, a, W)
  BY DEF Ready
<1>2. st.d \in Nat /\ Null \notin DOMAIN P
  BY <1>1, DimsAre DEF Shape, Sound
<1>3. PICK n, g : n = st.d /\ g = st2.heap
  OBVIOUS
<1>4. Outer(g, Q, st, a, n)
  BY <1>1, <1>2, <1>3, OuterCarried
<1>5. \A j \in 1 .. n : st2.calls[j] = st.calls[j]
  OBVIOUS
<1>6. Outer(g, Q, st2, a, n)
  BY <1>2, <1>3, <1>4, <1>5, OuterSame
<1>7. Ahead(st2, a) = Ahead(st, a) /\ Here(st2, a, st2.d + 1) = Here(st, a, st.d + 1)
  BY AheadSame
<1>8. Sent(st2, a, W)
  BY <1>1, <1>7 DEF Sent
<1> QED BY <1>3, <1>6, <1>8 DEF Ready

LEMMA ReadyHere ==
  ASSUME DimsAssumption, NEW a \in Addresses, NEW st, NEW P, NEW W, Ready(st, P, a, W)
  PROVE  /\ Shape(st) /\ Sound(st.heap, P, st.replaced, W) /\ Outer(st.heap, P, st, a, st.d)
         /\ Sent(st, a, W) /\ Levels(st, a, st.d)
         /\ st.d \in Nat /\ st.d + 1 \in Nat \ {0} /\ st.d + 1 - 1 = st.d
         /\ st.d \in 0 .. Len(Kind)
         /\ Here(st, a, st.d + 1) \in Bin /\ Len(Here(st, a, st.d + 1)) = st.d
<1>1. /\ Shape(st) /\ Sound(st.heap, P, st.replaced, W) /\ Outer(st.heap, P, st, a, st.d)
      /\ Sent(st, a, W)
  BY DEF Ready
<1>2. Len(Kind) \in Nat /\ st.d \in 0 .. Len(Kind) /\ st.d \in Nat
  BY <1>1, DimsAre DEF Shape
<1>3. PICK d : d = st.d
  OBVIOUS
<1>4. Levels(st, a, d)
  BY <1>1, <1>2, <1>3, HereLevels
<1>5. d + 1 \in 1 .. Len(Kind) + 1 /\ d + 1 - 1 = d /\ d + 1 \in Nat \ {0}
  BY <1>2, <1>3
<1>6. Here(st, a, d + 1) \in Bin /\ Len(Here(st, a, d + 1)) = d
  <2>1. PICK j \in 1 .. Len(Kind) + 1 : j = d + 1 /\ j - 1 = d
    BY <1>2, <1>3, <1>5
  <2>2. j \in 1 .. Len(Kind) + 1 /\ j - 1 = d
    BY <2>1
  <2>4. Levels(st, a, j - 1)
    BY <2>2, <1>4
  <2>3. Here(st, a, j) \in Bin /\ Len(Here(st, a, j)) = j - 1
    BY <2>2, <2>4, HereIs
  <2> QED BY <2>1, <2>2, <2>3
<1> QED BY <1>1, <1>2, <1>3, <1>4, <1>5, <1>6

(* There is nothing inside a time series.                                  *)
LEMMA LeafGoes ==
  ASSUME DimsAssumption, NEW a \in Addresses, NEW st, NEW P, NEW W, Ready(st, P, a, W),
         st.d + 1 \notin Dims
  PROVE  Going(st, P, a)
<1>1. PICK h, V, d, B : h = st.heap /\ V = Ahead(st, a) /\ d = st.d /\ B = Here(st, a, st.d + 1)
  OBVIOUS
<1>2. /\ Shape(st) /\ Sound(h, P, st.replaced, W) /\ Outer(st.heap, P, st, a, st.d)
      /\ Sent(st, a, W) /\ d \in Nat /\ d \in 0 .. Len(Kind) /\ B \in Bin /\ Len(B) = d
  BY <1>1, ReadyHere
<1>3. Dims = 1 .. Len(Kind) /\ Len(Kind) \in Nat \ {0}
  BY DimsAre
<1>4. d = Len(Kind)
  BY <1>1, <1>2, <1>3
<1>5. ASSUME NEW n \in DOMAIN P, P[n].node, NEW k \in DOMAIN h[n].kids,
             <<P[n].tree, Append(P[n].path, k)>> \in W \ V
      PROVE  FALSE
  <2>1. P[n].tree \in Bin /\ P[n].path \in Path /\ k \in Names
    <3>1. NodeFits(P, st.replaced, W, h[n], P[n].tree, P[n].path)
      BY <1>2, <1>5, SpotOfNode
    <3>2. DOMAIN h[n].kids \subseteq Names
      BY <3>1 DEF NodeFits, Branches
    <3> QED BY <1>2, <1>5, <3>2, SpotIs
  <2>2. Append(P[n].path, k) \in Path
    BY <2>1, AppendIs DEF Path
  <2>3. Inside(P[n].tree, B) /\ Covers(P[n].tree, Append(P[n].path, k), a)
    BY <1>1, <1>2, <1>5, <2>1, <2>2 DEF Sent
  <2>4. Len(P[n].tree) >= d /\ Len(P[n].tree) + 1 \in 1 .. Len(Kind) /\ Len(P[n].tree) \in Nat
    BY <2>1, <2>3, <1>2, <1>3 DEF Inside, Covers, Bin
  <2> QED BY <2>4, <1>2, <1>3, <1>4
<1>6. UpToDate(h, P, W, V)
  BY <1>5 DEF UpToDate
<1>7. Sound(h, P, st.replaced, V)
  BY <1>2, <1>6, Shrink
<1> QED BY <1>1, <1>2, <1>7, OuterGoing

(* A new call.                                                             *)
EntersAt(st, st2, d, call) ==
  /\ Shape(st2) /\ st2.d = d /\ st2.heap = st.heap /\ st2.replaced = st.replaced
  /\ st2.fault = st.fault /\ st2.calls[d] = call
  /\ \A j \in 1 .. st.d : st2.calls[j] = st.calls[j]

LEMMA EnterIs ==
  ASSUME DimsAssumption, NEW st, Shape(st), NEW d, d = st.d + 1, d \in Dims, NEW call,
         NEW st2, st2 = Enter(st, d, call)
  PROVE  EntersAt(st, st2, d, call)
<1>1. /\ DOMAIN st2 = DOMAIN st /\ st2.d = d /\ st2.heap = st.heap /\ st2.replaced = st.replaced
      /\ st2.fault = st.fault /\ st2.calls = Put(st.calls, d, call)
  BY DEF Enter, Shape
<1>2. st.d \in Nat /\ d \notin 1 .. st.d /\ 1 .. d = (1 .. st.d) \cup {d}
  BY DimsAre DEF Shape
<1>3. 1 .. st.d \subseteq DOMAIN st.calls
  BY DEF Shape
<1>4. /\ DOMAIN st2.calls = DOMAIN st.calls \cup {d} /\ st2.calls[d] = call
      /\ \A j \in DOMAIN st.calls : j # d => st2.calls[j] = st.calls[j]
  BY <1>1 DEF Put
<1>5. Shape(st2)
  BY <1>1, <1>2, <1>3, <1>4 DEF Shape
<1>6. \A j \in 1 .. st.d : st2.calls[j] = st.calls[j]
  BY <1>2, <1>3, <1>4
<1> QED BY <1>1, <1>4, <1>5, <1>6 DEF EntersAt

LEMMA EnterLeaves ==
  ASSUME DimsAssumption, NEW a \in Addresses, NEW st, NEW P, NEW W, Ready(st, P, a, W),
         NEW d, d = st.d + 1, d \in Dims, NEW call, NEW st2, st2 = Enter(st, d, call),
         NEW c \in Bin, NEW r \in Path, <<c, r>> \in W \ Ahead(st2, a)
  PROVE  Covers(c, r, a) /\ Inside(c, Here(st, a, d)) /\ ~Now(st2, c, r)
<1>1. /\ Shape(st2) /\ st2.d = d /\ st2.calls[d] = call
      /\ \A j \in 1 .. st.d : st2.calls[j] = st.calls[j]
  <2>1. Shape(st)
    BY DEF Ready
  <2>2. EntersAt(st, st2, d, call)
    BY <2>1, EnterIs
  <2> QED BY <2>2 DEF EntersAt
<1>2. /\ Outer(st.heap, P, st, a, st.d) /\ Sent(st, a, W) /\ Levels(st, a, st.d)
      /\ st.d \in Nat /\ d - 1 = st.d
  BY ReadyHere
<1>3. <<c, r>> \notin Ahead(st, a)
  <2> SUFFICES ASSUME <<c, r>> \in Ahead(st, a) PROVE FALSE
    OBVIOUS
  <2>1. Covers(c, r, a) /\ Comes(st, c, r)
    BY DEF Ahead
  <2>2. st.d # 0 => ~st.calls[st.d].walking
    <3> SUFFICES ASSUME st.d # 0 PROVE ~st.calls[st.d].walking
      OBVIOUS
    <3>1. st.d \in 1 .. st.d
      BY <1>2
    <3>2. CallFits(st.heap, P, st.calls[st.d], Here(st, a, st.d), a[st.d], FALSE)
      BY <3>1, <1>2 DEF Outer
    <3> QED BY <3>2 DEF CallFits
  <2>3. PICK i \in 1 .. st.d :
          /\ i <= Len(c) /\ Len(c[i]) <= st.calls[i].level
          /\ \A j \in 1 .. i - 1 : Len(c[j]) <= st.calls[j].level + 1
    BY <2>1, <2>2 DEF Comes
  <2>4. i \in 1 .. d /\ \A j \in 1 .. i - 1 : j \in 1 .. st.d
    BY <1>2
  <2>5. /\ Len(c[i]) <= st2.calls[i].level
        /\ \A j \in 1 .. i - 1 : Len(c[j]) <= st2.calls[j].level + 1
    BY <1>1, <2>3, <2>4
  <2>6. Comes(st2, c, r)
    BY <1>1, <2>3, <2>4, <2>5 DEF Comes
  <2>7. <<c, r>> \in Ahead(st2, a)
    BY <2>1, <2>6 DEF Ahead
  <2> QED BY <2>7
<1>4. Covers(c, r, a) /\ Inside(c, Here(st, a, d))
  BY <1>2, <1>3 DEF Sent
<1>5. Here(st2, a, d) = Here(st, a, d)
  <2>1. \A i \in 1 .. d - 1 : st2.calls[i].level = st.calls[i].level
    BY <1>1, <1>2
  <2>2. d \in Nat
    BY DimsAre
  <2> QED BY <2>1, <2>2, HereSame
<1>6. Levels(st2, a, d - 1)
  BY <1>1, <1>2 DEF Levels
<1>7. ~Now(st2, c, r)
  <2> SUFFICES ASSUME Now(st2, c, r) PROVE FALSE
    OBVIOUS
  <2>1. Inside(c, Here(st2, a, st2.d)) /\ st2.d \in Dims /\ Levels(st2, a, st2.d - 1)
    BY <1>1, <1>4, <1>5, <1>6
  <2>2. <<c, r>> \in Ahead(st2, a)
    BY <2>1, <1>4, InsideAhead
  <2> QED BY <2>2
<1> QED BY <1>4, <1>7

LEMMA Entered ==
  ASSUME DimsAssumption, NEW a \in Addresses, NEW st, NEW P, NEW W, Ready(st, P, a, W),
         NEW d, d = st.d + 1, d \in Dims, NEW call, NEW st2, st2 = Enter(st, d, call),
         CallFits(st.heap, P, call, Here(st, a, d), a[d], TRUE),
         UpToDate(st.heap, P, W, Ahead(st2, a))
  PROVE  Going(st2, P, a)
<1>1. /\ Shape(st2) /\ st2.d = d /\ st2.heap = st.heap /\ st2.replaced = st.replaced
      /\ st2.calls[d] = call
      /\ \A j \in 1 .. st.d : st2.calls[j] = st.calls[j]
  <2>1. Shape(st)
    BY DEF Ready
  <2>2. EntersAt(st, st2, d, call)
    BY <2>1, EnterIs
  <2> QED BY <2>2 DEF EntersAt
<1>2. /\ Outer(st.heap, P, st, a, st.d) /\ Sound(st.heap, P, st.replaced, W)
      /\ st.d \in Nat /\ d - 1 = st.d /\ d \in Nat
  BY ReadyHere
<1>3. PICK n : n = st.d
  OBVIOUS
<1>4. Outer(st.heap, P, st2, a, n)
  <2>1. Outer(st.heap, P, st, a, n) /\ n \in Nat /\ \A j \in 1 .. n : st2.calls[j] = st.calls[j]
    BY <1>1, <1>2, <1>3
  <2> QED BY <2>1, OuterSame
<1>5. Here(st2, a, d) = Here(st, a, d)
  <2>1. \A i \in 1 .. d - 1 : st2.calls[i].level = st.calls[i].level
    BY <1>1, <1>2
  <2> QED BY <2>1, <1>2, HereSame
<1>6. Sound(st.heap, P, st.replaced, Ahead(st2, a))
  BY <1>2, Shrink
<1>7. /\ Sound(st2.heap, P, st2.replaced, Ahead(st2, a)) /\ Outer(st2.heap, P, st2, a, st2.d - 1)
      /\ CallFits(st2.heap, P, st2.calls[st2.d], Here(st2, a, st2.d), a[st2.d], TRUE)
      /\ st2.d \in Dims
  BY <1>1, <1>2, <1>3, <1>4, <1>5, <1>6
<1> QED BY <1>1, <1>7, GoesOn

Count(st, g, c) == [OnHeap(st, g) EXCEPT !.updated = @ \cup {c}]

LEMMA Counted ==
  ASSUME NEW st, Shape(st), NEW g, NEW c, NEW st2, st2 = Count(st, g, c)
  PROVE  /\ Shape(st2) /\ st2.d = st.d /\ st2.calls = st.calls /\ st2.heap = g
         /\ st2.replaced = st.replaced
<1>1. /\ Shape(OnHeap(st, g)) /\ OnHeap(st, g).d = st.d /\ OnHeap(st, g).heap = g
      /\ OnHeap(st, g).replaced = st.replaced /\ OnHeap(st, g).calls = st.calls
  BY OnHeapIs
<1> QED BY <1>1 DEF Shape, Count

(* A record is counted.                                                    *)
LEMMA LeafDelivered ==
  ASSUME DimsAssumption, NEW a \in Addresses, NEW st, NEW P, NEW W, Ready(st, P, a, W),
         st.d + 1 \notin Dims, NEW c \in DOMAIN P, P[c] = Of(Here(st, a, st.d + 1)),
         NEW g, g = [st.heap EXCEPT ![c].bag[a] = @ + 1],
         NEW st2, st2 = Count(st, g, c)
  PROVE  Going(st2, P, a)
<1>1. PICK h, d, B : h = st.heap /\ d = st.d /\ B = Here(st, a, st.d + 1)
  OBVIOUS
<1>2. /\ Shape(st) /\ Sound(h, P, st.replaced, W) /\ d \in Nat /\ d \in 0 .. Len(Kind)
      /\ B \in Bin /\ Len(B) = d
  BY <1>1, ReadyHere
<1>3. P[c].tree = B /\ ~P[c].node
  BY <1>1 DEF Of
<1>4. Len(B) + 1 \notin Dims
  BY <1>1, <1>2
<1>5. h[c].kind = "leaf" /\ LeafFits(h[c], B)
  <2>1. QuadFits(P, h[c], B) \/ FlatFits(P, h[c], B) \/ LeafFits(h[c], B)
    BY <1>2, <1>3, SpotOfNode
  <2> QED BY <2>1, <1>4 DEF QuadFits, FlatFits, LeafFits
<1>6. Sound(g, P, st.replaced, W)
  BY <1>1, <1>2, <1>3, <1>5, BagSet
<1>7. Carries(h, P, g, P, Null)
  <2>1. DOMAIN h = DOMAIN P
    BY <1>2 DEF Sound
  <2>2. \A x \in DOMAIN P : x # c => g[x] = h[x]
    BY <1>1, <2>1
  <2>3. g[c].kind = "leaf"
    BY <1>1, <1>5, <2>1 DEF LeafFits
  <2>4. "leaf" # "flat"
    OBVIOUS
  <2> QED BY <2>2, <2>3, <2>4, <1>5 DEF Carries
<1>8. /\ Shape(st2) /\ st2.d = st.d /\ st2.calls = st.calls /\ st2.heap = g
      /\ st2.replaced = st.replaced
  BY <1>2, Counted
<1>9. Ready(st2, P, a, W)
  <2>1. Sound(st2.heap, P, st.replaced, W) /\ Carries(st.heap, P, st2.heap, P, Null)
    BY <1>1, <1>6, <1>7, <1>8
  <2> QED BY <2>1, <1>8, ReadyCarried
<1>10. st2.d + 1 \notin Dims
  BY <1>8
<1> QED BY <1>9, <1>10, LeafGoes

-----------------------------------------------------------------------------
(* The record is sent into a flat tree.                                    *)
ParallelFits(P, par, b) ==
  par # Null => par \in DOMAIN P /\ ~P[par].node /\ Finer(P[par].tree, b)

LEMMA TreeOfKind ==
  ASSUME NEW h, NEW P, NEW R, NEW W, Sound(h, P, R, W), DimsAssumption,
         NEW x \in DOMAIN P, ~P[x].node, NEW d, d = Len(P[x].tree) + 1, d \in Dims
  PROVE  /\ Kind[d] = "flat" => FlatFits(P, h[x], P[x].tree)
         /\ Kind[d] = "quad" => QuadFits(P, h[x], P[x].tree)
<1>1. QuadFits(P, h[x], P[x].tree) \/ FlatFits(P, h[x], P[x].tree) \/ LeafFits(h[x], P[x].tree)
  BY SpotOfNode
<1>2. ~LeafFits(h[x], P[x].tree)
  <2>1. Len(Kind) \in Nat \ {0} /\ Dims = 1 .. Len(Kind)
    BY DimsAre
  <2> QED BY <2>1 DEF LeafFits
<1> QED BY <1>1, <1>2 DEF QuadFits, FlatFits

FlatCall(s, parallel, label, level, child) ==
  [Call(s, parallel) EXCEPT
     !.walking = FALSE,
     !.stack = [l \in 0 .. 1 |-> IF l = 0 THEN Entry(s, Self) ELSE Entry(s, label)],
     !.level = level, !.child = child]

IsFlatCall(call, s, par, label, level, child) ==
  /\ CallShape(call) /\ call.s = s /\ call.parallel = par /\ call.walking = FALSE
  /\ call.level = level /\ call.child = child
  /\ call.stack[0] = Entry(s, Self) /\ call.stack[1] = Entry(s, label)

LEMMA FlatCallIs ==
  ASSUME NEW s, NEW par, NEW label, NEW level, NEW child, NEW call,
         call = FlatCall(s, par, label, level, child)
  PROVE  IsFlatCall(call, s, par, label, level, child)
<1>1. call.stack = [l \in 0 .. 1 |-> IF l = 0 THEN Entry(s, Self) ELSE Entry(s, label)]
  BY DEF FlatCall, Call
<1>2. /\ CallShape(call) /\ call.s = s /\ call.parallel = par /\ call.walking = FALSE
      /\ call.level = level /\ call.child = child
  BY DEF FlatCall, Call, CallShape
<1> QED BY <1>1, <1>2 DEF IsFlatCall

(* The call is at the link of the record, or at the tree if the link is up *)
(* to date.                                                                *)
FlatAt(s, label, level, child) ==
  \/ level = 1 /\ child = NoEntry
  \/ level = 0 /\ child = Entry(s, label)

LEMMA FlatCallFits ==
  ASSUME NEW h, NEW P, NEW b \in Bin, NEW s \in DOMAIN P, P[s] = Of(b), h[s].kind = "flat",
         NEW p \in Path, Len(p) = 1, NEW label, label = p[1], label # Self,
         label \in DOMAIN h[s].kids, NEW par, ParallelFits(P, par, b),
         NEW level, NEW child, FlatAt(s, label, level, child),
         NEW call, call = FlatCall(s, par, label, level, child)
  PROVE  CallFits(h, P, call, b, p, TRUE)
<1>1. /\ CallShape(call) /\ call.s = s /\ call.parallel = par /\ call.walking = FALSE
      /\ call.level = level /\ call.child = child
      /\ call.stack[0] = Entry(s, Self) /\ call.stack[1] = Entry(s, label)
  <2>1. IsFlatCall(call, s, par, label, level, child)
    BY FlatCallIs
  <2> QED BY <2>1 DEF IsFlatCall
<1>2. Pre(p, 0) = <<>> /\ Pre(p, 1) = p /\ p = <<label>>
  <2>1. Pre(p, 0) = <<>> /\ Pre(p, Len(p)) = p
    BY PreEnds DEF Path
  <2>2. p = <<label>>
    BY DEF Path
  <2> QED BY <2>1, <2>2
<1>3. EntryFits(h, P, Entry(s, Self), b, <<>>) /\ EntryFits(h, P, Entry(s, label), b, p)
  BY <1>2 DEF EntryFits, Of, Entry
<1>4. P[s].tree = b
  BY DEF Of
<1>5. level \in 0 .. 1 /\ \A l \in 0 .. level : l = 0 \/ l = 1
  BY DEF FlatAt
<1>6. \A l \in 0 .. call.level : EntryFits(h, P, call.stack[l], b, Pre(p, l))
  BY <1>1, <1>2, <1>3, <1>5
<1>7. ChildFits(h, P, child, b, Pre(p, level + 1))
  <2>1. CASE child = NoEntry
    BY <2>1 DEF ChildFits
  <2>2. CASE level = 0 /\ child = Entry(s, label)
    <3>1. child.o = s /\ Pre(p, level + 1) = p
      BY <2>2, <1>2 DEF Entry
    <3>2. Within(P[s].tree, b)
      BY <1>4, WithinItself
    <3> QED BY <2>2, <3>1, <3>2, <1>3, <1>4 DEF ChildFits
  <2> QED BY <2>1, <2>2 DEF FlatAt
<1>8. call.level \in -1 .. Len(p)
  BY <1>1, <1>5
<1>9. OnPath(h, P, call, b, p, TRUE)
  <2>1. CASE level = 0 /\ child = Entry(s, label)
    BY <2>1, <1>1, <1>2, <1>3 DEF OnPath
  <2>2. CASE level = 1
    BY <2>2, <1>1 DEF OnPath
  <2> QED BY <2>1, <2>2 DEF FlatAt
<1> QED BY <1>1, <1>3, <1>6, <1>7, <1>8, <1>9 DEF CallFits, CallShape, ParallelFits

(* There are no nodes in the place of the tree, and nothing in the content *)
(* of the link if it is not to be updated.                                 *)
LEMMA FlatUpToDate ==
  ASSUME DimsAssumption, NEW a \in Addresses, NEW st, NEW P, NEW W, Ready(st, P, a, W),
         NEW d, d = st.d + 1, d \in Dims, Kind[d] = "flat",
         NEW call, NEW level, call.level = level, ~call.walking,
         level = 1 \/ (level = 0 /\ FreeContent(P, Here(st, a, d), a[d])),
         NEW st2, st2 = Enter(st, d, call)
  PROVE  UpToDate(st.heap, P, W, Ahead(st2, a))
<1>0. PICK h, B, V, p : h = st.heap /\ B = Here(st, a, d) /\ V = Ahead(st2, a) /\ p = a[d]
  OBVIOUS
<1>1. /\ Shape(st) /\ Sound(h, P, st.replaced, W) /\ B \in Bin /\ Len(B) = st.d
      /\ st.d \in Nat /\ d \in Nat /\ Len(B) + 1 = d
  BY <1>0, ReadyHere
<1>2. p \in Path /\ Len(p) = 1
  BY <1>0, AddressIs
<1>3. st2.d = d /\ st2.calls[d] = call
  <2>1. EntersAt(st, st2, d, call)
    BY <1>1, EnterIs
  <2> QED BY <2>1 DEF EntersAt
<1>4. ASSUME NEW n \in DOMAIN P, P[n].node, NEW k \in DOMAIN h[n].kids,
             <<P[n].tree, Append(P[n].path, k)>> \in W \ V
      PROVE  FALSE
  <2>0. PICK c, r : c = P[n].tree /\ r = Append(P[n].path, k)
    OBVIOUS
  <2>1. /\ P[n].tree \in Bin /\ P[n].path \in Path /\ k \in Names
        /\ Kind[Len(c) + 1] = "quad"
    <3>1. NodeFits(P, st.replaced, W, h[n], P[n].tree, P[n].path)
      BY <1>1, <1>4, SpotOfNode
    <3>2. DOMAIN h[n].kids \subseteq Names /\ Kind[Len(c) + 1] = "quad"
      BY <2>0, <3>1 DEF NodeFits, Branches
    <3> QED BY <1>1, <1>4, <3>2, SpotIs
  <2>2. c \in Bin /\ r \in Path /\ <<c, r>> \in W \ Ahead(st2, a)
    BY <1>0, <1>4, <2>0, <2>1, AppendIs DEF Path
  <2>3. Covers(c, r, a) /\ Inside(c, B) /\ ~Now(st2, c, r)
    BY <1>0, <2>2, EnterLeaves
  <2>4. Len(c) \in Nat /\ Len(c) >= Len(B) /\ Len(c) # Len(B)
    <3>1. Len(c) \in Nat /\ Len(c) >= Len(B)
      BY <2>2, <2>3 DEF Inside, Bin
    <3>2. "flat" # "quad"
      OBVIOUS
    <3> QED BY <3>1, <3>2, <2>1, <1>1
  <2>5. d \in 1 .. Len(c) /\ d <= Len(c)
    BY <2>4, <1>1
  <2>6. c[d] \in Path /\ Starts(c[d], p) /\ Len(c[d]) \in Nat
    <3>1. c[d] \in Path
      BY <2>2, <2>5 DEF Bin
    <3>2. Starts(c[d], p)
      BY <2>3, <2>5, <1>0 DEF Covers
    <3> QED BY <3>1, <3>2 DEF Path
  <2>7. ~(Len(c[d]) <= level)
    BY <2>3, <2>5, <1>3 DEF Now
  <2>8. Len(c[d]) <= 1
    BY <2>6, <1>2 DEF Starts
  <2>9. level = 0 /\ FreeContent(P, B, p) /\ Len(c[d]) = 1
    <3>1. PICK m \in Nat : m = Len(c[d])
      BY <2>6
    <3>2. ~(m <= level) /\ m <= 1
      BY <2>7, <2>8, <3>1
    <3>3. level # 1
      BY <3>2
    <3>4. level = 0 /\ FreeContent(P, B, p)
      BY <3>3, <1>0
    <3>5. m = 1
      BY <3>2, <3>4
    <3> QED BY <3>1, <3>4, <3>5
  <2>10. c[d] = p
    <3>1. Starts(c[d], p) /\ Len(c[d]) = Len(p) /\ c[d] = Pre(p, Len(c[d]))
      BY <2>6, <2>9, <1>2 DEF Starts
    <3>2. Pre(p, Len(p)) = p
      BY <1>2, PreEnds DEF Path
    <3> QED BY <3>1, <3>2
  <2>11. UnderContent(P[n], B, p)
    <3>1. Len(c) > Len(B) /\ \A i \in 1 .. Len(B) : c[i] = B[i]
      BY <2>3, <2>4, <1>1 DEF Inside
    <3>2. c[Len(B) + 1] = p
      BY <2>10, <1>1
    <3> QED BY <3>1, <3>2, <2>0 DEF UnderContent
  <2> QED BY <2>9, <2>11 DEF FreeContent
<1>5. UpToDate(h, P, W, V)
  BY <1>4 DEF UpToDate
<1> QED BY <1>0, <1>5

HasLink(h, s, label) == h[s].kind = "flat" /\ label \in DOMAIN h[s].kids
SharesLink(h, s, label) == ~h[s].kids[label].proper
FlatTop(st, a) == a[st.d + 1]
FlatLabel(st, a) == FlatTop(st, a)[1]

LEMMA DueSame ==
  ASSUME NEW st, NEW st2, st2.d = st.d, st2.calls = st.calls, NEW a
  PROVE  Due(st2, a) = Due(st, a) /\ DueOrSent(st2, a) = DueOrSent(st, a)
<1>1. \A b : Here(st2, a, st2.d + 1) = Here(st, a, st.d + 1)
  BY DEF Here
<1>2. \A i, b, q : Pending(st2, i, b, q) <=> Pending(st, i, b, q)
  BY DEF Pending, UpTo, Open
<1>3. Due(st2, a) = Due(st, a)
  BY <1>2 DEF Due
<1> QED BY <1>1, <1>3 DEF DueOrSent

(* What a new call may leave behind.                                       *)
LEMMA EnterDue ==
  ASSUME DimsAssumption, NEW a \in Addresses, NEW st, NEW P, NEW W, Ready(st, P, a, W),
         NEW d, d = st.d + 1, d \in Dims, NEW call, NEW st2, st2 = Enter(st, d, call),
         NEW c, NEW r, <<c, r>> \in DueOrSent(st, a), <<c, r>> \notin Due(st2, a)
  PROVE  /\ c \in Bin /\ r \in Path
         /\ Covers(c, r, a) /\ Inside(c, Here(st, a, d)) /\ ~Open(st2, d, c, r)
<1>1. /\ Shape(st2) /\ st2.d = d /\ st2.calls[d] = call
      /\ \A j \in 1 .. st.d : st2.calls[j] = st.calls[j]
  <2>1. Shape(st)
    BY DEF Ready
  <2>2. EntersAt(st, st2, d, call)
    BY <2>1, EnterIs
  <2> QED BY <2>2 DEF EntersAt
<1>2. /\ Outer(st.heap, P, st, a, st.d) /\ Levels(st, a, st.d)
      /\ st.d \in Nat /\ d - 1 = st.d
  BY ReadyHere
<1>3. <<c, r>> \notin Due(st, a)
  <2> SUFFICES ASSUME <<c, r>> \in Due(st, a) PROVE FALSE
    OBVIOUS
  <2>1. c \in Bin /\ r \in Path /\ Covers(c, r, a) /\ \E i \in 1 .. st.d : Pending(st, i, c, r)
    BY DEF Due
  <2>2. PICK i \in 1 .. st.d : Pending(st, i, c, r)
    BY <2>1
  <2>3. i \in 1 .. d /\ i \in Nat /\ \A j \in 1 .. i - 1 : j \in 1 .. st.d
    BY <1>2
  <2>4. ~st.calls[i].walking
    BY <1>2 DEF Outer, CallFits
  <2>5. Open(st2, i, c, r)
    BY <2>2, <2>4, <1>1 DEF Pending, Open
  <2>6. Pending(st2, i, c, r)
    BY <2>2, <2>3, <2>5, <1>1 DEF Pending, UpTo
  <2> QED BY <2>1, <2>3, <2>6, <1>1 DEF Due
<1>4. c \in Bin /\ r \in Path /\ Covers(c, r, a) /\ Inside(c, Here(st, a, d))
  BY <1>3, DueOrSentIs
<1>5. Here(st2, a, d) = Here(st, a, d)
  <2>1. \A i \in 1 .. d - 1 : st2.calls[i].level = st.calls[i].level
    BY <1>1, <1>2
  <2>2. d \in Nat
    BY DimsAre
  <2> QED BY <2>1, <2>2, HereSame
<1>6. Levels(st2, a, d - 1)
  BY <1>1, <1>2 DEF Levels
<1>7. ~Open(st2, d, c, r)
  <2> SUFFICES ASSUME Open(st2, d, c, r) PROVE FALSE
    OBVIOUS
  <2>1. Inside(c, Here(st2, a, st2.d)) /\ st2.d \in Dims /\ Levels(st2, a, st2.d - 1) /\ Open(st2, st2.d, c, r)
    BY <1>1, <1>4, <1>5, <1>6
  <2>2. <<c, r>> \in Due(st2, a)
    BY <2>1, <1>4, InsideDue
  <2> QED BY <2>2
<1> QED BY <1>4, <1>7

(* The call will come by on the way that it is at the end of, or walks.    *)
LEMMA EnterWay ==
  ASSUME DimsAssumption, NEW a \in Addresses, NEW st, NEW P, NEW W, Ready(st, P, a, W),
         NEW d, d = st.d + 1, d \in Dims, NEW call, NEW st2, st2 = Enter(st, d, call),
         NEW p \in Path, Starts(p, a[d]), call.walking \/ Len(p) <= call.level, call.level \in Int
  PROVE  Way(Here(st, a, d), p) \subseteq Due(st2, a)
<1>1. /\ st2.d = d /\ st2.calls[d] = call
      /\ \A j \in 1 .. st.d : st2.calls[j] = st.calls[j]
  <2>1. Shape(st)
    BY DEF Ready
  <2>2. EntersAt(st, st2, d, call)
    BY <2>1, EnterIs
  <2> QED BY <2>2 DEF EntersAt
<1>2. Levels(st, a, st.d) /\ st.d \in Nat /\ d - 1 = st.d
  BY ReadyHere
<1>3. Here(st2, a, d) = Here(st, a, d)
  <2>1. \A i \in 1 .. d - 1 : st2.calls[i].level = st.calls[i].level
    BY <1>1, <1>2
  <2>2. d \in Nat
    BY DimsAre
  <2> QED BY <2>1, <2>2, HereSame
<1>4. Levels(st2, a, d - 1)
  BY <1>1, <1>2 DEF Levels
<1>5. /\ st2.d \in Dims /\ Levels(st2, a, st2.d - 1) /\ Starts(p, a[st2.d])
      /\ st2.calls[st2.d].walking \/ Len(p) <= st2.calls[st2.d].level
      /\ st2.calls[st2.d].level \in Int
  BY <1>1, <1>4
<1>6. Way(Here(st2, a, st2.d), p) \subseteq Due(st2, a)
  BY <1>5, WayDue
<1> QED BY <1>1, <1>3, <1>6

(* A record is counted: there are no others at the place of a time series. *)
LEMMA LeafSettled ==
  ASSUME DimsAssumption, NEW a \in Addresses, NEW st, NEW P, NEW W, Ready(st, P, a, W),
         SharesBut(st.heap, P, DueOrSent(st, a)),
         st.d + 1 \notin Dims, NEW c \in DOMAIN P, P[c] = Of(Here(st, a, st.d + 1)),
         NEW g, g = [st.heap EXCEPT ![c].bag[a] = @ + 1],
         NEW st2, st2 = Count(st, g, c), Going(st2, P, a)
  PROVE  Settled(st2, P, a)
<1>1. PICK h, d, B, V : h = st.heap /\ d = st.d /\ B = Here(st, a, st.d + 1) /\ V = Due(st2, a)
  OBVIOUS
<1>2. /\ Shape(st) /\ Sound(h, P, st.replaced, W) /\ d \in Nat /\ d \in 0 .. Len(Kind)
      /\ B \in Bin /\ Len(B) = d
  BY <1>1, ReadyHere
<1>3. st2.d = st.d /\ st2.calls = st.calls /\ st2.heap = g /\ st2.replaced = st.replaced
  BY <1>2, Counted
<1>4. V = Due(st, a)
  BY <1>1, <1>3, DueSame
<1>5. DueOrSent(st, a) \subseteq V
  <2> SUFFICES ASSUME NEW w \in DueOrSent(st, a), w \notin V PROVE FALSE
    OBVIOUS
  <2>1. w[1] \in Bin /\ Covers(w[1], w[2], a) /\ Inside(w[1], B)
    BY <1>1, <1>4 DEF DueOrSent
  <2>2. Len(w[1]) \in Nat /\ Len(w[1]) >= d /\ Len(w[1]) + 1 \in Dims
    BY <2>1, <1>2 DEF Inside, Covers, Bin
  <2>3. Dims = 1 .. Len(Kind) /\ Len(Kind) \in Nat
    BY DimsAre
  <2>4. d + 1 \notin Dims
    BY <1>1
  <2> QED BY <2>2, <2>3, <2>4, <1>2
<1>6. Upwards(V) /\ Ahead(st2, a) \subseteq V
  BY <1>1, GoingUpwards
<1>7. Sound(g, P, st2.replaced, Ahead(st2, a))
  BY <1>3 DEF Going
<1>8. SharesBut(g, P, WithPlace(V, B))
  <2>1. PICK U : U = WithPlace(V, B)
    OBVIOUS
  <2>2. SharesBut(h, P, U)
    BY <2>1, <1>1, <1>5 DEF SharesBut, WithPlace
  <2>3. Upwards(U) /\ Ahead(st2, a) \subseteq U
    BY <2>1, <1>6, WithPlaceUpwards DEF WithPlace
  <2>4. Kept(h, P, g, P, U)
    <3>1. PlaceOf(P[c]) = <<B, <<>>>>
      BY <1>1 DEF PlaceOf, Of
    <3>2. PlaceOf(P[c]) \in U
      BY <3>1, <2>1 DEF WithPlace
    <3>3. \A x \in DOMAIN P : x # c => g[x] = h[x]
      BY <1>1, <1>2 DEF Sound
    <3> QED BY <3>2, <3>3 DEF Kept
  <2>5. SharesBut(g, P, U)
    BY <2>2, <2>3, <2>4, <1>7, KeptShares
  <2> QED BY <2>1, <2>5
<1> SUFFICES ASSUME NEW x \in DOMAIN P, PlaceOf(P[x]) \notin V PROVE Shares(g, x)
  BY <1>1, <1>3 DEF Settled, SharesBut
<1>9. CASE PlaceOf(P[x]) # <<B, <<>>>>
  BY <1>8, <1>9 DEF SharesBut, WithPlace
<1>10. CASE PlaceOf(P[x]) = <<B, <<>>>>
  <2>1. P[x].tree = B /\ Len(B) + 1 \notin Dims
    BY <1>1, <1>2, <1>10 DEF PlaceOf
  <2>2. QuadFits(P, g[x], B) \/ LeafFits(g[x], B)
    BY <2>1, <1>7, SpotOfNode DEF NodeFits, FlatFits
  <2>3. g[x].kind \in {"quad", "leaf"}
    BY <2>2 DEF QuadFits, LeafFits
  <2> QED BY <2>3 DEF Shares
<1> QED BY <1>9, <1>10

(* The call of a flat tree comes by wherever there is an object, unless    *)
(* there is nothing in the content of the link.                            *)
LEMMA FlatDue ==
  ASSUME DimsAssumption, NEW a \in Addresses, NEW st, NEW P, NEW W, Ready(st, P, a, W),
         NEW d, d = st.d + 1, d \in Dims, Kind[d] = "flat",
         NEW call, NEW level, call.level = level, ~call.walking,
         level = 1 \/ (level = 0 /\ FreeContent(P, Here(st, a, d), a[d])),
         NEW st2, st2 = Enter(st, d, call),
         NEW x \in DOMAIN P, PlaceOf(P[x]) \in DueOrSent(st, a)
  PROVE  PlaceOf(P[x]) \in Due(st2, a)
<1> SUFFICES ASSUME PlaceOf(P[x]) \notin Due(st2, a) PROVE FALSE
  OBVIOUS
<1>0. PICK h, B, p, c, r : /\ h = st.heap /\ B = Here(st, a, d) /\ p = a[d]
                           /\ c = P[x].tree /\ r = P[x].path
  OBVIOUS
<1>1. /\ Shape(st) /\ Sound(h, P, st.replaced, W) /\ B \in Bin /\ Len(B) = st.d
      /\ st.d \in Nat /\ d \in Nat /\ Len(B) + 1 = d /\ Len(B) \in Nat
  BY <1>0, ReadyHere
<1>2. p \in Path /\ Len(p) = 1
  BY <1>0, AddressIs
<1>3. st2.d = d /\ st2.calls[d] = call
  <2>1. EntersAt(st, st2, d, call)
    BY <1>1, EnterIs
  <2> QED BY <2>1 DEF EntersAt
<1>4. /\ c \in Bin /\ r \in Path
      /\ Covers(c, r, a) /\ Inside(c, B) /\ ~Open(st2, d, c, r)
  <2>1. <<c, r>> \in DueOrSent(st, a) /\ <<c, r>> \notin Due(st2, a)
    BY <1>0 DEF PlaceOf
  <2> QED BY <2>1, <1>0, EnterDue
<1>5. Len(c) \in Nat /\ Len(c) >= Len(B)
  BY <1>1, <1>4 DEF Inside, Bin
<1>6. CASE Len(c) = Len(B)
  <2>1. ~P[x].node
    <3>1. P[x].node => NodeFits(P, st.replaced, W, h[x], c, r)
      BY <1>0, <1>1, SpotOfNode
    <3>2. "flat" # "quad"
      OBVIOUS
    <3> QED BY <3>1, <3>2, <1>1, <1>6 DEF NodeFits
  <2>2. r = <<>>
    BY <2>1, <1>0, <1>1, SpotIs DEF Of
  <2>3. Len(r) = 0 /\ level \in {0, 1}
    BY <2>2
  <2>4. Open(st2, d, c, r)
    BY <2>3, <1>1, <1>3, <1>6 DEF Open
  <2> QED BY <2>4, <1>4
<1>7. CASE Len(c) # Len(B)
  <2>1. d \in 1 .. Len(c) /\ Len(c) > Len(B) /\ Len(c) # d - 1
    BY <1>1, <1>5, <1>7
  <2>2. c[d] \in Path /\ Starts(c[d], p) /\ Len(c[d]) \in Nat
    <3>1. c[d] \in Path
      BY <2>1, <1>4 DEF Bin
    <3>2. Starts(c[d], p)
      BY <2>1, <1>0, <1>4 DEF Covers
    <3> QED BY <3>1, <3>2 DEF Path
  <2>3. ~(Len(c[d]) <= level)
    BY <2>1, <1>3, <1>4 DEF Open
  <2>4. Len(c[d]) <= 1
    BY <2>2, <1>2 DEF Starts
  <2>5. level = 0 /\ FreeContent(P, B, p) /\ Len(c[d]) = 1
    <3>1. PICK m \in Nat : m = Len(c[d])
      BY <2>2
    <3>2. ~(m <= level) /\ m <= 1
      BY <2>3, <2>4, <3>1
    <3>3. level # 1
      BY <3>2
    <3>4. level = 0 /\ FreeContent(P, B, p)
      BY <3>3, <1>0
    <3>5. m = 1
      BY <3>2, <3>4
    <3> QED BY <3>1, <3>4, <3>5
  <2>6. c[d] = p
    <3>1. Starts(c[d], p) /\ Len(c[d]) = Len(p) /\ c[d] = Pre(p, Len(c[d]))
      BY <2>2, <2>5, <1>2 DEF Starts
    <3>2. Pre(p, Len(p)) = p
      BY <1>2, PreEnds DEF Path
    <3> QED BY <3>1, <3>2
  <2>7. UnderContent(P[x], B, p)
    <3>1. Len(c) > Len(B) /\ \A i \in 1 .. Len(B) : c[i] = B[i]
      BY <2>1, <1>4 DEF Inside
    <3>2. c[Len(B) + 1] = p
      BY <2>6, <1>1
    <3> QED BY <3>1, <3>2, <1>0 DEF UnderContent
  <2> QED BY <2>5, <2>7 DEF FreeContent
<1> QED BY <1>6, <1>7

LEMMA FlatEnters ==
  ASSUME DimsAssumption, NEW a \in Addresses, NEW st, NEW P, NEW W, Ready(st, P, a, W),
         NEW d, d = st.d + 1, d \in Dims, Kind[d] = "flat",
         NEW s \in DOMAIN P, P[s] = Of(Here(st, a, d)),
         NEW par, ParallelFits(P, par, Here(st, a, d)),
         NEW label, label = FlatLabel(st, a), HasLink(st.heap, s, label),
         NEW level, NEW child, FlatAt(s, label, level, child),
         level = 0 => SharesLink(st.heap, s, label),
         NEW st2, st2 = Enter(st, d, FlatCall(s, par, label, level, child))
  PROVE  /\ Leads(st.heap, P, DueOrSent(st, a), st2, P, a)
         /\ st2.heap = st.heap /\ <<Here(st, a, d), <<>>>> \in Due(st2, a)
<1>0. PICK h, B, p, call :
        h = st.heap /\ B = Here(st, a, d) /\ p = a[d] /\ call = FlatCall(s, par, label, level, child)
  OBVIOUS
<1>1. /\ Shape(st) /\ Sound(h, P, st.replaced, W) /\ B \in Bin /\ Len(B) = st.d
      /\ st.d \in Nat /\ d \in Nat /\ Len(B) + 1 = d
  BY <1>0, ReadyHere
<1>2. p \in Path /\ Len(p) = 1 /\ label = p[1] /\ label # Self
  BY <1>0, AddressIs DEF FlatLabel, FlatTop
<1>3. CallFits(h, P, call, B, p, TRUE)
  BY <1>0, <1>1, <1>2, FlatCallFits DEF HasLink
<1>4. call.level = level /\ ~call.walking
  <2>1. IsFlatCall(call, s, par, label, level, child)
    BY <1>0, FlatCallIs
  <2> QED BY <2>1 DEF IsFlatCall
<1>5. level = 0 => FreeContent(P, B, p)
  <2> SUFFICES ASSUME level = 0 PROVE FreeContent(P, B, p)
    OBVIOUS
  <2>1. PICK x : x = Entry(s, label)
    OBVIOUS
  <2>2. p = <<label>>
    BY <1>2 DEF Path
  <2>3. EntryFits(h, P, x, B, p)
    BY <2>1, <2>2, <1>0, <1>2 DEF EntryFits, HasLink, Entry, Of
  <2>4. ~HolderOf(h, x).proper
    BY <2>1, <1>0, <1>2 DEF HolderOf, Entry, SharesLink
  <2>5. Self \notin Names
    BY NoNameIsSelf
  <2> QED BY <2>3, <2>4, <2>5, <1>1, <1>2, VacantContent
<1>6. level = 1 \/ (level = 0 /\ FreeContent(P, Here(st, a, d), a[d]))
  BY <1>0, <1>5 DEF FlatAt
<1>7. st2 = Enter(st, d, call)
  BY <1>0
<1>8. UpToDate(st.heap, P, W, Ahead(st2, a))
  BY <1>4, <1>6, <1>7, FlatUpToDate
<1>9. CallFits(st.heap, P, call, Here(st, a, d), a[d], TRUE)
  BY <1>0, <1>3
<1>10. Going(st2, P, a)
  BY <1>7, <1>8, <1>9, Entered
<1>11. st2.heap = st.heap
  <2>1. EntersAt(st, st2, d, call)
    BY <1>1, <1>7, EnterIs
  <2> QED BY <2>1 DEF EntersAt
<1>12. \A x \in DOMAIN P : PlaceOf(P[x]) \in DueOrSent(st, a) => PlaceOf(P[x]) \in Due(st2, a)
  BY <1>4, <1>6, <1>7, FlatDue
<1>13. <<B, <<>>>> \in Due(st2, a)
  <2>1. PICK q : q = <<>>
    OBVIOUS
  <2>2. q \in Path /\ Starts(q, a[d]) /\ Len(q) = 0
    BY <2>1, <1>0, <1>2, EmptyStarts
  <2>3. call.level \in Int /\ Len(q) <= call.level
    BY <2>2, <1>4, <1>6
  <2>4. Way(Here(st, a, d), q) \subseteq Due(st2, a)
    BY <2>2, <2>3, <1>7, EnterWay
  <2>5. Starts(q, q)
    BY <2>2, StartsItself DEF Path
  <2> QED BY <2>1, <2>2, <2>4, <2>5, <1>0 DEF Way
<1>14. Kept(st.heap, P, st2.heap, P, Due(st2, a))
  BY <1>11, KeptSame
<1> QED BY <1>0, <1>10, <1>11, <1>12, <1>13, <1>14 DEF Leads

(* The heap is changed under the calls on their way up.                    *)
LEMMA ReadyOnHeap ==
  ASSUME DimsAssumption, NEW st, NEW P, NEW a, NEW W, Ready(st, P, a, W),
         NEW g, NEW Q, Sound(g, Q, st.replaced, W), Carries(st.heap, P, g, Q, Null),
         NEW st2, st2 = OnHeap(st, g)
  PROVE  /\ Ready(st2, Q, a, W) /\ st2.heap = g /\ st2.d = st.d /\ st2.replaced = st.replaced
         /\ \A j : Here(st2, a, j) = Here(st, a, j)
<1>1. Shape(st)
  BY DEF Ready
<1>2. /\ Shape(st2) /\ st2.d = st.d /\ st2.heap = g /\ st2.replaced = st.replaced
      /\ st2.calls = st.calls
  BY <1>1, OnHeapIs
<1>3. Ready(st2, Q, a, W)
  <2>1. Sound(st2.heap, Q, st.replaced, W) /\ Carries(st.heap, P, st2.heap, Q, Null)
    BY <1>2
  <2> QED BY <2>1, <1>2, ReadyCarried
<1>4. \A j : Here(st2, a, j) = Here(st, a, j)
  BY <1>2, AheadSame
<1> QED BY <1>2, <1>3, <1>4

Linked(st, st2, P, a, W, s, label) ==
  /\ Ready(st2, P, a, W) /\ st2.d = st.d /\ Here(st2, a, st.d + 1) = Here(st, a, st.d + 1)
  /\ HasLink(st2.heap, s, label) /\ SharesLink(st2.heap, s, label)

LEMMA FlatLinked ==
  ASSUME DimsAssumption, NEW st, NEW P, NEW a, NEW W, Ready(st, P, a, W),
         NEW s \in DOMAIN P, ~P[s].node, st.heap[s].kind = "flat", Branches(st.heap[s]),
         NEW label \in Names, ~HasLink(st.heap, s, label),
         NEW holder, ~holder.proper, HolderFits(P, holder, Append(P[s].tree, <<label>>)),
         NEW st2, st2 = OnHeap(st, SetKid(st.heap, s, label, holder))
  PROVE  Linked(st, st2, P, a, W, s, label)
<1>1. PICK h, g : h = st.heap /\ g = SetKid(st.heap, s, label, holder)
  OBVIOUS
<1>2. Sound(h, P, st.replaced, W)
  BY <1>1 DEF Ready
<1>3. label \notin DOMAIN h[s].kids /\ h[s].kind = "flat" /\ Branches(h[s])
  BY <1>1 DEF HasLink
<1>4. Sound(g, P, st.replaced, W)
  BY <1>1, <1>2, <1>3, LinkSet
<1>5. Carries(h, P, g, P, Null)
  <2>1. Adds(h, P, st.replaced, W, h, P, Null)
    BY <1>2, AddsNothing
  <2> QED BY <2>1, <1>1, <1>3, SetKidCarries
<1>6. /\ Ready(st2, P, a, W) /\ st2.heap = g /\ st2.d = st.d
      /\ Here(st2, a, st.d + 1) = Here(st, a, st.d + 1)
  <2>1. Carries(st.heap, P, g, P, Null) /\ st2 = OnHeap(st, g)
    BY <1>1, <1>5
  <2> QED BY <2>1, <1>4, ReadyOnHeap
<1>7. HasLink(g, s, label) /\ SharesLink(g, s, label)
  <2>1. s \in DOMAIN h
    BY <1>2 DEF Sound
  <2>2. g[s] = [h[s] EXCEPT !.kids = Put(h[s].kids, label, holder)]
    BY <1>1, <2>1 DEF SetKid
  <2>3. g[s].kids = Put(h[s].kids, label, holder) /\ g[s].kind = "flat"
    BY <2>2, <1>3 DEF Branches
  <2> QED BY <2>3 DEF HasLink, SharesLink, Put
<1> QED BY <1>6, <1>7 DEF Linked

(* The content that the parallel flat tree has at the link is that of a    *)
(* finer bin.                                                              *)
LinkOf(h, s, label) == h[s].kids[label].c

LEMMA ParallelLink ==
  ASSUME DimsAssumption, NEW h, NEW P, NEW R, NEW W, Sound(h, P, R, W),
         NEW B \in Bin, NEW d, d = Len(B) + 1, d \in Dims, Kind[d] = "flat",
         NEW par, par # Null, ParallelFits(P, par, B),
         NEW label \in Names, label \in DOMAIN h[par].kids
  PROVE  /\ HolderFits(P, Holder(LinkOf(h, par, label), FALSE), Append(B, <<label>>))
         /\ LinkOf(h, par, label) \in DOMAIN P
              => ~Within(Append(B, <<label>>), P[LinkOf(h, par, label)].tree)
<1>0. PICK r, q, c : r = h[par].kids[label] /\ q = <<label>> /\ c = P[par].tree
  OBVIOUS
<1>1. par \in DOMAIN P /\ ~P[par].node /\ Finer(c, B) /\ c \in Bin
  <2>1. par \in DOMAIN P /\ ~P[par].node /\ Finer(c, B)
    BY <1>0 DEF ParallelFits
  <2> QED BY <2>1, <1>0, SpotIs
<1>2. Within(c, B) /\ c # B /\ Len(c) = Len(B)
  BY <1>1, FinerIs
<1>3. FlatFits(P, h[par], c)
  BY <1>0, <1>1, <1>2, TreeOfKind
<1>4. HolderFits(P, r, Append(c, q))
  BY <1>0, <1>3 DEF FlatFits
<1>5. q \in Path
  BY <1>0 DEF Path
<1>6. Append(c, q) \in Bin /\ Append(B, q) \in Bin
  BY <1>1, <1>5, AppendIs DEF Bin
<1>7. Within(Append(c, q), Append(B, q))
  <2>1. Starts(q, q)
    BY <1>5, StartsItself DEF Path
  <2> QED BY <2>1, <1>1, <1>2, <1>5, WithinAppend
<1>8. P \in [DOMAIN P -> Spots]
  BY DEF Sound
<1>9. HolderFits(P, Pointer(r.c, FALSE), Append(B, q))
  BY <1>4, <1>6, <1>7, <1>8, SharedHolder
<1>10. ASSUME r.c \in DOMAIN P, Within(Append(B, q), P[r.c].tree)
       PROVE  FALSE
  <2>1. PICK x, e : x = r.c /\ e = P[r.c].tree
    OBVIOUS
  <2>2. x # Null /\ e \in Bin
    <3>1. Null \notin DOMAIN P
      BY DEF Sound
    <3> QED BY <3>1, <2>1, <1>10, SpotIs
  <2>3. Within(e, Append(c, q))
    BY <2>1, <2>2, <1>4 DEF HolderFits, NoContent, Holder
  <2>4. Within(Append(B, q), Append(c, q))
    BY <2>1, <2>2, <2>3, <1>6, <1>10, WithinTransitive
  <2>5. Append(B, q) = Append(c, q)
    BY <2>4, <1>6, <1>7, WithinBoth
  <2>6. B = c
    BY <2>5, <1>1, <1>5, AppendSame DEF Bin
  <2> QED BY <2>6, <1>2
<1> QED BY <1>0, <1>9, <1>10 DEF LinkOf, Holder, Pointer

(* The link is up to date: it shares the content of the parallel one.      *)
LEMMA LinkShared ==
  ASSUME DimsAssumption, NEW h, NEW P, NEW R, NEW W, Sound(h, P, R, W),
         NEW B \in Bin, NEW d, d = Len(B) + 1, d \in Dims, Kind[d] = "flat",
         NEW par, par # Null, ParallelFits(P, par, B),
         NEW label \in Names, label \in DOMAIN h[par].kids,
         NEW s \in DOMAIN P, P[s] = Of(B), HasLink(h, s, label),
         LinkOf(h, s, label) = LinkOf(h, par, label)
  PROVE  SharesLink(h, s, label)
<1> SUFFICES ASSUME h[s].kids[label].proper PROVE FALSE
  BY DEF SharesLink
<1>0. PICK r, q, x : r = h[s].kids[label] /\ q = <<label>> /\ x = LinkOf(h, par, label)
  OBVIOUS
<1>1. P[s].tree = B /\ ~P[s].node
  BY DEF Of
<1>2. FlatFits(P, h[s], B)
  BY <1>1, TreeOfKind
<1>3. HolderFits(P, r, Append(B, q)) /\ r.c = x /\ r.proper
  BY <1>0, <1>2 DEF FlatFits, HasLink, LinkOf
<1>4. x \in DOMAIN P /\ P[x].tree = Append(B, q)
  BY <1>3 DEF HolderFits, NoContent, Holder
<1>5. Append(B, q) \in Bin
  <2>1. q \in Path
    BY <1>0 DEF Path
  <2> QED BY <2>1, AppendIs DEF Bin
<1>6. Within(Append(B, q), P[x].tree)
  BY <1>4, <1>5, WithinItself
<1>7. ~Within(Append(B, <<label>>), P[LinkOf(h, par, label)].tree)
  <2>1. LinkOf(h, par, label) \in DOMAIN P
    BY <1>0, <1>4
  <2> QED BY <2>1, ParallelLink
<1> QED BY <1>0, <1>6, <1>7

FlatSteps(st, st2, d, s, par, label) ==
  LET new == ~HasLink(st.heap, s, label)
      link(holder) == OnHeap(st, SetKid(st.heap, s, label, holder))
      call(level, child) == FlatCall(s, par, label, level, child)
      shared == Holder(LinkOf(st.heap, par, label), FALSE)
  IN  st2 = IF par = Null
            THEN IF new THEN Enter(link(NoContent), d, call(1, NoEntry))
                 ELSE Enter(OnHeap(st, st.heap), d, call(1, NoEntry))
            ELSE IF label \notin DOMAIN st.heap[par].kids THEN Fail(st)
            ELSE IF new THEN Enter(link(shared), d, call(0, Entry(s, label)))
            ELSE IF LinkOf(st.heap, s, label) = LinkOf(st.heap, par, label)
            THEN Enter(st, d, call(0, Entry(s, label)))
            ELSE Enter(st, d, call(1, NoEntry))

LEMMA EnterFlatIs ==
  ASSUME NEW st, NEW s, st.heap[s].kind = "flat", NEW d, NEW par, NEW p, NEW label, label = p[1],
         NEW st2, st2 = EnterFlat(st, d, s, par, p)
  PROVE  FlatSteps(st, st2, d, s, par, label)
<1>1. HasLink(st.heap, s, label) <=> label \in DOMAIN st.heap[s].kids
  BY DEF HasLink
<1> QED BY <1>1, Zenon DEF EnterFlat, FlatSteps, FlatCall, LinkOf

LEMMA FlatNew ==
  ASSUME DimsAssumption, NEW a \in Addresses, NEW st, NEW P, NEW W, Ready(st, P, a, W),
         NEW d, d = st.d + 1, d \in Dims, Kind[d] = "flat",
         NEW s \in DOMAIN P, P[s] = Of(Here(st, a, d)),
         NEW par, ParallelFits(P, par, Here(st, a, d)),
         NEW label, label = FlatLabel(st, a), ~HasLink(st.heap, s, label),
         st.heap[s].kind = "flat", Branches(st.heap[s]), label \in Names,
         NEW holder, ~holder.proper, HolderFits(P, holder, Append(Here(st, a, d), <<label>>)),
         NEW level, NEW child, FlatAt(s, label, level, child),
         NEW st1, st1 = OnHeap(st, SetKid(st.heap, s, label, holder)),
         NEW st2, st2 = Enter(st1, d, FlatCall(s, par, label, level, child))
  PROVE  Leads(st.heap, P, DueOrSent(st, a), st2, P, a)
<1>1. ~P[s].node /\ P[s].tree = Here(st, a, d)
  BY DEF Of
<1>2. HolderFits(P, holder, Append(P[s].tree, <<label>>))
  BY <1>1
<1>3. Linked(st, st1, P, a, W, s, label)
  BY <1>1, <1>2, FlatLinked
<1>4. /\ Ready(st1, P, a, W) /\ d = st1.d + 1 /\ Here(st1, a, d) = Here(st, a, d)
      /\ HasLink(st1.heap, s, label) /\ SharesLink(st1.heap, s, label)
      /\ label = FlatLabel(st1, a)
  BY <1>3 DEF Linked, FlatLabel, FlatTop
<1>5. P[s] = Of(Here(st1, a, d)) /\ ParallelFits(P, par, Here(st1, a, d))
  BY <1>4
<1>6. /\ Leads(st1.heap, P, DueOrSent(st1, a), st2, P, a)
      /\ st2.heap = st1.heap /\ <<Here(st1, a, d), <<>>>> \in Due(st2, a)
  BY <1>4, <1>5, FlatEnters
<1>7. Shape(st) /\ s \in DOMAIN st.heap
  BY DEF Ready, Sound
<1>8. st1.calls = st.calls /\ st1.heap = SetKid(st.heap, s, label, holder) /\ st1.d = st.d
  BY <1>7, OnHeapIs
<1>9. DueOrSent(st1, a) = DueOrSent(st, a)
  BY <1>8, DueSame
<1>10. PlaceOf(P[s]) \in Due(st2, a)
  BY <1>4, <1>6 DEF PlaceOf, Of
<1>11. \A x \in DOMAIN P : x # s => st1.heap[x] = st.heap[x]
  BY <1>7, <1>8 DEF SetKid, Ready, Sound
<1>12. Kept(st.heap, P, st2.heap, P, Due(st2, a))
  BY <1>6, <1>10, <1>11 DEF Kept
<1> QED BY <1>6, <1>9, <1>12 DEF Leads

LEMMA FlatGoes ==
  ASSUME DimsAssumption, NEW a \in Addresses, NEW st, NEW P, NEW W, Ready(st, P, a, W),
         NEW d, d = st.d + 1, d \in Dims, Kind[d] = "flat",
         NEW s \in DOMAIN P, P[s] = Of(Here(st, a, d)),
         NEW par, ParallelFits(P, par, Here(st, a, d)),
         NEW st2, st2 = EnterFlat(st, d, s, par, a[d])
  PROVE  st2.fault = TRUE \/ Leads(st.heap, P, DueOrSent(st, a), st2, P, a)
<1>0. PICK h, B, label, shared :
        /\ h = st.heap /\ B = Here(st, a, d) /\ label = FlatLabel(st, a)
        /\ shared = Holder(LinkOf(st.heap, par, label), FALSE)
  OBVIOUS
<1>1. /\ Shape(st) /\ Sound(h, P, st.replaced, W) /\ B \in Bin /\ Len(B) + 1 = d
  BY <1>0, ReadyHere
<1>2. label = a[d][1] /\ label \in Names
  <2>1. a[d] \in Path /\ Len(a[d]) = 1 /\ label = a[d][1]
    BY <1>0, AddressIs DEF FlatLabel, FlatTop
  <2> QED BY <2>1 DEF Path
<1>3. P[s].tree = B /\ ~P[s].node
  BY <1>0 DEF Of
<1>4. h[s].kind = "flat" /\ Branches(h[s])
  <2>1. FlatFits(P, h[s], B)
    BY <1>1, <1>3, TreeOfKind
  <2> QED BY <2>1 DEF FlatFits
<1>5. FlatSteps(st, st2, d, s, par, label)
  BY <1>0, <1>2, <1>4, EnterFlatIs
<1>6. FlatAt(s, label, 1, NoEntry) /\ FlatAt(s, label, 0, Entry(s, label))
  BY DEF FlatAt
<1>7. ASSUME NEW holder, ~holder.proper, HolderFits(P, holder, Append(B, <<label>>)),
             ~HasLink(h, s, label), NEW level, NEW child, FlatAt(s, label, level, child),
             NEW st1, st1 = OnHeap(st, SetKid(st.heap, s, label, holder)),
             st2 = Enter(st1, d, FlatCall(s, par, label, level, child))
      PROVE  Leads(st.heap, P, DueOrSent(st, a), st2, P, a)
  <2>1. /\ ~HasLink(st.heap, s, label) /\ st.heap[s].kind = "flat" /\ Branches(st.heap[s])
        /\ HolderFits(P, holder, Append(Here(st, a, d), <<label>>))
    BY <1>0, <1>4, <1>7
  <2> QED BY <2>1, <1>0, <1>2, <1>7, FlatNew
<1>8. ASSUME HasLink(h, s, label), NEW level, NEW child, FlatAt(s, label, level, child),
             level = 0 => SharesLink(h, s, label),
             NEW st1, Ready(st1, P, a, W), st1.heap = st.heap, st1.d = st.d, st1.calls = st.calls,
             Here(st1, a, d) = Here(st, a, d),
             st2 = Enter(st1, d, FlatCall(s, par, label, level, child))
      PROVE  Leads(st.heap, P, DueOrSent(st, a), st2, P, a)
  <2>1. /\ HasLink(st1.heap, s, label) /\ (level = 0 => SharesLink(st1.heap, s, label))
        /\ d = st1.d + 1 /\ label = FlatLabel(st1, a)
    BY <1>0, <1>8 DEF FlatLabel, FlatTop
  <2>2. P[s] = Of(Here(st1, a, d)) /\ ParallelFits(P, par, Here(st1, a, d))
    BY <1>8
  <2>3. Leads(st1.heap, P, DueOrSent(st1, a), st2, P, a)
    BY <2>1, <2>2, <1>8, FlatEnters
  <2>4. DueOrSent(st1, a) = DueOrSent(st, a)
    BY <1>8, DueSame
  <2> QED BY <2>3, <2>4, <1>8
<1>9. CASE par = Null /\ ~HasLink(h, s, label)
  <2>1. PICK st1 : st1 = OnHeap(st, SetKid(st.heap, s, label, NoContent))
    OBVIOUS
  <2>2. st2 = Enter(st1, d, FlatCall(s, par, label, 1, NoEntry))
    BY <2>1, <1>0, <1>5, <1>9 DEF FlatSteps
  <2>3. ~NoContent.proper /\ HolderFits(P, NoContent, Append(B, <<label>>))
    <3>1. NoContent \in [c : Nat, proper : BOOLEAN] /\ ~NoContent.proper
      BY DEF NoContent, Holder, Null
    <3> QED BY <3>1 DEF HolderFits
  <2> QED BY <2>1, <2>2, <2>3, <1>6, <1>7, <1>9
<1>10. CASE par = Null /\ HasLink(h, s, label)
  <2>1. PICK st1 : st1 = OnHeap(st, h)
    OBVIOUS
  <2>2. st2 = Enter(st1, d, FlatCall(s, par, label, 1, NoEntry))
    BY <2>1, <1>0, <1>5, <1>10 DEF FlatSteps
  <2>3. /\ Ready(st1, P, a, W) /\ st1.heap = st.heap /\ st1.d = st.d
        /\ st1.calls = st.calls /\ Here(st1, a, d) = Here(st, a, d)
    <3>1. Carries(st.heap, P, h, P, Null)
      BY <1>0 DEF Carries
    <3>2. st1.calls = st.calls
      BY <2>1, <1>1, OnHeapIs
    <3> QED BY <3>1, <3>2, <2>1, <1>0, <1>1, ReadyOnHeap
  <2>4. 1 = 0 => SharesLink(h, s, label)
    OBVIOUS
  <2> QED BY <2>2, <2>3, <2>4, <1>6, <1>8, <1>10
<1>11. CASE par # Null /\ label \notin DOMAIN h[par].kids
  <2>1. st2 = Fail(st)
    BY <1>0, <1>5, <1>11 DEF FlatSteps
  <2> QED BY <2>1, <1>1 DEF Fail, Shape
<1>12. CASE par # Null /\ label \in DOMAIN h[par].kids /\ ~HasLink(h, s, label)
  <2>1. PICK st1 : st1 = OnHeap(st, SetKid(st.heap, s, label, shared))
    OBVIOUS
  <2>2. st2 = Enter(st1, d, FlatCall(s, par, label, 0, Entry(s, label)))
    BY <2>1, <1>0, <1>5, <1>12 DEF FlatSteps
  <2>3. HolderFits(P, shared, Append(B, <<label>>))
    <3>1. ParallelFits(P, par, B)
      BY <1>0
    <3>2. HolderFits(P, Holder(LinkOf(h, par, label), FALSE), Append(B, <<label>>))
      BY <3>1, <1>1, <1>2, <1>12, ParallelLink
    <3> QED BY <3>2, <1>0
  <2>4. ~shared.proper
    BY <1>0 DEF Holder
  <2> QED BY <2>1, <2>2, <2>3, <2>4, <1>6, <1>7, <1>12
<1>13. CASE par # Null /\ label \in DOMAIN h[par].kids /\ HasLink(h, s, label)
  <2>0. Ready(st, P, a, W)
    OBVIOUS
  <2>1. CASE LinkOf(h, s, label) = LinkOf(h, par, label)
    <3>1. st2 = Enter(st, d, FlatCall(s, par, label, 0, Entry(s, label)))
      BY <2>1, <1>0, <1>5, <1>13 DEF FlatSteps
    <3>2. SharesLink(h, s, label)
      <4>1. ParallelFits(P, par, B) /\ P[s] = Of(B)
        BY <1>0
      <4> QED BY <4>1, <2>1, <1>1, <1>2, <1>13, LinkShared
    <3> QED BY <3>1, <3>2, <2>0, <1>6, <1>8, <1>13
  <2>2. CASE LinkOf(h, s, label) # LinkOf(h, par, label)
    <3>1. st2 = Enter(st, d, FlatCall(s, par, label, 1, NoEntry))
      BY <2>2, <1>0, <1>5, <1>13 DEF FlatSteps
    <3>2. 1 = 0 => SharesLink(h, s, label)
      OBVIOUS
    <3> QED BY <3>1, <3>2, <2>0, <1>6, <1>8, <1>13
  <2> QED BY <2>1, <2>2
<1> QED BY <1>9, <1>10, <1>11, <1>12, <1>13

-----------------------------------------------------------------------------
(* The record is sent into a quadtree.                                     *)
QuadCall(s, par, node, parNode) ==
  [Call(s, par) EXCEPT !.node = node, !.parNode = parNode]

IsQuadCall(call, s, par, node, parNode) ==
  /\ CallShape(call) /\ call.s = s /\ call.parallel = par /\ call.walking = TRUE
  /\ call.level = 0 /\ call.node = node /\ call.prev = Null /\ call.parNode = parNode
  /\ call.child = NoEntry

LEMMA QuadCallIs ==
  ASSUME NEW s, NEW par, NEW node, NEW parNode, NEW call, call = QuadCall(s, par, node, parNode)
  PROVE  IsQuadCall(call, s, par, node, parNode)
BY DEF QuadCall, Call, IsQuadCall, CallShape

LEMMA QuadCallFits ==
  ASSUME NEW h, NEW P, NEW b \in Bin, Kind[Len(b) + 1] = "quad",
         NEW s \in DOMAIN P, P[s] = Of(b), NEW p \in Path, Len(p) \in Nat \ {0},
         NEW n \in DOMAIN P, P[n] = At(b, <<>>), NEW par, ParallelFits(P, par, b),
         NEW parNode, ParFits(P, parNode, b, <<>>), par = Null => parNode = Null,
         NEW call, call = QuadCall(s, par, n, parNode)
  PROVE  CallFits(h, P, call, b, p, TRUE)
<1>1. IsQuadCall(call, s, par, n, parNode)
  BY QuadCallIs
<1>2. Pre(p, 0) = <<>>
  BY PreEnds DEF Path
<1>3. call.level \in 0 .. Len(p) - 1 /\ call.level \in -1 .. Len(p)
  BY <1>1 DEF IsQuadCall
<1>4. 0 .. call.level - 1 = {} /\ call.level = 0 /\ Pre(p, call.level) = <<>>
  BY <1>1, <1>2 DEF IsQuadCall
<1>5. /\ call.parallel # Null =>
           /\ call.parallel \in DOMAIN P /\ ~P[call.parallel].node
           /\ Finer(P[call.parallel].tree, b)
      /\ call.parNode # Null =>
           /\ call.parNode \in DOMAIN P
           /\ P[call.parNode].node /\ P[call.parNode].path = Pre(p, call.level)
           /\ Finer(P[call.parNode].tree, b)
  BY <1>1, <1>4 DEF IsQuadCall, ParallelFits, ParFits
<1>6. P[call.node] = At(b, Pre(p, call.level)) /\ call.node \in DOMAIN P
  BY <1>1, <1>4 DEF IsQuadCall
<1>7. \A l \in 0 .. call.level - 1 : EntryFits(h, P, call.stack[l], b, Pre(p, l))
  BY <1>4
<1> QED BY <1>1, <1>3, <1>4, <1>5, <1>6, <1>7 DEF CallFits, IsQuadCall, CallShape

LEMMA QuadUpToDate ==
  ASSUME DimsAssumption, NEW a \in Addresses, NEW st, NEW P, NEW W, Ready(st, P, a, W),
         NEW d, d = st.d + 1, d \in Dims,
         NEW call, call.level = 0, call.walking = TRUE,
         NEW st2, st2 = Enter(st, d, call)
  PROVE  UpToDate(st.heap, P, W, Ahead(st2, a))
<1>0. PICK h, B, V : h = st.heap /\ B = Here(st, a, d) /\ V = Ahead(st2, a)
  OBVIOUS
<1>1. Shape(st) /\ Sound(h, P, st.replaced, W)
  BY <1>0, ReadyHere
<1>2. st2.d = d /\ st2.calls[d] = call
  <2>1. EntersAt(st, st2, d, call)
    BY <1>1, EnterIs
  <2> QED BY <2>1 DEF EntersAt
<1>3. ASSUME NEW n \in DOMAIN P, P[n].node, NEW k \in DOMAIN h[n].kids,
             <<P[n].tree, Append(P[n].path, k)>> \in W \ V
      PROVE  FALSE
  <2>0. PICK c, r : c = P[n].tree /\ r = Append(P[n].path, k)
    OBVIOUS
  <2>1. P[n].tree \in Bin /\ P[n].path \in Path /\ k \in Names
    <3>1. NodeFits(P, st.replaced, W, h[n], P[n].tree, P[n].path)
      BY <1>1, <1>3, SpotOfNode
    <3>2. DOMAIN h[n].kids \subseteq Names
      BY <3>1 DEF NodeFits, Branches
    <3> QED BY <1>1, <1>3, <3>2, SpotIs
  <2>2. c \in Bin /\ r \in Path /\ <<c, r>> \in W \ Ahead(st2, a)
    BY <1>0, <1>3, <2>0, <2>1, AppendIs DEF Path
  <2>3. Len(r) > 0
    <3>1. Len(r) = Len(P[n].path) + 1 /\ Len(P[n].path) \in Nat
      BY <2>0, <2>1, AppendIs DEF Path
    <3> QED BY <3>1
  <2>4. ~Now(st2, c, r)
    BY <2>2, EnterLeaves
  <2> QED BY <2>3, <2>4, <1>2 DEF Now
<1>4. UpToDate(h, P, W, V)
  BY <1>3 DEF UpToDate
<1> QED BY <1>0, <1>4

(* The root of a tree that is not empty.                                   *)
LEMMA RootOf ==
  ASSUME NEW h, NEW P, NEW R, NEW W, Sound(h, P, R, W), DimsAssumption,
         NEW x \in DOMAIN P, ~P[x].node, NEW b, b = P[x].tree,
         Len(b) + 1 \in Dims, Kind[Len(b) + 1] = "quad",
         NEW n, n = h[x].root, n # Null
  PROVE  n \in DOMAIN P /\ P[n] = At(b, <<>>)
<1>1. QuadFits(P, h[x], b)
  BY TreeOfKind
<1>2. NodeRef(P, Pointer(n, TRUE), b, <<>>)
  BY <1>1 DEF QuadFits
<1>3. n \in DOMAIN P /\ P[n].node /\ P[n].path = <<>> /\ P[n].tree = b
  BY <1>2 DEF NodeRef, Pointer
<1> QED BY <1>3, SpotIs

RootAt(h, t) == h[t].root
ParRoot(h, par) == IF par = Null THEN Null ELSE RootAt(h, par)

LEMMA QuadEnters ==
  ASSUME DimsAssumption, NEW a \in Addresses, NEW st, NEW P, NEW W, Ready(st, P, a, W),
         NEW d, d = st.d + 1, d \in Dims, Kind[d] = "quad",
         NEW s \in DOMAIN P, P[s] = Of(Here(st, a, d)),
         NEW par, ParallelFits(P, par, Here(st, a, d)),
         NEW n, n = RootAt(st.heap, s), n # Null,
         NEW parNode, parNode = ParRoot(st.heap, par),
         NEW st2, st2 = Enter(st, d, QuadCall(s, par, n, parNode))
  PROVE  /\ Leads(st.heap, P, DueOrSent(st, a), st2, P, a)
         /\ st2.heap = st.heap /\ Way(Here(st, a, d), a[d]) \subseteq Due(st2, a)
<1>0. PICK h, B, p, call :
        h = st.heap /\ B = Here(st, a, d) /\ p = a[d] /\ call = QuadCall(s, par, n, parNode)
  OBVIOUS
<1>1. Sound(h, P, st.replaced, W) /\ B \in Bin /\ Len(B) + 1 = d
  BY <1>0, ReadyHere
<1>2. p \in Path /\ Len(p) \in Nat \ {0}
  BY <1>0, AddressIs
<1>3. P[s].tree = B /\ ~P[s].node
  BY <1>0 DEF Of
<1>4. n \in DOMAIN P /\ P[n] = At(B, <<>>)
  <2>1. n = h[s].root
    BY <1>0 DEF RootAt
  <2> QED BY SMTT(20), <2>1, <1>1, <1>3, RootOf
<1>5. ParFits(P, parNode, B, <<>>) /\ (par = Null => parNode = Null)
  <2>1. CASE par = Null
    BY <2>1 DEF ParRoot, ParFits
  <2>2. CASE par # Null /\ parNode = Null
    BY <2>2 DEF ParFits
  <2>3. CASE par # Null /\ parNode # Null
    <3>1. par \in DOMAIN P /\ ~P[par].node /\ Finer(P[par].tree, B)
      BY <1>0, <2>3 DEF ParallelFits
    <3>2. PICK c : c = P[par].tree
      OBVIOUS
    <3>3. c \in Bin
      BY <3>1, <3>2, <1>1, SpotIs
    <3>4. Len(c) = Len(B)
      BY <3>1, <3>2, <3>3, <1>1, FinerIs
    <3>5. parNode = h[par].root
      BY <1>0, <2>3 DEF ParRoot, RootAt
    <3>6. Len(c) + 1 \in Dims /\ Kind[Len(c) + 1] = "quad"
      BY <3>4, <1>1
    <3>7. parNode \in DOMAIN P /\ P[parNode] = At(c, <<>>)
      BY SMTT(20), <3>1, <3>2, <3>5, <3>6, <2>3, <1>1, RootOf
    <3> QED BY <3>1, <3>2, <3>7, <2>3 DEF ParFits, At
  <2> QED BY <2>1, <2>2, <2>3
<1>6. CallFits(h, P, call, B, p, TRUE)
  <2>1. P[s] = Of(B) /\ ParallelFits(P, par, B) /\ Kind[Len(B) + 1] = "quad"
    BY <1>0, <1>1
  <2> QED BY <2>1, <1>0, <1>1, <1>2, <1>4, <1>5, QuadCallFits
<1>7. CallFits(st.heap, P, call, Here(st, a, d), a[d], TRUE)
  BY <1>0, <1>6
<1>8. call.level = 0 /\ call.walking = TRUE
  <2>1. IsQuadCall(call, s, par, n, parNode)
    BY <1>0, QuadCallIs
  <2> QED BY <2>1 DEF IsQuadCall
<1>9. st2 = Enter(st, d, call)
  BY <1>0
<1>10. UpToDate(st.heap, P, W, Ahead(st2, a))
  BY <1>8, <1>9, QuadUpToDate
<1>11. Going(st2, P, a)
  BY <1>7, <1>9, <1>10, Entered
<1>12. st2.heap = st.heap /\ st2.d = d /\ st2.calls[d] = call
  <2>1. Shape(st)
    BY DEF Ready
  <2>2. EntersAt(st, st2, d, call)
    BY <2>1, <1>9, EnterIs
  <2> QED BY <2>2 DEF EntersAt
<1>13. ASSUME NEW x \in DOMAIN P, PlaceOf(P[x]) \in DueOrSent(st, a),
              PlaceOf(P[x]) \notin Due(st2, a)
       PROVE  FALSE
  <2>1. PICK c, r : c = P[x].tree /\ r = P[x].path
    OBVIOUS
  <2>2. <<c, r>> \in DueOrSent(st, a) /\ <<c, r>> \notin Due(st2, a)
    BY <2>1, <1>13 DEF PlaceOf
  <2>3. ~Open(st2, d, c, r)
    BY <2>2, <1>9, EnterDue
  <2> QED BY <2>3, <1>8, <1>12 DEF Open
<1>14. Way(Here(st, a, d), a[d]) \subseteq Due(st2, a)
  <2>1. a[d] \in Path /\ Starts(a[d], a[d]) /\ call.level \in Int
    BY <1>0, <1>2, <1>8, StartsItself DEF Path
  <2> QED BY <2>1, <1>8, <1>9, EnterWay
<1>15. Kept(st.heap, P, st2.heap, P, Due(st2, a))
  BY <1>12, KeptSame
<1> QED BY <1>11, <1>12, <1>13, <1>14, <1>15 DEF Leads

(* An empty tree gets the whole path of the record.                        *)
Rooted(h, path, s) == [path.heap EXCEPT ![s].root = path.top]
RootedAs(h, P, R, W, g, s, V) ==
  \E Q : /\ Sound(g, Q, R, W) /\ Carries(h, P, g, Q, Null) /\ Kept(h, P, g, Q, V)
         /\ RootAt(g, s) # Null /\ s \in DOMAIN Q /\ Q[s] = P[s]

LEMMA RootMade ==
  ASSUME DimsAssumption, NEW h, NEW P, NEW R, NEW W, Sound(h, P, R, W),
         NEW s \in DOMAIN P, NEW b \in Bin, P[s] = Of(b),
         Len(b) + 1 \in Dims, Kind[Len(b) + 1] = "quad",
         NEW p \in Path, Len(p) = Depth(Len(b) + 1),
         RootAt(h, s) = Null,
         NEW path, path = CreatePath(h, p, 0),
         NEW g, g = Rooted(h, path, s)
  PROVE  RootedAs(h, P, R, W, g, s, Way(b, p))
<1>1. P[s].tree = b /\ ~P[s].node
  BY DEF Of
<1>2. QuadFits(P, h[s], b)
  BY <1>1, TreeOfKind
<1>3. h[s].kind = "quad" /\ DOMAIN h[s] = {"kind", "root"} /\ h[s].root = Null
  BY <1>2 DEF QuadFits, RootAt
<1>4. \A m \in DOMAIN P : P[m] # At(b, <<>>)
  BY <1>1, <1>3, NoRootNode
<1>5. Len(p) \in Nat /\ 0 \in 0 .. Len(p)
  BY DEF Path
<1>6. \A l \in 0 .. Len(p), m \in DOMAIN P : P[m] # At(b, Pre(p, l))
  <2> SUFFICES ASSUME NEW l \in 0 .. Len(p), NEW m \in DOMAIN P, P[m] = At(b, Pre(p, l))
               PROVE  FALSE
    OBVIOUS
  <2>1. <<>> \in Path /\ Self \notin Names
    BY NoNameIsSelf DEF Path
  <2>2. ~UnderPlace(P[m], b, <<>>)
    BY <2>1, <1>4, NothingUnder
  <2>3. P[m].node /\ P[m].tree = b /\ P[m].path = Pre(p, l)
    BY DEF At
  <2>4. Starts(<<>>, Pre(p, l))
    <3>1. Pre(p, l) \in Path
      BY PreIs DEF Path
    <3> QED BY <3>1 DEF Starts, Pre, Path
  <2> QED BY <2>2, <2>3, <2>4 DEF UnderPlace
<1>7. PathMade(h, P, R, W, path, b, p, 0)
  BY <1>5, <1>6, CreatePathIs
<1>8. PICK g1, top : g1 = path.heap /\ top = path.top
  OBVIOUS
<1>9. PICK Q : /\ Adds(h, P, R, W, g1, Q, top) /\ top \in DOMAIN Q /\ Q[top] = At(b, <<>>)
               /\ \A x \in DOMAIN Q \ DOMAIN P : PlaceOf(Q[x]) \in Way(b, p)
  <2>1. Pre(p, 0) = <<>>
    BY PreEnds DEF Path
  <2> QED BY <2>1, <1>7, <1>8 DEF PathMade
<1>10. g = [g1 EXCEPT ![s].root = top]
  BY <1>8 DEF Rooted
<1>11. Sound(g, Q, R, W)
  <2>1. Q[top] = At(P[s].tree, <<>>)
    BY <1>1, <1>9
  <2> QED BY <2>1, <1>1, <1>3, <1>9, <1>10, RootSet
<1>12. s \in DOMAIN g1 /\ g1[s] = h[s] /\ s \in DOMAIN Q /\ Q[s] = P[s] /\ top # Null
  BY <1>9 DEF Adds, Extends
<1>13. (\A x \in DOMAIN g1 : x # s => g[x] = g1[x]) /\ g[s] = [h[s] EXCEPT !.root = top]
  BY <1>10, <1>12
<1>14. g[s].kind = "quad" /\ g[s].root = top
  BY <1>3, <1>13
<1>15. Carries(h, P, g, Q, Null)
  <2>1. g[s].kind = h[s].kind /\ h[s].kind # "flat"
    BY <1>3, <1>14
  <2> QED BY <2>1, <1>9, <1>13, NothingCarried
<1>16. Kept(h, P, g, Q, Way(b, p))
  <2>1. PICK V, place : V = Way(b, p) /\ place = PlaceOf(Q[s])
    OBVIOUS
  <2>2. Kept(h, P, g1, Q, V)
    BY <2>1, <1>9, AddsKept
  <2>3. place \in V
    <3>1. PICK q : q = <<>>
      OBVIOUS
    <3>2. q \in Path /\ Starts(q, p)
      BY <3>1, EmptyStarts
    <3>3. place = <<b, q>>
      BY <3>1, <2>1, <1>12 DEF PlaceOf, Of
    <3> QED BY <3>2, <3>3, <2>1 DEF Way
  <2>4. \A x \in DOMAIN Q : x # s => g[x] = g1[x]
    BY <1>9, <1>13 DEF Adds, Sound
  <2>5. Kept(h, P, g, Q, V)
    BY <2>1, <2>2, <2>3, <2>4 DEF Kept
  <2> QED BY <2>1, <2>5
<1> QED BY <1>11, <1>12, <1>14, <1>15, <1>16 DEF RootedAs, RootAt

QuadHeap(st, s, p) ==
  IF st.heap[s].root = Null
  THEN [CreatePath(st.heap, p, 0).heap EXCEPT ![s].root = CreatePath(st.heap, p, 0).top]
  ELSE st.heap

LEMMA QuadGoes ==
  ASSUME DimsAssumption, NEW a \in Addresses, NEW st, NEW P, NEW W, Ready(st, P, a, W),
         NEW d, d = st.d + 1, d \in Dims, Kind[d] = "quad",
         NEW s \in DOMAIN P, P[s] = Of(Here(st, a, d)),
         NEW par, ParallelFits(P, par, Here(st, a, d)),
         NEW st2, st2 = EnterQuad(st, d, s, par, a[d])
  PROVE  st2.fault = TRUE \/ \E Q : Leads(st.heap, P, DueOrSent(st, a), st2, Q, a)
<1>0. PICK h, B, p, path, empty, g :
        /\ h = st.heap /\ B = Here(st, a, d) /\ p = a[d] /\ path = CreatePath(h, p, 0)
        /\ empty \in BOOLEAN /\ (empty <=> RootAt(h, s) = Null)
        /\ g = IF empty THEN Rooted(h, path, s) ELSE h
  <2>1. (RootAt(st.heap, s) = Null) \in BOOLEAN
    OBVIOUS
  <2> QED BY <2>1
<1>1. Shape(st) /\ Sound(h, P, st.replaced, W) /\ B \in Bin /\ Len(B) + 1 = d
  BY <1>0, ReadyHere
<1>2. p \in Path /\ Len(p) = Depth(d)
  BY <1>0, AddressIs
<1>3. st2 = IF empty /\ par # Null THEN Fail(st)
            ELSE Enter(OnHeap(st, g), d, QuadCall(s, par, RootAt(g, s), ParRoot(g, par)))
  <2>1. g = QuadHeap(st, s, a[d])
    BY <1>0 DEF RootAt, Rooted, QuadHeap
  <2>2. st2 = IF st.heap[s].root = Null /\ par # Null THEN Fail(st)
              ELSE Enter(OnHeap(st, QuadHeap(st, s, a[d])), d,
                         QuadCall(s, par, QuadHeap(st, s, a[d])[s].root,
                                  IF par = Null THEN Null ELSE QuadHeap(st, s, a[d])[par].root))
    BY Zenon DEF EnterQuad, QuadCall, QuadHeap
  <2> QED BY <2>1, <2>2, <1>0 DEF RootAt, ParRoot
<1>4. CASE empty /\ par # Null
  <2>1. st2 = Fail(st)
    BY <1>3, <1>4
  <2> QED BY <2>1, <1>1 DEF Fail, Shape
<1>5. ASSUME ~(empty /\ par # Null),
             NEW Q, Sound(g, Q, st.replaced, W), Carries(h, P, g, Q, Null),
             RootAt(g, s) # Null, Kept(h, P, g, Q, Way(B, p))
      PROVE  Leads(st.heap, P, DueOrSent(st, a), st2, Q, a)
  <2>1. PICK st1, n, parNode :
          st1 = OnHeap(st, g) /\ n = RootAt(g, s) /\ parNode = ParRoot(g, par)
    OBVIOUS
  <2>2. st2 = Enter(st1, d, QuadCall(s, par, n, parNode))
    BY <2>1, <1>3, <1>5
  <2>3. Carries(st.heap, P, g, Q, Null)
    BY <1>0, <1>5
  <2>4. /\ Ready(st1, Q, a, W) /\ st1.heap = g /\ st1.d = st.d
        /\ Here(st1, a, d) = Here(st, a, d)
    BY <2>1, <2>3, <1>5, ReadyOnHeap
  <2>5. Null \notin DOMAIN P
    BY <1>1 DEF Sound
  <2>6. \A x \in DOMAIN P : x \in DOMAIN Q /\ Q[x] = P[x]
    BY <2>5, <1>5 DEF Carries
  <2>7. ParallelFits(Q, par, Here(st1, a, d))
    BY <2>4, <2>6 DEF ParallelFits
  <2>8. s \in DOMAIN Q /\ Q[s] = Of(Here(st1, a, d))
    BY <2>4, <2>6
  <2>9. d = st1.d + 1 /\ n = RootAt(st1.heap, s) /\ n # Null /\ parNode = ParRoot(st1.heap, par)
    BY <2>1, <2>4, <1>5
  <2>10. /\ Leads(st1.heap, Q, DueOrSent(st1, a), st2, Q, a)
         /\ st2.heap = st1.heap /\ Way(Here(st1, a, d), a[d]) \subseteq Due(st2, a)
    BY <2>2, <2>4, <2>7, <2>8, <2>9, QuadEnters
  <2>11. Way(B, p) \subseteq Due(st2, a) /\ st2.heap = g
    BY <2>4, <2>10, <1>0
  <2>12. Kept(st.heap, P, st2.heap, Q, Due(st2, a))
    <3>1. PICK V, U : V = Way(B, p) /\ U = Due(st2, a)
      OBVIOUS
    <3>2. Kept(h, P, g, Q, U)
      BY <3>1, <2>11, <1>5, KeptMore
    <3> QED BY <3>1, <3>2, <2>11, <1>0
  <2>13. DueOrSent(st1, a) = DueOrSent(st, a)
    <3>1. st1.d = st.d /\ st1.calls = st.calls
      BY <2>1, <1>1, OnHeapIs
    <3> QED BY <3>1, DueSame
  <2>14. Going(st2, Q, a)
    BY <2>10 DEF Leads
  <2>15. \A x \in DOMAIN P : PlaceOf(P[x]) \in DueOrSent(st, a) => PlaceOf(P[x]) \in Due(st2, a)
    <3>1. \A x \in DOMAIN Q : PlaceOf(Q[x]) \in DueOrSent(st1, a) => PlaceOf(Q[x]) \in Due(st2, a)
      BY <2>10 DEF Leads
    <3> QED BY <3>1, <2>6, <2>13
  <2> QED BY <2>12, <2>14, <2>15 DEF Leads
<1>6. CASE empty /\ par = Null
  <2>1. g = Rooted(h, path, s) /\ RootAt(h, s) = Null /\ P[s] = Of(B)
    BY <1>0, <1>6
  <2>2. Len(B) + 1 \in Dims /\ Kind[Len(B) + 1] = "quad" /\ Len(p) = Depth(Len(B) + 1)
    BY <1>1, <1>2
  <2>3. RootedAs(h, P, st.replaced, W, g, s, Way(B, p))
    BY <2>1, <2>2, <1>0, <1>1, <1>2, RootMade
  <2>4. PICK Q : /\ Sound(g, Q, st.replaced, W) /\ Carries(h, P, g, Q, Null) /\ RootAt(g, s) # Null
                 /\ Kept(h, P, g, Q, Way(B, p))
    BY <2>3 DEF RootedAs
  <2>5. Leads(st.heap, P, DueOrSent(st, a), st2, Q, a)
    BY <2>4, <1>5, <1>6
  <2> QED BY <2>5
<1>7. CASE ~empty
  <2>1. g = h /\ RootAt(h, s) # Null
    BY <1>0, <1>7
  <2>2. Carries(h, P, h, P, Null)
    BY DEF Carries
  <2>3. Kept(h, P, g, P, Way(B, p))
    BY <2>1, KeptSame
  <2>4. Leads(st.heap, P, DueOrSent(st, a), st2, P, a)
    BY <2>1, <2>2, <2>3, <1>1, <1>5, <1>7
  <2> QED BY <2>4
<1> QED BY <1>0, <1>4, <1>6, <1>7

-----------------------------------------------------------------------------
(* Counting.  The record is in a time series at most once more than it was *)
(* before, and that only if the series has been updated and the insertion  *)
(* will not come to its bin again.                                         *)

IsLeaf(spot) == ~spot.node /\ Len(spot.tree) = Len(Kind)

(* Address x is in bin b.                                                  *)
In(b, x) == \A i \in 1 .. Len(b) : Starts(b[i], x[i])

Total(ins, a, x, again) == IF x = a /\ again THEN ins[x] + 1 ELSE ins[x]
Bounded(bag, b, ins, a, again) ==
  \A x \in Addresses : bag[x] <= IF In(b, x) THEN Total(ins, a, x, again) ELSE 0

Tally(h, P, U, C, a, ins) ==
  \A y \in DOMAIN P :
    IsLeaf(P[y]) => Bounded(h[y].bag, P[y].tree, ins, a, y \in U /\ P[y].tree \notin C)

(* The bins of time series that the insertion still comes to, and those    *)
(* that it comes to with the content it is being sent into.                *)
ComesBy(st, b, i) ==
  UpTo(st, b, i - 1) /\ (Len(b[i]) <= st.calls[i].level \/ (i = st.d /\ st.calls[i].walking))
Coming(st) == { b \in Bin : Len(b) = Len(Kind) /\ \E i \in 1 .. st.d : ComesBy(st, b, i) }
Sending(st) == Coming(st) \cup { b \in Bin : Len(b) = Len(Kind) /\ UpTo(st, b, st.d) }

Tallied(st, P, a, ins) == Tally(st.heap, P, st.updated, Coming(st), a, ins)

(* A heap whose time series are as they were.                              *)
LeafsKept(h, P, g, Q) ==
  \A y \in DOMAIN Q : IsLeaf(Q[y]) => y \in DOMAIN P /\ Q[y] = P[y] /\ g[y] = h[y]

LEMMA BoundedMore ==
  ASSUME NEW ins \in [Addresses -> Nat], NEW a, NEW bag \in [Addresses -> Nat], NEW b,
         NEW again, NEW more, again => more, Bounded(bag, b, ins, a, again)
  PROVE  Bounded(bag, b, ins, a, more)
<1> SUFFICES ASSUME NEW x \in Addresses
             PROVE  bag[x] <= IF In(b, x) THEN Total(ins, a, x, more) ELSE 0
  BY DEF Bounded
<1>1. bag[x] <= IF In(b, x) THEN Total(ins, a, x, again) ELSE 0
  BY DEF Bounded
<1>2. ins[x] \in Nat /\ bag[x] \in Nat
  OBVIOUS
<1> QED BY <1>1, <1>2 DEF Total

LEMMA LeafBag ==
  ASSUME DimsAssumption, NEW h, NEW P, NEW R, NEW W, Sound(h, P, R, W),
         NEW y \in DOMAIN P, IsLeaf(P[y])
  PROVE  h[y].kind = "leaf" /\ h[y].bag \in [Addresses -> Nat] /\ P[y].tree \in Bin
         /\ P[y] = Of(P[y].tree)
<1>1. QuadFits(P, h[y], P[y].tree) \/ FlatFits(P, h[y], P[y].tree) \/ LeafFits(h[y], P[y].tree)
  BY SpotOfNode DEF IsLeaf
<1>2. Len(P[y].tree) + 1 \notin Dims
  BY DimsAre DEF IsLeaf
<1>3. LeafFits(h[y], P[y].tree)
  BY <1>1, <1>2 DEF QuadFits, FlatFits
<1> QED BY <1>3, SpotIs DEF LeafFits, IsLeaf

LEMMA TallyKept ==
  ASSUME DimsAssumption, NEW h, NEW P, NEW R, NEW W, Sound(h, P, R, W),
         NEW ins \in [Addresses -> Nat], NEW a, NEW U, NEW C, Tally(h, P, U, C, a, ins),
         NEW g, NEW Q, LeafsKept(h, P, g, Q), NEW U2, NEW C2, U \subseteq U2, C2 \subseteq C
  PROVE  Tally(g, Q, U2, C2, a, ins)
<1> SUFFICES ASSUME NEW y \in DOMAIN Q, IsLeaf(Q[y])
             PROVE  Bounded(g[y].bag, Q[y].tree, ins, a, y \in U2 /\ Q[y].tree \notin C2)
  BY DEF Tally
<1>1. y \in DOMAIN P /\ Q[y] = P[y] /\ g[y] = h[y]
  BY DEF LeafsKept
<1>2. Bounded(h[y].bag, P[y].tree, ins, a, y \in U /\ P[y].tree \notin C)
  BY <1>1 DEF Tally
<1>3. h[y].bag \in [Addresses -> Nat]
  BY <1>1, LeafBag
<1>4. (y \in U /\ P[y].tree \notin C) => (y \in U2 /\ P[y].tree \notin C2)
  OBVIOUS
<1>5. Bounded(h[y].bag, P[y].tree, ins, a, y \in U2 /\ P[y].tree \notin C2)
  BY <1>2, <1>3, <1>4, BoundedMore
<1> QED BY <1>1, <1>5

(* What is due is never a time series: its bin is not that of a tree.      *)
LEMMA KeptLeafs ==
  ASSUME DimsAssumption, NEW a, NEW st, NEW h, NEW P, NEW g, NEW Q, Kept(h, P, g, Q, Due(st, a))
  PROVE  LeafsKept(h, P, g, Q)
<1> SUFFICES ASSUME NEW y \in DOMAIN Q, IsLeaf(Q[y])
             PROVE  y \in DOMAIN P /\ Q[y] = P[y] /\ g[y] = h[y]
  BY DEF LeafsKept
<1>1. PlaceOf(Q[y]) \notin Due(st, a)
  <2> SUFFICES ASSUME PlaceOf(Q[y]) \in Due(st, a) PROVE FALSE
    OBVIOUS
  <2>1. Covers(Q[y].tree, Q[y].path, a)
    BY DEF Due, PlaceOf
  <2>2. Len(Q[y].tree) + 1 \in Dims
    BY <2>1 DEF Covers
  <2> QED BY <2>2, DimsAre DEF IsLeaf
<1> QED BY <1>1 DEF Kept

LEMMA LeadsTally ==
  ASSUME DimsAssumption, NEW a, NEW h, NEW P, NEW R, NEW W, Sound(h, P, R, W), NEW V,
         NEW st2, NEW Q, Leads(h, P, V, st2, Q, a),
         NEW ins \in [Addresses -> Nat], NEW U, NEW C, Tally(h, P, U, C, a, ins),
         U \subseteq st2.updated, Coming(st2) \subseteq C
  PROVE  Tally(st2.heap, Q, st2.updated, Coming(st2), a, ins)
<1>1. Kept(h, P, st2.heap, Q, Due(st2, a))
  BY DEF Leads
<1>2. LeafsKept(h, P, st2.heap, Q)
  BY <1>1, KeptLeafs
<1> QED BY <1>2, TallyKept
-----------------------------------------------------------------------------
(* Where the insertion comes to gets less.                                 *)
LEMMA LeafBin ==
  ASSUME DimsAssumption, NEW b \in Bin, Len(b) = Len(Kind), NEW i \in Dims
  PROVE  Len(b[i]) \in Nat
<1>1. i \in 1 .. Len(b)
  BY DimsAre
<1>2. b[i] \in Path
  BY <1>1 DEF Bin
<1> QED BY <1>2 DEF Path

LEMMA WalkComing ==
  ASSUME DimsAssumption, NEW st, NEW st2, st.d \in Dims, InnerOnly(st, st2), st.calls[st.d].walking
  PROVE  Coming(st2) \subseteq Coming(st)
<1> SUFFICES ASSUME NEW b \in Bin, Len(b) = Len(Kind), NEW i \in 1 .. st2.d, ComesBy(st2, b, i)
             PROVE  \E j \in 1 .. st.d : ComesBy(st, b, j)
  BY DEF Coming
<1>1. PICK d : d = st.d
  OBVIOUS
<1>2. d \in Nat /\ st2.d = d /\ \A j \in 1 .. d - 1 : st2.calls[j] = st.calls[j]
  BY <1>1, DimsAre DEF InnerOnly
<1>3. \A j \in 1 .. i - 1 : st2.calls[j] = st.calls[j]
  BY <1>2
<1>4. UpTo(st, b, i - 1)
  BY <1>3 DEF ComesBy, UpTo
<1>5. CASE i = d
  BY <1>1, <1>2, <1>4, <1>5 DEF ComesBy
<1>6. CASE i # d
  <2>1. st2.calls[i] = st.calls[i] /\ i \in 1 .. d
    BY <1>2, <1>6
  <2> QED BY <1>1, <1>2, <1>4, <1>6, <2>1 DEF ComesBy
<1> QED BY <1>5, <1>6

(* A new call comes to what the record is sent into at most.               *)
LEMMA EnterComing ==
  ASSUME DimsAssumption, NEW st, NEW st2, st.d \in Nat, st2.d = st.d + 1,
         \A j \in 1 .. st.d : st2.calls[j] = st.calls[j]
  PROVE  Coming(st2) \subseteq Sending(st)
<1> SUFFICES ASSUME NEW b \in Bin, Len(b) = Len(Kind), NEW i \in 1 .. st2.d, ComesBy(st2, b, i)
             PROVE  (\E j \in 1 .. st.d : ComesBy(st, b, j)) \/ UpTo(st, b, st.d)
  BY DEF Coming, Sending
<1>1. \A j \in 1 .. i - 1 : st2.calls[j] = st.calls[j]
  OBVIOUS
<1>2. UpTo(st, b, i - 1)
  BY <1>1 DEF ComesBy, UpTo
<1>3. CASE i = st.d + 1
  BY <1>2, <1>3
<1>4. CASE i # st.d + 1
  <2>1. i \in 1 .. st.d /\ st2.calls[i] = st.calls[i] /\ i # st2.d
    BY <1>4
  <2> QED BY <1>2, <2>1 DEF ComesBy
<1> QED BY <1>3, <1>4

(* What is sent when an entry was updated had still been to come.          *)
LEMMA RiseComing ==
  ASSUME DimsAssumption, NEW a \in Addresses, NEW st, NEW P, Rising(st, P, a),
         NEW g, NEW parent, NEW st2, st2 = On(st, g, parent)
  PROVE  Sending(st2) \subseteq Coming(st) /\ Coming(st2) \subseteq Coming(st)
<1>0. PICK d, l : d = st.d /\ l = st.calls[st.d].level
  OBVIOUS
<1>1. /\ st2.d = d /\ st2.calls[d].level = l - 1 /\ ~st2.calls[d].walking
      /\ \A j \in 1 .. d - 1 : st2.calls[j] = st.calls[j]
      /\ d \in Dims /\ d \in Nat \ {0}
  BY <1>0, OnIs
<1>2. l \in Int
  <2>1. RiseIs(st.heap, P, st.calls[st.d], Parent(st), d, l, Here(st, a, st.d), a[st.d])
    BY <1>0, RisePlace
  <2>2. PICK p : l \in 0 .. Len(p) /\ Len(p) \in Nat \ {0}
    BY <2>1 DEF RiseIs
  <2> QED BY <2>2
<1>3. ASSUME NEW b \in Bin, Len(b) = Len(Kind), UpTo(st2, b, d)
      PROVE  ComesBy(st, b, d)
  <2>1. Len(b[d]) \in Nat
    BY <1>1, <1>3, LeafBin
  <2>2. UpTo(st, b, d - 1)
    BY <1>1, <1>3 DEF UpTo
  <2>3. Len(b[d]) <= l - 1 + 1
    BY <1>1, <1>3 DEF UpTo
  <2>4. Len(b[d]) <= l
    BY <2>1, <2>3, <1>2
  <2> QED BY <2>2, <2>4, <1>0 DEF ComesBy
<1>4. ASSUME NEW b \in Bin, Len(b) = Len(Kind), NEW i \in 1 .. d, ComesBy(st2, b, i)
      PROVE  ComesBy(st, b, i)
  <2>1. \A j \in 1 .. i - 1 : st2.calls[j] = st.calls[j]
    BY <1>1
  <2>2. UpTo(st, b, i - 1)
    BY <1>4, <2>1 DEF ComesBy, UpTo
  <2>3. CASE i = d
    <3>1. Len(b[d]) <= l - 1 /\ Len(b[d]) \in Nat
      BY <1>1, <1>4, <2>3, LeafBin DEF ComesBy
    <3>2. Len(b[d]) <= l
      BY <3>1, <1>2
    <3> QED BY <3>2, <2>2, <2>3, <1>0 DEF ComesBy
  <2>4. CASE i # d
    <3>1. st2.calls[i] = st.calls[i]
      BY <1>1, <2>4
    <3> QED BY <3>1, <2>2, <2>4, <1>0, <1>1, <1>4 DEF ComesBy
  <2> QED BY <2>3, <2>4
<1>5. Coming(st2) \subseteq Coming(st)
  BY <1>0, <1>1, <1>4 DEF Coming
<1>6. d \in 1 .. d
  BY <1>1
<1>7. \A b \in Bin : Len(b) = Len(Kind) /\ UpTo(st2, b, st2.d) => b \in Coming(st)
  BY <1>0, <1>1, <1>3, <1>6 DEF Coming
<1> QED BY <1>5, <1>7 DEF Sending

(* The call is through, and the one above it is not walking.               *)
LEMMA ReturnComing ==
  ASSUME DimsAssumption, NEW a \in Addresses, NEW st, NEW P, Going(st, P, a),
         st.d # 0, NEW st2, st2 = Return(st)
  PROVE  Coming(st2) \subseteq Coming(st) /\ st.updated \subseteq st2.updated /\ st2.heap = st.heap
<1>1. Shape(st) /\ st.d \in Dims /\ Outer(st.heap, P, st, a, st.d - 1)
  BY GoingParts
<1>2. PICK d : d = st.d
  OBVIOUS
<1>3. /\ st2.d = d - 1 /\ st2.calls = st.calls /\ st2.heap = st.heap
      /\ st.updated \subseteq st2.updated /\ d \in Nat \ {0}
  BY <1>1, <1>2, DimsAre DEF Return, Shape
<1>4. \A j \in 1 .. d - 1 : ~st.calls[j].walking
  BY <1>1, <1>2 DEF Outer, CallFits
<1> SUFFICES ASSUME NEW b \in Bin, Len(b) = Len(Kind), NEW i \in 1 .. d - 1, ComesBy(st2, b, i)
             PROVE  i \in 1 .. st.d /\ ComesBy(st, b, i)
  BY <1>3 DEF Coming
<1>5. i \in 1 .. st.d
  BY <1>2, <1>3
<1>6. UpTo(st, b, i - 1) /\ Len(b[i]) <= st.calls[i].level
  BY <1>3, <1>4 DEF ComesBy, UpTo
<1> QED BY <1>5, <1>6 DEF ComesBy
-----------------------------------------------------------------------------
(* What a step leaves as it is, whatever the heap.                         *)
EntersFrom(st, st2) ==
  /\ st2.d = st.d + 1 /\ st2.updated = st.updated
  /\ \A j \in 1 .. st.d : st2.calls[j] = st.calls[j]

LEMMA EnterFrom ==
  ASSUME DimsAssumption, NEW st, Shape(st), NEW d, d = st.d + 1, d \in Dims, NEW call, NEW g,
         NEW st2, st2 = Enter(OnHeap(st, g), d, call) \/ st2 = Enter(st, d, call)
  PROVE  EntersFrom(st, st2)
<1>1. PICK st1 : st1 \in {OnHeap(st, g), st} /\ st2 = Enter(st1, d, call)
  OBVIOUS
<1>2. /\ Shape(st1) /\ st1.d = st.d /\ st1.calls = st.calls /\ st1.updated = st.updated
  BY <1>1, OnHeapIs
<1>3. st2.d = d /\ \A j \in 1 .. st1.d : st2.calls[j] = st1.calls[j]
  <2>1. d = st1.d + 1
    BY <1>2
  <2>2. EntersAt(st1, st2, d, call)
    BY <2>1, <1>1, <1>2, EnterIs
  <2> QED BY <2>2 DEF EntersAt
<1>4. st2.updated = st1.updated
  BY <1>1, <1>2 DEF Enter, Shape
<1> QED BY <1>2, <1>3, <1>4 DEF EntersFrom

LEMMA FailIs ==
  ASSUME NEW st, Shape(st)
  PROVE  Fail(st).fault = TRUE
BY DEF Fail, Shape

LEMMA FlatFrom ==
  ASSUME DimsAssumption, NEW st, Shape(st), NEW d, d = st.d + 1, d \in Dims,
         NEW s, st.heap[s].kind = "flat", NEW par, NEW p,
         NEW st2, st2 = EnterFlat(st, d, s, par, p)
  PROVE  st2.fault = TRUE \/ EntersFrom(st, st2)
<1>1. PICK label : label = p[1]
  OBVIOUS
<1>2. FlatSteps(st, st2, d, s, par, label)
  BY <1>1, EnterFlatIs
<1>3. \/ st2 = Fail(st)
      \/ \E g, call : st2 = Enter(OnHeap(st, g), d, call)
      \/ \E call : st2 = Enter(st, d, call)
  BY <1>2, Zenon DEF FlatSteps
<1> QED BY <1>3, EnterFrom, FailIs

LEMMA QuadFrom ==
  ASSUME DimsAssumption, NEW st, Shape(st), NEW d, d = st.d + 1, d \in Dims,
         NEW s, NEW par, NEW p,
         NEW st2, st2 = EnterQuad(st, d, s, par, p)
  PROVE  st2.fault = TRUE \/ EntersFrom(st, st2)
<1>1. st2 = Fail(st) \/ \E g, call : st2 = Enter(OnHeap(st, g), d, call)
  BY Zenon DEF EnterQuad
<1> QED BY <1>1, EnterFrom, FailIs

StepsFrom(st, st2) == InnerOnly(st, st2) /\ st2.updated = st.updated

LEMMA StepFrom ==
  ASSUME DimsAssumption, NEW st, Shape(st), st.d \in Dims,
         NEW st1, Shape(st1), st1.d = st.d, st1.calls = st.calls, st1.updated = st.updated,
         NEW st2, NEW n, NEW m, NEW par, NEW p,
         st2 = Stop(st1, n, m) \/ st2 = Descend(st1, n, m, par, p)
  PROVE  StepsFrom(st, st2)
<1>1. \E call : st2 = OnCall(st1, call)
  BY Zenon DEF Stop, Descend
<1>2. PICK call : st2 = OnCall(st1, call)
  BY <1>1
<1>3. /\ st2.d = st1.d /\ st2.updated = st1.updated
      /\ \A j \in 1 .. st1.d : j # st1.d => st2.calls[j] = st1.calls[j]
  BY <1>2, OnCallIs
<1>4. \A j \in 1 .. st.d - 1 : j \in 1 .. st.d /\ j # st.d
  BY DimsAre
<1> QED BY <1>3, <1>4 DEF StepsFrom, InnerOnly

LEMMA WalkFrom ==
  ASSUME DimsAssumption, NEW st, Shape(st), st.d \in Dims, NEW p, NEW st2, st2 = Walk(st, p)
  PROVE  st2.fault = TRUE \/ StepsFrom(st, st2)
<1> DEFINE Same(st1) == st1 = st \/ (\E g : st1 = OnHeap(st, g)) \/ \E g, n : st1 = Replaces(st, g, n)
<1>1. \/ st2 = Fail(st)
      \/ \E st1, n, m : Same(st1) /\ st2 = Stop(st1, n, m)
      \/ \E st1, n, m, par : Same(st1) /\ st2 = Descend(st1, n, m, par, p)
  BY ZenonT(60) DEF Walk, Replaces
<1>2. ASSUME NEW st1, Same(st1)
      PROVE  Shape(st1) /\ st1.d = st.d /\ st1.calls = st.calls /\ st1.updated = st.updated
  BY <1>2, OnHeapIs, ReplacesIs
<1>3. CASE \E st1, n, m : Same(st1) /\ st2 = Stop(st1, n, m)
  BY <1>2, <1>3, StepFrom
<1>4. CASE \E st1, n, m, par : Same(st1) /\ st2 = Descend(st1, n, m, par, p)
  BY <1>2, <1>4, StepFrom
<1> QED BY <1>1, <1>3, <1>4, FailIs

(* A step of the walk counts nothing.                                      *)
LEMMA WalkTally ==
  ASSUME DimsAssumption, NEW a \in Addresses, NEW st, NEW P, Going(st, P, a),
         st.d # 0, st.calls[st.d].walking,
         NEW ins \in [Addresses -> Nat],
         Tally(st.heap, P, st.updated, Coming(st), a, ins),
         NEW st2, st2 = Walk(st, a[st.d]), ~st2.fault,
         NEW V, NEW Q, Leads(st.heap, P, V, st2, Q, a)
  PROVE  Tally(st2.heap, Q, st2.updated, Coming(st2), a, ins)
<1>1. Shape(st) /\ st.d \in Dims /\ Sound(st.heap, P, st.replaced, Ahead(st, a))
  BY GoingParts
<1>2. StepsFrom(st, st2)
  BY <1>1, WalkFrom
<1>3. Coming(st2) \subseteq Coming(st) /\ st.updated \subseteq st2.updated
  BY <1>1, <1>2, WalkComing DEF StepsFrom
<1> QED BY <1>1, <1>3, LeadsTally
-----------------------------------------------------------------------------
(* The record is sent into a content.                                      *)
LEMMA SentLeaf ==
  ASSUME DimsAssumption, NEW a \in Addresses, NEW st, NEW P, NEW W, Ready(st, P, a, W),
         st.d + 1 \notin Dims, NEW B, B = Here(st, a, st.d + 1)
  PROVE  /\ B \in Sending(st) /\ B \notin Coming(st) /\ In(B, a) /\ Len(B) = Len(Kind)
<1>1. PICK d : d = st.d
  OBVIOUS
<1>2. Levels(st, a, d) /\ d \in 0 .. Len(Kind) /\ d + 1 \notin Dims /\ Outer(st.heap, P, st, a, d)
  BY <1>1, ReadyHere
<1>3. d = Len(Kind) /\ Len(Kind) \in Nat \ {0} /\ d \in Nat /\ d + 1 \in 1 .. Len(Kind) + 1
  BY <1>2, DimsAre
<1>4. PICK n : n = d + 1
  OBVIOUS
<1>5. /\ B \in Bin /\ Len(B) = d
      /\ \A i \in 1 .. d : Len(B[i]) = st.calls[i].level + 1 /\ Starts(B[i], a[i])
  <2>1. n \in 1 .. Len(Kind) + 1 /\ n - 1 = d /\ B = Here(st, a, n)
    BY <1>1, <1>3, <1>4
  <2>2. Levels(st, a, n - 1)
    BY <2>1, <1>2
  <2>3. /\ Here(st, a, n) \in Bin /\ Len(Here(st, a, n)) = n - 1
        /\ \A i \in 1 .. n - 1 :
             /\ Len(Here(st, a, n)[i]) = st.calls[i].level + 1
             /\ Starts(Here(st, a, n)[i], a[i])
    BY <2>1, <2>2, HereIs
  <2> QED BY <2>1, <2>3
<1>6. \A i \in 1 .. d : Len(B[i]) \in Nat
  <2>1. \A i \in 1 .. d : B[i] \in Path
    BY <1>5 DEF Bin
  <2> QED BY <2>1 DEF Path
<1>7. \A i \in 1 .. d : st.calls[i].level \in Int
  <2> SUFFICES ASSUME NEW i \in 1 .. d PROVE st.calls[i].level \in Int
    OBVIOUS
  <2>1. st.calls[i].level \in -1 .. Len(a[i]) - 1
    BY <1>2 DEF Levels
  <2>2. i \in Dims
    BY <1>3, DimsAre
  <2>3. Len(a[i]) \in Nat
    BY <2>2, AddressIs
  <2> QED BY <2>1, <2>3
<1>8. UpTo(st, B, d)
  <2>1. \A i \in 1 .. d : Len(B[i]) <= st.calls[i].level + 1
    BY <1>5, <1>6
  <2> QED BY <2>1 DEF UpTo
<1>9. ASSUME NEW i \in 1 .. d PROVE ~ComesBy(st, B, i)
  <2>1. ~(Len(B[i]) <= st.calls[i].level)
    BY <1>5, <1>6, <1>7
  <2>2. ~st.calls[i].walking
    BY <1>2 DEF Outer, CallFits
  <2> QED BY <2>1, <2>2 DEF ComesBy
<1>10. In(B, a)
  BY <1>5 DEF In
<1> QED BY <1>1, <1>3, <1>5, <1>8, <1>9, <1>10 DEF Sending, Coming

(* The content has not had the record, and gets it.                        *)
LEMMA LeafTally ==
  ASSUME DimsAssumption, NEW a \in Addresses, NEW st, NEW P, NEW W, Ready(st, P, a, W),
         st.d + 1 \notin Dims, NEW c \in DOMAIN P, P[c] = Of(Here(st, a, st.d + 1)),
         NEW ins \in [Addresses -> Nat],
         Tally(st.heap, P, st.updated, Sending(st), a, ins),
         NEW g, g = [st.heap EXCEPT ![c].bag[a] = @ + 1],
         NEW st2, st2 = Count(st, g, c)
  PROVE  Tally(st2.heap, P, st2.updated, Coming(st2), a, ins)
<1>0. PICK B, h, U : B = Here(st, a, st.d + 1) /\ h = st.heap /\ U = st.updated
  OBVIOUS
<1>1. Shape(st) /\ Sound(h, P, st.replaced, W) /\ DOMAIN h = DOMAIN P
  BY <1>0, ReadyHere DEF Sound
<1>2. /\ st2.heap = g /\ st2.updated = U \cup {c} /\ st2.calls = st.calls /\ st2.d = st.d
  BY <1>0, <1>1 DEF Count, OnHeap, Shape
<1>3. Coming(st2) = Coming(st) /\ Coming(st) \subseteq Sending(st)
  BY <1>2 DEF Coming, ComesBy, UpTo, Sending
<1>4. /\ B \in Sending(st) /\ B \notin Coming(st) /\ In(B, a) /\ Len(B) = Len(Kind)
  BY <1>0, SentLeaf
<1>5. P[c].tree = B /\ ~P[c].node /\ IsLeaf(P[c])
  BY <1>0, <1>4 DEF Of, IsLeaf
<1>6. h[c].kind = "leaf" /\ h[c].bag \in [Addresses -> Nat] /\ DOMAIN h[c] = {"kind", "bag"}
  <2>1. h[c].kind = "leaf"
    BY <1>1, <1>5, LeafBag
  <2> QED BY <2>1, <1>1, <1>5, LeafBag, KindOfContent DEF LeafFits
<1>7. g[c].bag = [h[c].bag EXCEPT ![a] = @ + 1] /\ \A y \in DOMAIN P : y # c => g[y] = h[y]
  BY <1>0, <1>1, <1>6
<1>8. ASSUME NEW y \in DOMAIN P, IsLeaf(P[y])
      PROVE  Bounded(g[y].bag, P[y].tree, ins, a, y \in st2.updated /\ P[y].tree \notin Coming(st2))
  <2>1. Bounded(h[y].bag, P[y].tree, ins, a, y \in U /\ P[y].tree \notin Sending(st))
    BY <1>0, <1>8 DEF Tally
  <2>2. CASE y # c
    <3>1. (y \in U /\ P[y].tree \notin Sending(st)) => (y \in st2.updated /\ P[y].tree \notin Coming(st2))
      BY <1>2, <1>3
    <3>2. h[y].bag \in [Addresses -> Nat]
      BY <1>1, <1>8, LeafBag
    <3> QED BY <2>1, <2>2, <3>1, <3>2, <1>7, BoundedMore
  <2>3. CASE y = c
    <3>1. Bounded(h[c].bag, B, ins, a, FALSE)
      BY <2>1, <2>3, <1>4, <1>5 DEF Bounded, Total
    <3>2. c \in st2.updated /\ B \notin Coming(st2)
      BY <1>2, <1>3, <1>4
    <3>3. Bounded(g[c].bag, B, ins, a, TRUE)
      <4> SUFFICES ASSUME NEW x \in Addresses
                   PROVE  g[c].bag[x] <= IF In(B, x) THEN Total(ins, a, x, TRUE) ELSE 0
        BY DEF Bounded
      <4>1. h[c].bag[x] <= IF In(B, x) THEN ins[x] ELSE 0
        BY <3>1 DEF Bounded, Total
      <4>2. ins[x] \in Nat /\ h[c].bag[x] \in Nat
        BY <1>6
      <4>3. CASE x = a
        <5>1. g[c].bag[x] = h[c].bag[x] + 1
          BY <4>3, <1>6, <1>7
        <5>2. In(B, x)
          BY <4>3, <1>4
        <5> QED BY <4>1, <4>2, <4>3, <5>1, <5>2 DEF Total
      <4>4. CASE x # a
        <5>1. g[c].bag[x] = h[c].bag[x]
          BY <4>4, <1>6, <1>7
        <5> QED BY <4>1, <4>4, <5>1 DEF Total
      <4> QED BY <4>3, <4>4
    <3>4. Bounded(g[c].bag, B, ins, a, c \in st2.updated /\ B \notin Coming(st2))
      BY <3>2, <3>3 DEF Bounded, Total
    <3> QED BY <2>3, <3>4, <1>5
  <2> QED BY <2>2, <2>3
<1> QED BY <1>2, <1>8 DEF Tally

(* A new call counts nothing.                                              *)
LEMMA EnterTally ==
  ASSUME DimsAssumption, NEW a \in Addresses, NEW st, NEW P, NEW W, Ready(st, P, a, W),
         NEW ins \in [Addresses -> Nat],
         Tally(st.heap, P, st.updated, Sending(st), a, ins),
         NEW st2, EntersFrom(st, st2),
         NEW V, NEW Q, Leads(st.heap, P, V, st2, Q, a)
  PROVE  Tally(st2.heap, Q, st2.updated, Coming(st2), a, ins)
<1>1. Sound(st.heap, P, st.replaced, W) /\ st.d \in Nat
  BY ReadyHere
<1>2. Coming(st2) \subseteq Sending(st) /\ st.updated \subseteq st2.updated
  BY <1>1, EnterComing DEF EntersFrom
<1> QED BY <1>1, <1>2, LeadsTally
-----------------------------------------------------------------------------
(* A time series that an entry owns is new, the one that it owned or a     *)
(* copy of the one that it shared.                                         *)
OwnedLeaf(h, g, r, c) ==
  \/ g[c] = Leaf
  \/ g = h /\ c = r.c
  \/ r.c # Null /\ ~r.proper /\ g[c] = h[r.c]

LEMMA SetHolderElse ==
  ASSUME NEW h, NEW x, NEW r, NEW c, c # x.o, c \in DOMAIN h
  PROVE  SetHolder(h, x, r)[c] = h[c]
BY DEF SetHolder, SetKid

LEMMA OwnLeafIs ==
  ASSUME DimsAssumption, NEW h, NEW P, NEW R, NEW W, Sound(h, P, R, W),
         NEW b \in Bin, NEW q \in Path, NEW B, B = Append(b, q), Len(B) = Len(Kind),
         NEW x, EntryFits(h, P, x, b, q),
         NEW d, d = Len(B) + 1, NEW g, g = OwnContent(h, x, d),
         NEW r, r = HolderOf(h, x), NEW c, c = HolderOf(g, x).c
  PROVE  OwnedLeaf(h, g, r, c)
<1>1. HolderFits(P, r, B)
  BY EntryHolder
<1>2. d \notin Dims
  BY DimsAre
<1>3. x.o \in DOMAIN P /\ Branches(h[x.o])
  BY EntryKind
<1>4. DOMAIN h = DOMAIN P /\ FiniteHeap(h)
  <2>1. DOMAIN h = DOMAIN P /\ IsFiniteSet(DOMAIN P) /\ DOMAIN P \subseteq Nat \ {Null}
    BY DEF Sound
  <2> QED BY <2>1 DEF FiniteHeap, Null
<1>5. PICK i : i = Fresh(h)
  OBVIOUS
<1>6. ASSUME NEW object, NEW h1, h1 = Allocate(h, object), g = SetHolder(h1, x, Holder(i, TRUE))
      PROVE  g[c] = object
  <2>1. Allocated(h, i, object, h1)
    BY <1>4, <1>5, <1>6, AllocateAs
  <2>2. x.o \in DOMAIN h1 /\ Branches(h1[x.o]) /\ i # x.o /\ i \in DOMAIN h1 /\ h1[i] = object
    BY <1>3, <1>4, <2>1 DEF Allocated
  <2>3. PICK r1 : r1 = Holder(i, TRUE) /\ g = SetHolder(h1, x, r1)
    BY <1>6
  <2>4. c = i
    <3>1. x.o \in DOMAIN h1 /\ Branches(h1[x.o])
      BY <2>2
    <3>2. HolderOf(SetHolder(h1, x, r1), x) = r1
      BY <3>1, HolderIsSet
    <3> QED BY <2>3, <3>2 DEF Holder
  <2>5. g[i] = h1[i]
    <3>1. SetHolder(h1, x, r1)[i] = h1[i]
      BY <2>2, SetHolderElse
    <3> QED BY <2>3, <3>1
  <2> QED BY <2>2, <2>4, <2>5
<1>7. CASE r.c = Null
  <2>1. g = SetHolder(Allocate(h, Leaf), x, Holder(i, TRUE))
    BY <1>2, <1>5, <1>7 DEF OwnContent, NewContent
  <2>2. g[c] = Leaf
    BY <2>1, <1>6
  <2> QED BY <2>2 DEF OwnedLeaf
<1>8. CASE r.c # Null /\ r.proper
  <2>1. g = h
    BY <1>8 DEF OwnContent
  <2> QED BY <2>1 DEF OwnedLeaf
<1>9. CASE r.c # Null /\ ~r.proper
  <2>1. PICK n : n = r.c
    OBVIOUS
  <2>2. n \in DOMAIN P /\ ~P[n].node /\ Within(P[n].tree, B)
    BY <1>1, <1>9, <2>1 DEF HolderFits, NoContent, Holder
  <2>3. IsLeaf(P[n])
    BY <2>2 DEF IsLeaf, Within
  <2>4. h[n].kind = "leaf"
    BY <2>2, <2>3, LeafBag
  <2>5. LazyCopy(h, n) = Allocate(h, h[n])
    BY <2>4 DEF LazyCopy
  <2>6. g = SetHolder(Allocate(h, h[n]), x, Holder(i, TRUE))
    BY <1>5, <1>9, <2>1, <2>5 DEF OwnContent
  <2>7. g[c] = h[n]
    BY <2>6, <1>6
  <2> QED BY <2>1, <2>7, <1>9 DEF OwnedLeaf
<1> QED BY <1>7, <1>8, <1>9

LEMMA InWithin ==
  ASSUME DimsAssumption, NEW b \in Bin, NEW c \in Bin, Within(c, b), Len(b) = Len(Kind),
         NEW x \in Addresses, In(c, x)
  PROVE  In(b, x)
<1> SUFFICES ASSUME NEW i \in 1 .. Len(b) PROVE Starts(b[i], x[i])
  BY DEF In
<1>1. i \in 1 .. Len(c) /\ i \in DOMAIN b
  BY DEF Within, Bin
<1>2. b[i] \in Path /\ c[i] \in Path
  BY <1>1 DEF Bin
<1>3. x[i] \in Path
  <2>1. i \in Dims
    BY DimsAre
  <2> QED BY <2>1, AddressIs
<1>4. Starts(b[i], c[i]) /\ Starts(c[i], x[i])
  BY <1>1 DEF Within, In
<1> QED BY <1>2, <1>3, <1>4, StartsTransitive DEF Path

(* What is counted in a bin is counted in those it is within.              *)
LEMMA BoundedWithin ==
  ASSUME DimsAssumption, NEW b \in Bin, NEW c \in Bin, Within(c, b), Len(b) = Len(Kind),
         NEW ins \in [Addresses -> Nat], NEW a, NEW bag \in [Addresses -> Nat], NEW again,
         Bounded(bag, c, ins, a, again)
  PROVE  Bounded(bag, b, ins, a, again)
<1> SUFFICES ASSUME NEW x \in Addresses
             PROVE  bag[x] <= IF In(b, x) THEN Total(ins, a, x, again) ELSE 0
  BY DEF Bounded
<1>1. PICK n \in Nat : n = Total(ins, a, x, again)
  <2>1. ins[x] \in Nat
    OBVIOUS
  <2>2. Total(ins, a, x, again) \in Nat
    BY <2>1 DEF Total
  <2> QED BY <2>2
<1>2. bag[x] <= IF In(c, x) THEN n ELSE 0
  BY <1>1 DEF Bounded
<1>3. CASE In(c, x)
  BY <1>1, <1>2, <1>3, InWithin
<1>4. CASE ~In(c, x) /\ ~In(b, x)
  BY <1>2, <1>4
<1>5. CASE ~In(c, x) /\ In(b, x)
  <2>1. bag[x] <= 0
    BY <1>2, <1>5
  <2>2. bag[x] \in Int
    OBVIOUS
  <2> QED BY <2>1, <2>2, <1>1, <1>5
<1> QED BY <1>3, <1>4, <1>5

(* The entry comes to own a content: it has no more than it should.        *)
LEMMA OwnTally ==
  ASSUME DimsAssumption, NEW h, NEW P, NEW R, NEW W, Sound(h, P, R, W),
         NEW b \in Bin, NEW q \in Path, NEW B, B = Append(b, q),
         NEW x, EntryFits(h, P, x, b, q),
         NEW d, d = Len(B) + 1, NEW g, g = OwnContent(h, x, d),
         NEW r, r = HolderOf(h, x), NEW c, c = HolderOf(g, x).c,
         NEW ins \in [Addresses -> Nat], NEW a, NEW U, NEW C, Tally(h, P, U, C, a, ins),
         ~(~r.proper /\ r.c \in U), Len(B) = Len(Kind) => B \in C,
         NEW Q, Sound(g, Q, R, W), Carries(h, P, g, Q, Null), c \in DOMAIN Q, Q[c] = Of(B),
         Kept(h, P, g, Q, {PlaceOf(P[x.o]), <<B, <<>>>>}),
         NEW C2, C2 \subseteq C
  PROVE  Tally(g, Q, U, C2, a, ins)
<1>1. P[x.o].tree = b /\ Len(b) + 1 \in Dims
  BY EntryKind
<1>2. Len(b) # Len(Kind)
  BY <1>1, DimsAre
<1>3. B \in Bin /\ Len(B) = Len(b) + 1
  BY AppendIs DEF Bin
<1>4. ASSUME NEW y \in DOMAIN Q, IsLeaf(Q[y]), y # c
      PROVE  y \in DOMAIN P /\ Q[y] = P[y] /\ g[y] = h[y]
  <2>1. PlaceOf(Q[y]) # PlaceOf(P[x.o])
    BY <1>1, <1>2, <1>4 DEF PlaceOf, IsLeaf
  <2>2. PlaceOf(Q[y]) # <<B, <<>>>>
    <3> SUFFICES ASSUME PlaceOf(Q[y]) = <<B, <<>>>> PROVE FALSE
      OBVIOUS
    <3>1. Q[y].tree = B
      BY DEF PlaceOf
    <3>2. Q[y] = Of(Q[y].tree)
      BY <1>4, LeafBag
    <3>3. Q[y] = Q[c]
      BY <3>1, <3>2
    <3> QED BY <3>3, <1>4 DEF Sound
  <2> QED BY <2>1, <2>2 DEF Kept
<1>5. ASSUME IsLeaf(Q[c]) PROVE Bounded(g[c].bag, B, ins, a, FALSE)
  <2>1. Len(B) = Len(Kind) /\ B \in C
    BY <1>5 DEF IsLeaf, Of
  <2>2. OwnedLeaf(h, g, r, c)
    BY <2>1, OwnLeafIs
  <2>3. CASE g[c] = Leaf
    <3>1. \A e \in Addresses : g[c].bag[e] = 0 /\ ins[e] \in Nat
      BY <2>3 DEF Leaf
    <3> QED BY <3>1 DEF Bounded, Total
  <2>4. CASE g = h /\ c = r.c
    <3>1. c \in DOMAIN P /\ c # Null
      BY <2>4 DEF Sound
    <3>2. P[c] = Of(B)
      BY <3>1 DEF Carries
    <3>3. Bounded(h[c].bag, P[c].tree, ins, a, c \in U /\ P[c].tree \notin C)
      BY <3>1, <3>2, <1>5 DEF Tally
    <3>4. P[c].tree = B
      BY <3>2 DEF Of
    <3> QED BY <3>3, <3>4, <2>1, <2>4 DEF Bounded, Total
  <2>5. CASE r.c # Null /\ ~r.proper /\ g[c] = h[r.c]
    <3>1. PICK n : n = r.c
      OBVIOUS
    <3>2. HolderFits(P, r, B)
      BY EntryHolder
    <3>3. n \in DOMAIN P /\ ~P[n].node /\ Within(P[n].tree, B) /\ n \notin U
      BY <3>1, <3>2, <2>5 DEF HolderFits, NoContent, Holder
    <3>4. IsLeaf(P[n])
      BY <3>3, <2>1 DEF IsLeaf, Within
    <3>5. h[n].bag \in [Addresses -> Nat] /\ P[n].tree \in Bin
      BY <3>3, <3>4, LeafBag
    <3>6. Bounded(h[n].bag, P[n].tree, ins, a, n \in U /\ P[n].tree \notin C)
      BY <3>3, <3>4 DEF Tally
    <3>7. Bounded(h[n].bag, P[n].tree, ins, a, FALSE)
      BY <3>3, <3>6 DEF Bounded, Total
    <3>8. Bounded(h[n].bag, B, ins, a, FALSE)
      BY <3>3, <3>5, <3>7, <2>1, <1>3, BoundedWithin
    <3> QED BY <3>1, <3>8, <2>5
  <2> QED BY <2>2, <2>3, <2>4, <2>5 DEF OwnedLeaf
<1> SUFFICES ASSUME NEW y \in DOMAIN Q, IsLeaf(Q[y])
             PROVE  Bounded(g[y].bag, Q[y].tree, ins, a, y \in U /\ Q[y].tree \notin C2)
  BY DEF Tally
<1>6. g[y].bag \in [Addresses -> Nat]
  BY LeafBag
<1>7. CASE y = c
  <2>1. Q[y].tree = B
    BY <1>7 DEF Of
  <2>2. Bounded(g[y].bag, Q[y].tree, ins, a, FALSE)
    BY <2>1, <1>5, <1>7
  <2> QED BY <2>2, <1>6, BoundedMore
<1>8. CASE y # c
  <2>1. y \in DOMAIN P /\ Q[y] = P[y] /\ g[y] = h[y]
    BY <1>4, <1>8
  <2>2. Bounded(g[y].bag, Q[y].tree, ins, a, y \in U /\ Q[y].tree \notin C)
    BY <2>1 DEF Tally
  <2>3. (y \in U /\ Q[y].tree \notin C) => (y \in U /\ Q[y].tree \notin C2)
    OBVIOUS
  <2> QED BY <2>2, <2>3, <1>6, BoundedMore
<1> QED BY <1>7, <1>8

(* The content of an entry is left as it is, or another one is shared.     *)
LEMMA RiseTally ==
  ASSUME DimsAssumption, NEW a \in Addresses, NEW st, NEW P, Rising(st, P, a),
         NEW ins \in [Addresses -> Nat], Tallied(st, P, a, ins),
         NEW parent, parent = Parent(st), NEW r,
         NEW g, g = st.heap \/ g = SetHolder(st.heap, parent, r),
         NEW st2, st2 = On(st, g, parent)
  PROVE  Tallied(st2, P, a, ins)
<1>1. Sound(st.heap, P, st.replaced, Ahead(st, a))
  BY GoingParts DEF Rising
<1>2. PICK b, q : EntryFits(st.heap, P, parent, b, q)
  BY RisePlace DEF RiseIs
<1>3. P[parent.o].tree = b /\ Len(b) + 1 \in Dims
  BY <1>1, <1>2, EntryKind
<1>4. LeafsKept(st.heap, P, g, P)
  <2> SUFFICES ASSUME NEW y \in DOMAIN P, IsLeaf(P[y]) PROVE g[y] = st.heap[y]
    BY DEF LeafsKept
  <2>1. y # parent.o
    BY <1>3, DimsAre DEF IsLeaf
  <2>2. y \in DOMAIN st.heap
    BY <1>1 DEF Sound
  <2>3. SetHolder(st.heap, parent, r)[y] = st.heap[y]
    BY <2>1, <2>2, SetHolderElse
  <2> QED BY <2>3
<1>5. st2.heap = g /\ st2.updated = st.updated
  BY OnIs
<1>6. Coming(st2) \subseteq Coming(st)
  BY RiseComing
<1> QED BY <1>1, <1>4, <1>5, <1>6, TallyKept DEF Tallied

-----------------------------------------------------------------------------
(* A step of the way up.                                                   *)
LEMMA DeliverGoes ==
  ASSUME DimsAssumption, NEW a \in Addresses, NEW st, NEW P, NEW W, Ready(st, P, a, W),
         SharesBut(st.heap, P, DueOrSent(st, a)),
         NEW c \in DOMAIN P, P[c] = Of(Here(st, a, st.d + 1)),
         NEW par, ParallelFits(P, par, Here(st, a, st.d + 1)),
         NEW ins \in [Addresses -> Nat], Tally(st.heap, P, st.updated, Sending(st), a, ins),
         NEW st2, st2 = Deliver(st, c, par, a)
  PROVE  st2.fault = TRUE
         \/ \E Q : Going(st2, Q, a) /\ Settled(st2, Q, a) /\ Tallied(st2, Q, a, ins)
<1>1. PICK d, B : d = st.d + 1 /\ B = Here(st, a, d)
  OBVIOUS
<1>2. P[c] = Of(Here(st, a, d)) /\ ParallelFits(P, par, Here(st, a, d))
  BY <1>1
<1>3. CASE d \notin Dims
  <2>1. PICK g : g = [st.heap EXCEPT ![c].bag[a] = @ + 1]
    OBVIOUS
  <2>2. st2 = Count(st, g, c)
    BY <2>1, <1>1, <1>3, Zenon DEF Deliver, Count
  <2>3. st.d + 1 \notin Dims
    BY <1>1, <1>3
  <2>4. Going(st2, P, a)
    BY <2>1, <2>2, <2>3, LeafDelivered
  <2>5. Settled(st2, P, a)
    BY <2>1, <2>2, <2>3, <2>4, LeafSettled
  <2>6. Tallied(st2, P, a, ins)
    BY <2>1, <2>2, <2>3, LeafTally DEF Tallied
  <2> QED BY <2>4, <2>5, <2>6
<1>4. CASE d \in Dims
  <2>1. Kind[d] \in {"flat", "quad"}
    BY <1>4, DimsAre
  <2>2. st2 = IF Kind[d] = "flat" THEN EnterFlat(st, d, c, par, a[d])
              ELSE EnterQuad(st, d, c, par, a[d])
    BY <1>1, <1>4 DEF Deliver, Insert
  <2>3. CASE Kind[d] = "flat"
    <3>1. st2 = EnterFlat(st, d, c, par, a[d])
      BY <2>2, <2>3
    <3>2. st2.fault = TRUE \/ Leads(st.heap, P, DueOrSent(st, a), st2, P, a)
      BY <3>1, <2>3, <1>1, <1>2, <1>4, FlatGoes
    <3>3. st.heap[c].kind = "flat"
      <4>1. Sound(st.heap, P, st.replaced, W) /\ Len(Here(st, a, d)) + 1 = d
        BY <1>1, ReadyHere
      <4>2. ~P[c].node /\ P[c].tree = Here(st, a, d)
        BY <1>2 DEF Of
      <4>3. d = Len(P[c].tree) + 1
        BY <4>1, <4>2
      <4>4. FlatFits(P, st.heap[c], P[c].tree)
        BY <4>1, <4>2, <4>3, <1>4, <2>3, TreeOfKind
      <4> QED BY <4>4 DEF FlatFits
    <3>4. st2.fault = TRUE \/ EntersFrom(st, st2)
      BY <3>1, <3>3, <1>1, <1>4, ReadyHere, FlatFrom
    <3>5. ASSUME Leads(st.heap, P, DueOrSent(st, a), st2, P, a), EntersFrom(st, st2)
          PROVE  Tallied(st2, P, a, ins)
      BY <3>5, EnterTally DEF Tallied
    <3> QED BY <3>2, <3>4, <3>5, LeadsSettled
  <2>4. CASE Kind[d] = "quad"
    <3>1. st2 = EnterQuad(st, d, c, par, a[d])
      BY <2>2, <2>4
    <3>2. st2.fault = TRUE \/ \E Q : Leads(st.heap, P, DueOrSent(st, a), st2, Q, a)
      BY <3>1, <2>4, <1>1, <1>2, <1>4, QuadGoes
    <3>3. st2.fault = TRUE \/ EntersFrom(st, st2)
      BY <3>1, <1>1, <1>4, ReadyHere, QuadFrom
    <3>4. ASSUME NEW Q, Leads(st.heap, P, DueOrSent(st, a), st2, Q, a), EntersFrom(st, st2)
          PROVE  Tallied(st2, Q, a, ins)
      BY <3>4, EnterTally DEF Tallied
    <3> QED BY <3>2, <3>3, <3>4, LeadsSettled
  <2> QED BY <2>1, <2>3, <2>4
<1> QED BY <1>3, <1>4

(* An entry that has not an only child may own a content.                  *)
LEMMA RiseMayOwn ==
  ASSUME NEW h, NEW P, NEW R, NEW W, Sound(h, P, R, W),
         NEW call, NEW parent, NEW d, NEW l, NEW b, NEW p,
         RiseIs(h, P, call, parent, d, l, b, p), ~HasOneChild(h, parent)
  PROVE  MayOwn(h, parent)
<1> SUFFICES ASSUME parent.e = Self, h[parent.o].kind = "flat"
             PROVE  DOMAIN h[parent.o].kids # {}
  BY DEF MayOwn, HasOneChild, OnlyChild
<1>0. PICK q, x : q = Pre(p, l) /\ x = call.stack[1]
  OBVIOUS
<1>1. EntryFits(h, P, parent, b, q)
  BY <1>0 DEF RiseIs
<1>2. parent.o \in DOMAIN P /\ P[parent.o] = Of(b) /\ Kind[Len(b) + 1] = "flat"
  <2>1. IF P[parent.o].node
        THEN NodeFits(P, R, W, h[parent.o], b, q)
        ELSE P[parent.o] = Of(b) /\ Kind[Len(b) + 1] = "flat"
    BY <1>1, EntryKind
  <2>2. parent.o \in DOMAIN P
    BY <1>1, EntryKind
  <2> QED BY <2>1, <2>2 DEF NodeFits
<1>3. EntryFits(h, P, x, b, p) /\ p # <<>>
  <2>1. Len(b) + 1 = d /\ Len(p) \in Nat \ {0} /\ (Kind[d] = "flat" => EntryFits(h, P, x, b, p))
    BY <1>0 DEF RiseIs
  <2>2. p # <<>>
    BY <2>1
  <2> QED BY <2>1, <2>2, <1>2
<1>4. x.o \in DOMAIN P /\ P[x.o] = Of(b) /\ x.e \in DOMAIN h[x.o].kids
  <2>1. /\ x.o \in DOMAIN P
        /\ IF P[x.o].node THEN Kind[Len(b) + 1] = "quad"
           ELSE /\ P[x.o] = Of(b)
                /\ \/ x.e = Self /\ p = <<>>
                   \/ x.e # Self /\ x.e \in DOMAIN h[x.o].kids /\ p = <<x.e>>
    BY <1>3, EntryKind
  <2> QED BY <2>1, <1>2, <1>3
<1>5. x.o = parent.o
  BY <1>2, <1>4 DEF Sound
<1> QED BY <1>4, <1>5

(* The entry owns a content, and the record is sent into it.               *)
LEMMA UnwindOwns ==
  ASSUME DimsAssumption, NEW a \in Addresses, NEW st, NEW P, Rising(st, P, a), Settled(st, P, a),
         NEW ins \in [Addresses -> Nat], Tallied(st, P, a, ins),
         NEW parent, parent = Parent(st), ~HasOneChild(st.heap, parent),
         NEW r, r = HolderOf(st.heap, parent), ~(~r.proper /\ r.c \in st.updated),
         NEW below, below = Below(st.heap, st.calls[st.d]),
         NEW g, g = OwnContent(st.heap, parent, st.d + 1),
         NEW c, c = HolderOf(g, parent).c,
         NEW st2, st2 = Deliver(On(st, g, parent), c, below, a)
  PROVE  st2.fault = TRUE
         \/ \E Q : Going(st2, Q, a) /\ Settled(st2, Q, a) /\ Tallied(st2, Q, a, ins)
<1>0. PICK d, call, l, b, p, h, R, W, q, B, st1 :
        /\ d = st.d /\ call = st.calls[st.d] /\ l = st.calls[st.d].level
        /\ b = Here(st, a, st.d) /\ p = a[st.d] /\ h = st.heap
        /\ R = st.replaced /\ W = Ahead(st, a)
        /\ q = Pre(p, l) /\ B = Append(b, q) /\ st1 = On(st, g, parent)
  OBVIOUS
<1>1. RiseIs(h, P, call, parent, d, l, b, p)
  BY <1>0, RisePlace
<1>2. /\ b \in Bin /\ q \in Path /\ EntryFits(h, P, parent, b, q)
      /\ d \in Nat \ {0} /\ Len(b) + 1 = d /\ Len(b) \in Nat
  BY SMTT(20), <1>0, <1>1 DEF RiseIs
<1>3. /\ Sound(h, P, R, W) /\ st.d \in Dims /\ Levels(st, a, st.d - 1)
  <2>1. Going(st, P, a) /\ st.d # 0
    BY DEF Rising
  <2> QED BY <2>1, <1>0, GoingParts
<1>4. MayOwn(h, parent)
  <2>1. ~HasOneChild(h, parent)
    BY <1>0
  <2> QED BY <2>1, <1>1, <1>3, RiseMayOwn
<1>5. B \in Bin /\ Len(B) = d
  <2>1. B \in Bin /\ Len(B) = Len(b) + 1
    BY <1>0, <1>2, AppendIs DEF Bin
  <2> QED BY <2>1, <1>2
<1>6. UpwardAll(W, B)
  <2>1. l \in Int
    <3>1. l \in 0 .. Len(p) /\ Len(p) \in Nat
      BY <1>1 DEF RiseIs
    <3> QED BY <3>1
  <2>2. st.calls[st.d].level \in Int
    BY <2>1, <1>0
  <2>3. \A e \in Bin : Within(e, B) => Upward(Ahead(st, a), e, B)
    BY <2>2, <1>3, <1>5, UpwardAhead
  <2> QED BY <2>3, <1>0 DEF UpwardAll
<1>7. OwnsContent(h, P, R, W, g, parent, B)
  <2>1. PICK n : n = d + 1
    OBVIOUS
  <2>2. n = Len(B) + 1 /\ g = OwnContent(h, parent, n)
    BY <2>1, <1>0, <1>5
  <2> QED BY <2>2, <1>0, <1>2, <1>3, <1>4, <1>6, OwnContentIs
<1>8. PICK Q : /\ Sound(g, Q, R, W) /\ Carries(h, P, g, Q, Null) /\ c \in DOMAIN Q /\ Q[c] = Of(B)
               /\ Kept(h, P, g, Q, {PlaceOf(P[parent.o]), <<B, <<>>>>})
               /\ parent.e = Self => g[parent.o].kids = h[parent.o].kids
  BY <1>7 DEF OwnsContent
<1>9. Ready(st1, Q, a, W)
  <2>1. Sound(g, Q, st.replaced, Ahead(st, a)) /\ Carries(st.heap, P, g, Q, Null)
    BY <1>0, <1>8
  <2>2. Ready(st1, Q, a, Ahead(st, a))
    BY <2>1, <1>0, RiseReady
  <2> QED BY <2>2, <1>0
<1>10. Here(st1, a, st1.d + 1) = B
  <2>1. st1.d = st.d /\ Here(st1, a, st.d + 1) = Append(Here(st, a, st.d), Pre(a[st.d], st.calls[st.d].level))
    BY <1>0, OnIs
  <2> QED BY <2>1, <1>0
<1>11. ParallelFits(Q, below, B)
  <2>1. CASE call.child = NoEntry
    <3>1. below = Null
      BY <2>1, <1>0 DEF Below
    <3> QED BY <3>1 DEF ParallelFits
  <2>2. CASE call.child # NoEntry
    <3>1. PICK child, s : child = call.child /\ s = HolderOf(h, child)
      OBVIOUS
    <3>2. below = s.c
      BY <2>2, <3>1, <1>0 DEF Below
    <3>3. B = Append(b, Pre(p, l))
      BY <1>0
    <3>4. s.c # Null => s.c \in DOMAIN P /\ ~P[s.c].node /\ Finer(P[s.c].tree, B)
      BY <2>2, <3>1, <3>3, <1>1, <1>3, BelowFits
    <3>5. below # Null => below \in DOMAIN P /\ ~P[below].node /\ Finer(P[below].tree, B)
      BY <3>2, <3>4
    <3> QED BY <3>5, <1>8 DEF Carries, ParallelFits
  <2> QED BY <2>1, <2>2
<1>12. /\ Q[c] = Of(Here(st1, a, st1.d + 1)) /\ ParallelFits(Q, below, Here(st1, a, st1.d + 1))
       /\ st2 = Deliver(st1, c, below, a)
  BY <1>0, <1>8, <1>10, <1>11
<1>13. parent.e = Self => Shares(g, parent.o)
  <2>1. ~HasOneChild(h, parent)
    BY <1>0
  <2> QED BY <2>1, <1>8 DEF HasOneChild, Shares
<1>14. SharesBut(st1.heap, Q, DueOrSent(st1, a))
  <2>1. /\ Sound(g, Q, st.replaced, Ahead(st, a)) /\ Carries(st.heap, P, g, Q, Null)
        /\ B = Append(Here(st, a, st.d), Pre(a[st.d], st.calls[st.d].level))
        /\ Kept(st.heap, P, g, Q, {PlaceOf(P[parent.o]), <<B, <<>>>>})
    BY <1>0, <1>8
  <2>2. st1 = On(st, g, parent)
    BY <1>0
  <2>3. SharesBut(g, Q, DueOrSent(st1, a))
    BY <2>1, <2>2, <1>13, RiseSettled
  <2>4. st1.heap = g
    BY <2>2, OnIs
  <2> QED BY <2>3, <2>4
<1>15. st1.updated = st.updated /\ st1.heap = g /\ st1 = On(st, g, parent)
  BY <1>0, OnIs
<1>16. Sending(st1) \subseteq Coming(st)
  BY <1>15, RiseComing
<1>17. Len(B) = Len(Kind) => B \in Coming(st)
  <2> SUFFICES ASSUME Len(B) = Len(Kind) PROVE B \in Sending(st1)
    BY <1>16
  <2>1. st1.d + 1 \notin Dims
    <3>1. st1.d = d
      BY <1>0, <1>15, OnIs
    <3> QED BY <3>1, <1>5, DimsAre
  <2> QED BY <2>1, <1>9, <1>10, SentLeaf
<1>18. Tally(st1.heap, Q, st1.updated, Sending(st1), a, ins)
  <2>1. PICK n, U, C, C2 : n = Len(B) + 1 /\ U = st.updated /\ C = Coming(st) /\ C2 = Sending(st1)
    OBVIOUS
  <2>2. g = OwnContent(h, parent, n) /\ r = HolderOf(h, parent)
    BY <2>1, <1>0, <1>5
  <2>3. Tally(h, P, U, C, a, ins) /\ ~(~r.proper /\ r.c \in U) /\ C2 \subseteq C
    BY <2>1, <1>0, <1>16 DEF Tallied
  <2>4. Len(B) = Len(Kind) => B \in C
    BY <2>1, <1>17
  <2>5. B = Append(b, q)
    BY <1>0
  <2>6. Tally(g, Q, U, C2, a, ins)
    BY <2>1, <2>2, <2>3, <2>4, <2>5, <1>2, <1>3, <1>8, OwnTally
  <2> QED BY <2>1, <2>6, <1>15
<1>19. PICK W1, b1 : W1 = Ahead(st, a) /\ b1 = Here(st1, a, st1.d + 1)
  OBVIOUS
<1>20. /\ Ready(st1, Q, a, W1) /\ SharesBut(st1.heap, Q, DueOrSent(st1, a))
       /\ c \in DOMAIN Q /\ Q[c] = Of(Here(st1, a, st1.d + 1))
       /\ ParallelFits(Q, below, Here(st1, a, st1.d + 1))
       /\ Tally(st1.heap, Q, st1.updated, Sending(st1), a, ins)
       /\ st2 = Deliver(st1, c, below, a)
  BY Zenon, <1>0, <1>8, <1>9, <1>12, <1>14, <1>18, <1>19
<1>21. st2.fault = TRUE
       \/ \E T : Going(st2, T, a) /\ Settled(st2, T, a) /\ Tallied(st2, T, a, ins)
  BY ZenonT(60), <1>20, DeliverGoes
<1> QED BY Zenon, <1>21

LEMMA UnwindGoes ==
  ASSUME DimsAssumption, NEW a \in Addresses, NEW st, NEW P, Rising(st, P, a), Settled(st, P, a),
         NEW ins \in [Addresses -> Nat], Tallied(st, P, a, ins),
         NEW st2, st2 = Unwind(st, a)
  PROVE  st2.fault = TRUE
         \/ \E Q : Going(st2, Q, a) /\ Settled(st2, Q, a) /\ Tallied(st2, Q, a, ins)
<1>0. PICK parent, below, g, shared :
        /\ parent = Parent(st) /\ below = Below(st.heap, st.calls[st.d])
        /\ g = OwnContent(st.heap, parent, st.d + 1)
        /\ shared = SetHolder(st.heap, parent, Holder(below, FALSE))
  OBVIOUS
<1>1. PICK x : x = HolderOf(st.heap, parent)
  OBVIOUS
<1>2. st2 = IF HasOneChild(st.heap, parent) THEN On(st, shared, parent)
            ELSE IF ~x.proper /\ x.c \in st.updated THEN On(st, st.heap, parent)
            ELSE Deliver(On(st, g, parent), HolderOf(g, parent).c, below, a)
  <2>1. parent = st.calls[st.d].stack[st.calls[st.d].level]
    BY <1>0 DEF Parent, TopOf
  <2>2. below = IF st.calls[st.d].child = NoEntry THEN Null
                ELSE HolderOf(st.heap, st.calls[st.d].child).c
    BY <1>0 DEF Below
  <2> QED BY <2>1, <2>2, <1>0, <1>1, Zenon DEF Unwind, On, Rises
<1>3. CASE HasOneChild(st.heap, parent)
  <2>1. st2 = On(st, shared, parent)
    BY <1>2, <1>3
  <2>2. Going(st2, P, a) /\ Settled(st2, P, a)
    BY <2>1, <1>0, <1>3, UnwindShares
  <2>3. PICK r : r = Holder(below, FALSE)
    OBVIOUS
  <2>4. shared = SetHolder(st.heap, parent, r)
    BY <2>3, <1>0
  <2>5. Tallied(st2, P, a, ins)
    BY <2>1, <2>4, <1>0, RiseTally
  <2> QED BY <2>2, <2>5
<1>4. CASE ~HasOneChild(st.heap, parent) /\ ~x.proper /\ x.c \in st.updated
  <2>1. st2 = On(st, st.heap, parent)
    BY <1>2, <1>4
  <2>2. ~HolderOf(st.heap, parent).proper /\ ~HasOneChild(st.heap, parent) /\ parent = Parent(st)
    BY <1>0, <1>1, <1>4
  <2>3. Going(st2, P, a) /\ Settled(st2, P, a)
    BY <2>1, <2>2, UnwindSkips
  <2>4. PICK g1 : g1 = st.heap
    OBVIOUS
  <2>5. Tallied(st2, P, a, ins)
    BY <2>1, <2>4, <1>0, RiseTally
  <2> QED BY <2>3, <2>5
<1>5. CASE ~HasOneChild(st.heap, parent) /\ ~(~x.proper /\ x.c \in st.updated)
  <2>1. PICK c : c = HolderOf(g, parent).c
    OBVIOUS
  <2>2. st2 = Deliver(On(st, g, parent), c, below, a)
    BY <2>1, <1>2, <1>5
  <2> QED BY <2>1, <2>2, <1>0, <1>1, <1>5, UnwindOwns
<1> QED BY <1>3, <1>4, <1>5

(* The innermost call is through.                                          *)
LEMMA ReturnGoes ==
  ASSUME DimsAssumption, NEW a \in Addresses, NEW st, NEW P, Going(st, P, a),
         st.d # 0, ~st.calls[st.d].walking, ~(st.calls[st.d].level >= 0),
         NEW st2, st2 = Return(st)
  PROVE  Going(st2, P, a)
<1>1. /\ Shape(st) /\ st.d \in Dims /\ Sound(st.heap, P, st.replaced, Ahead(st, a))
      /\ Outer(st.heap, P, st, a, st.d - 1)
      /\ CallFits(st.heap, P, st.calls[st.d], Here(st, a, st.d), a[st.d], TRUE)
  BY GoingParts
<1>2. Dims = 1 .. Len(Kind) /\ Len(Kind) \in Nat /\ st.d \in Nat \ {0}
  BY <1>1, DimsAre
<1>3. PICK n : n = st.d - 1
  OBVIOUS
<1>4. n \in Nat /\ n \in {0} \cup Dims /\ 1 .. n \subseteq 1 .. st.d /\ st.d = n + 1
  BY <1>1, <1>2, <1>3
<1>5. /\ DOMAIN st2 = DOMAIN st /\ st2.d = n /\ st2.calls = st.calls /\ st2.heap = st.heap
      /\ st2.replaced = st.replaced
  BY <1>1, <1>3 DEF Return, Shape
<1>6. Shape(st2)
  BY <1>1, <1>4, <1>5 DEF Shape
<1>7. ASSUME NEW b \in Bin, NEW q \in Path, Comes(st, b, q) PROVE Comes(st2, b, q)
  <2>1. PICK i \in 1 .. st.d :
          /\ i <= Len(b) /\ Len(b[i]) <= st.calls[i].level
          /\ \A j \in 1 .. i - 1 : Len(b[j]) <= st.calls[j].level + 1
    BY <1>7 DEF Comes
  <2>2. i # st.d
    <3> SUFFICES ASSUME i = st.d PROVE FALSE
      OBVIOUS
    <3>1. PICK m, e : m = st.calls[st.d].level /\ e = a[st.d]
      OBVIOUS
    <3>2. m \in -1 .. Len(e) /\ e \in Path
      BY <3>1, <1>1, AddressIs DEF CallFits
    <3>3. m = -1
      <4>1. Len(e) \in Nat
        BY <3>2 DEF Path
      <4> QED BY <3>1, <3>2, <4>1
    <3>4. Len(b[i]) \in Nat
      <4>1. i \in 1 .. Len(b)
        BY <2>1, <1>2 DEF Bin
      <4>2. b[i] \in Path
        BY <4>1 DEF Bin
      <4> QED BY <4>2 DEF Path
    <3>5. Len(b[i]) <= m
      BY <2>1, <3>1
    <3> QED BY <3>3, <3>4, <3>5
  <2>3. i \in 1 .. n
    BY <2>2, <1>4
  <2> QED BY <2>1, <2>3, <1>5 DEF Comes
<1>8. Ahead(st, a) \subseteq Ahead(st2, a)
  BY <1>7 DEF Ahead
<1>9. Sound(st2.heap, P, st2.replaced, Ahead(st2, a))
  <2>1. UpToDate(st.heap, P, Ahead(st, a), Ahead(st2, a))
    BY <1>8 DEF UpToDate
  <2>2. Sound(st.heap, P, st.replaced, Ahead(st2, a))
    BY <2>1, <1>1, Shrink
  <2> QED BY <2>2, <1>5
<1>10. Outer(st2.heap, P, st2, a, st2.d)
  <2>1. Outer(st.heap, P, st, a, n)
    BY <1>1, <1>3
  <2>2. \A j \in 1 .. n : st2.calls[j] = st.calls[j]
    BY <1>5
  <2>3. Outer(st.heap, P, st2, a, n)
    BY <2>1, <2>2, <1>4, OuterSame
  <2> QED BY <2>3, <1>5
<1> QED BY <1>6, <1>9, <1>10, OuterGoing

LEMMA ReturnSettled ==
  ASSUME DimsAssumption, NEW a \in Addresses, NEW st, NEW P, Going(st, P, a), Settled(st, P, a),
         st.d # 0, ~st.calls[st.d].walking, ~(st.calls[st.d].level >= 0),
         NEW st2, st2 = Return(st)
  PROVE  Settled(st2, P, a)
<1>1. /\ Shape(st) /\ st.d \in Dims
      /\ CallFits(st.heap, P, st.calls[st.d], Here(st, a, st.d), a[st.d], TRUE)
  BY GoingParts
<1>2. PICK d, l, e : d = st.d /\ l = st.calls[st.d].level /\ e = a[st.d]
  OBVIOUS
<1>3. d \in Nat \ {0} /\ st.d = d /\ ~st.calls[d].walking /\ st.calls[d].level = l
  BY <1>1, <1>2, DimsAre
<1>4. st2.d = d - 1 /\ st2.calls = st.calls /\ st2.heap = st.heap
  BY <1>1, <1>2 DEF Return, Shape
<1>5. l = -1
  <2>1. l \in -1 .. Len(e) /\ e \in Path
    BY <1>1, <1>2, AddressIs DEF CallFits
  <2>2. Len(e) \in Nat
    BY <2>1 DEF Path
  <2> QED BY <2>1, <2>2, <1>2
<1>6. ASSUME NEW b \in Bin, NEW q \in Path, NEW i \in 1 .. d, Pending(st, i, b, q)
      PROVE  i \in 1 .. d - 1 /\ Pending(st2, i, b, q)
  <2>1. Len(b) >= i - 1 /\ UpTo(st, b, i - 1) /\ Open(st, i, b, q) /\ Len(b) \in Nat
    BY <1>6 DEF Pending, Bin
  <2>2. Len(q) \in Nat
    BY DEF Path
  <2>3. i # d
    <3> SUFFICES ASSUME i = d PROVE FALSE
      OBVIOUS
    <3>1. IF Len(b) = i - 1 THEN Len(q) <= -1 ELSE Len(b[i]) <= -1
      BY <2>1, <1>3, <1>5 DEF Open
    <3>2. Len(b) # i - 1 /\ Len(b[i]) <= -1
      BY <3>1, <2>2
    <3>3. i \in 1 .. Len(b)
      BY <3>2, <2>1, <1>3
    <3>4. b[i] \in Path
      BY <3>3 DEF Bin
    <3>5. Len(b[i]) \in Nat
      BY <3>4 DEF Path
    <3> QED BY <3>2, <3>5
  <2>4. i \in 1 .. d - 1
    BY <2>3, <1>3
  <2>5. UpTo(st2, b, i - 1)
    BY <2>1, <1>4 DEF UpTo
  <2>6. Open(st2, i, b, q)
    BY <2>1, <2>3, <1>3, <1>4 DEF Open
  <2> QED BY <2>1, <2>4, <2>5, <2>6 DEF Pending
<1>7. Due(st, a) \subseteq Due(st2, a)
  <2> SUFFICES ASSUME NEW w \in Bin \X Path, Covers(w[1], w[2], a),
                      NEW i \in 1 .. d, Pending(st, i, w[1], w[2])
               PROVE  w \in Due(st2, a)
    BY <1>3 DEF Due
  <2>1. w[1] \in Bin /\ w[2] \in Path
    OBVIOUS
  <2>2. i \in 1 .. d - 1 /\ Pending(st2, i, w[1], w[2])
    BY <2>1, <1>6
  <2> QED BY <2>2, <1>4 DEF Due
<1> QED BY <1>4, <1>7 DEF Settled, SharesBut

(* An insertion that no assert stops.                                      *)
Goes(st, a, ins) ==
  st.fault = TRUE
  \/ \E P : Going(st, P, a) /\ Settled(st, P, a) /\ Tallied(st, P, a, ins)

LEMMA StepGoes ==
  ASSUME DimsAssumption, NEW a \in Addresses, NEW ins \in [Addresses -> Nat],
         NEW st, Goes(st, a, ins),
         NEW st2, st2 = InsertStep(st, a)
  PROVE  Goes(st2, a, ins)
<1>1. CASE st.fault \/ st.d = 0
  <2>1. st2 = st
    BY <1>1 DEF InsertStep
  <2> QED BY <2>1
<1>2. ASSUME ~st.fault, st.d # 0 PROVE Goes(st2, a, ins)
  <2>1. PICK P : Going(st, P, a) /\ Settled(st, P, a) /\ Tallied(st, P, a, ins)
    BY <1>2 DEF Goes
  <2>2. CASE st.calls[st.d].walking
    <3>1. st2 = Walk(st, a[st.d])
      BY <1>2, <2>2 DEF InsertStep
    <3>2. st2.fault = TRUE \/ \E Q : Leads(st.heap, P, Due(st, a), st2, Q, a)
      BY <3>1, <2>1, <2>2, <1>2, WalkGoes
    <3>3. SharesBut(st.heap, P, Due(st, a))
      BY <2>1 DEF Settled
    <3>4. ASSUME ~st2.fault, NEW Q, Leads(st.heap, P, Due(st, a), st2, Q, a)
          PROVE  Tallied(st2, Q, a, ins)
      BY <3>1, <3>4, <2>1, <2>2, <1>2, WalkTally DEF Tallied
    <3>5. CASE st2.fault = TRUE
      BY <3>5 DEF Goes
    <3>6. CASE st2.fault # TRUE
      <4>1. PICK Q : Leads(st.heap, P, Due(st, a), st2, Q, a)
        BY <3>2, <3>6
      <4>2. Going(st2, Q, a) /\ Settled(st2, Q, a)
        BY <4>1, <3>3, LeadsSettled
      <4> QED BY <4>1, <4>2, <3>4, <3>6 DEF Goes
    <3> QED BY <3>5, <3>6
  <2>3. CASE ~st.calls[st.d].walking /\ st.calls[st.d].level >= 0
    <3>1. st2 = Unwind(st, a)
      BY <1>2, <2>3 DEF InsertStep
    <3>2. Rising(st, P, a)
      BY <2>1, <2>3, <1>2 DEF Rising
    <3>3. st2.fault = TRUE
          \/ \E Q : Going(st2, Q, a) /\ Settled(st2, Q, a) /\ Tallied(st2, Q, a, ins)
      BY <2>1, <3>1, <3>2, UnwindGoes
    <3> QED BY <3>3 DEF Goes
  <2>4. CASE ~st.calls[st.d].walking /\ ~(st.calls[st.d].level >= 0)
    <3>1. st2 = Return(st)
      BY <1>2, <2>4 DEF InsertStep
    <3>2. Going(st2, P, a) /\ Settled(st2, P, a)
      BY <3>1, <2>1, <2>4, <1>2, ReturnGoes, ReturnSettled
    <3>3. Tallied(st2, P, a, ins)
      <4>1. /\ Coming(st2) \subseteq Coming(st) /\ st.updated \subseteq st2.updated
            /\ st2.heap = st.heap
        BY <3>1, <2>1, <1>2, ReturnComing
      <4>2. Sound(st.heap, P, st.replaced, Ahead(st, a))
        BY <2>1 DEF Going
      <4>3. LeafsKept(st.heap, P, st2.heap, P)
        BY <4>1 DEF LeafsKept
      <4> QED BY <4>1, <4>2, <4>3, <2>1, TallyKept DEF Tallied
    <3> QED BY <3>2, <3>3 DEF Goes
  <2> QED BY <2>2, <2>3, <2>4
<1> QED BY <1>1, <1>2

LEMMA IdleReady ==
  ASSUME DimsAssumption, NEW a \in Addresses, NEW h, NEW P, Sound(h, P, {}, {}),
         NEW st, st = Idle(h)
  PROVE  /\ Ready(st, P, a, {}) /\ st.d = 0 /\ Here(st, a, 1) = <<>>
<1>1. /\ DOMAIN st = {"heap", "calls", "d", "updated", "replaced", "fault"}
      /\ st.heap = h /\ st.d = 0 /\ st.replaced = {}
  BY DEF Idle
<1>2. 1 .. 0 = {}
  OBVIOUS
<1>3. Shape(st)
  BY <1>1, <1>2 DEF Shape
<1>4. Outer(st.heap, P, st, a, st.d)
  BY <1>1, <1>2 DEF Outer
<1>5. Sent(st, a, {})
  BY DEF Sent
<1>6. Here(st, a, 1) = <<>>
  BY <1>2 DEF Here
<1> QED BY <1>1, <1>3, <1>4, <1>5, <1>6 DEF Ready

(* Between insertions every only child is shared, and no time series has a *)
(* record more often than it was inserted, or one of another bin.          *)
Counts(h, P, ins) ==
  \A y \in DOMAIN P : IsLeaf(P[y]) =>
    \A x \in Addresses : h[y].bag[x] <= IF In(P[y].tree, x) THEN ins[x] ELSE 0
Settles(h, P, ins) == Sound(h, P, {}, {}) /\ SharesBut(h, P, {}) /\ Counts(h, P, ins)

LEMMA FirstGoes ==
  ASSUME DimsAssumption, NEW a \in Addresses, NEW ins \in [Addresses -> Nat],
         NEW h, NEW P, Settles(h, P, ins),
         NEW st, st = Insert(Idle(h), 1, Root, Null, a)
  PROVE  Goes(st, a, ins)
<1>1. PICK st0 : st0 = Idle(h)
  OBVIOUS
<1>2. Ready(st0, P, a, {}) /\ st0.d = 0 /\ Here(st0, a, 1) = <<>>
  BY <1>1, IdleReady DEF Settles
<1>3. st0.d + 1 = 1 /\ 1 \in Dims
  BY <1>2, DimsAre
<1>4. st = Deliver(st0, Root, Null, a)
  BY <1>1, <1>3 DEF Deliver
<1>5. Root \in DOMAIN P /\ P[Root] = Of(Here(st0, a, st0.d + 1))
  BY <1>2, <1>3 DEF Sound, Settles
<1>6. ParallelFits(P, Null, Here(st0, a, st0.d + 1))
  BY DEF ParallelFits
<1>7. SharesBut(st0.heap, P, DueOrSent(st0, a))
  <2>1. st0.heap = h
    BY <1>1 DEF Idle
  <2> QED BY <2>1 DEF Settles, SharesBut
<1>8. Tally(st0.heap, P, st0.updated, Sending(st0), a, ins)
  <2>1. st0.heap = h /\ st0.updated = {}
    BY <1>1 DEF Idle
  <2>2. Counts(h, P, ins)
    BY DEF Settles
  <2>3. ASSUME NEW y \in DOMAIN P, IsLeaf(P[y]), NEW again, ~again
        PROVE  Bounded(h[y].bag, P[y].tree, ins, a, again)
    BY <2>2, <2>3 DEF Counts, Bounded, Total
  <2> QED BY <2>1, <2>3 DEF Tally
<1>9. PICK W : W = {}
  OBVIOUS
<1>10. st.fault = TRUE \/ \E Q : Going(st, Q, a) /\ Settled(st, Q, a) /\ Tallied(st, Q, a, ins)
  <2>1. /\ Ready(st0, P, a, W) /\ SharesBut(st0.heap, P, DueOrSent(st0, a))
        /\ Root \in DOMAIN P /\ P[Root] = Of(Here(st0, a, st0.d + 1))
        /\ ParallelFits(P, Null, Here(st0, a, st0.d + 1))
        /\ Tally(st0.heap, P, st0.updated, Sending(st0), a, ins)
        /\ st = Deliver(st0, Root, Null, a)
    BY Zenon, <1>2, <1>4, <1>5, <1>6, <1>7, <1>8, <1>9
  <2> QED BY ZenonT(60), <2>1, DeliverGoes
<1> QED BY Zenon, <1>10 DEF Goes

LEMMA InsertedGoes ==
  ASSUME DimsAssumption, NEW a \in Addresses, NEW ins \in [Addresses -> Nat],
         NEW h, NEW P, Settles(h, P, ins),
         NEW st, st = Inserted(h, a)
  PROVE  Goes(st, a, ins)
<1> DEFINE First == Insert(Idle(h), 1, Root, Null, a)
           More(st0) == InsertStep(st0, a)
           Step(g, n) == IF n = 0 THEN First ELSE More(g[n - 1])
           S == {m \in Nat : \E g : g = [n \in 0 .. m |-> Step(g, n)]}
<1>1. MaxSteps \in Nat
  BY DEF DimsAssumption
<1> HIDE DEF First, More
<1>2. Nat \subseteq S
  <2>1. 0 \in S
    <3>1. [n \in 0 .. 0 |-> First] = [n \in 0 .. 0 |-> Step([k \in 0 .. 0 |-> First], n)]
      OBVIOUS
    <3> QED BY <3>1
  <2>2. ASSUME NEW m \in Nat, m \in S PROVE m + 1 \in S
    <3>1. PICK g : g = [n \in 0 .. m |-> Step(g, n)]
      BY <2>2
    <3> DEFINE f == [n \in 0 .. m + 1 |-> IF n = m + 1 THEN More(g[m]) ELSE g[n]]
    <3>2. ASSUME NEW n \in 0 .. m + 1 PROVE f[n] = Step(f, n)
      <4>1. CASE n = 0
        <5>1. f[n] = g[0] /\ g[0] = First
          BY <4>1, <3>1
        <5> QED BY <4>1, <5>1
      <4>2. CASE n \in 1 .. m
        <5>1. f[n] = g[n] /\ f[n - 1] = g[n - 1] /\ n \in 0 .. m
          BY <4>2
        <5>2. g[n] = More(g[n - 1])
          BY <4>2, <5>1, <3>1
        <5> QED BY <4>2, <5>1, <5>2
      <4>3. CASE n = m + 1
        <5>1. f[n] = More(g[m]) /\ f[n - 1] = g[m]
          BY <4>3
        <5> QED BY <4>3, <5>1
      <4> QED BY <4>1, <4>2, <4>3
    <3>3. f = [n \in 0 .. m + 1 |-> Step(f, n)]
      BY <3>2
    <3> HIDE DEF f
    <3>4. \E g2 : g2 = [n \in 0 .. m + 1 |-> Step(g2, n)]
      BY <3>3, Zenon
    <3>5. m + 1 \in Nat
      OBVIOUS
    <3> QED BY <3>4, <3>5, Zenon
  <2> HIDE DEF S
  <2> QED BY <2>1, <2>2, SetInduction
<1> DEFINE after == CHOOSE g : g = [n \in 0 .. MaxSteps |-> Step(g, n)]
<1>3. after = [n \in 0 .. MaxSteps |-> Step(after, n)]
  BY <1>1, <1>2
<1>4. Inserted(h, a) = after[MaxSteps]
  BY <1>1 DEF Inserted, First, More
<1> HIDE DEF after
<1>5. after[0] = First /\ \A n \in 1 .. MaxSteps : after[n] = More(after[n - 1])
  <2>1. \A n \in 0 .. MaxSteps : after[n] = Step(after, n)
    BY <1>3, Zenon
  <2>2. 0 \in 0 .. MaxSteps /\ \A n \in 1 .. MaxSteps : n \in 0 .. MaxSteps /\ n # 0
    BY <1>1
  <2> QED BY <2>1, <2>2
<1> DEFINE T == {n \in Nat : n <= MaxSteps => Goes(after[n], a, ins)}
<1>6. Nat \subseteq T
  <2>1. 0 \in T
    <3>1. Goes(First, a, ins)
      BY FirstGoes DEF First
    <3> QED BY <3>1, <1>5
  <2>2. ASSUME NEW n \in Nat, n \in T PROVE n + 1 \in T
    <3> SUFFICES ASSUME n + 1 <= MaxSteps PROVE Goes(after[n + 1], a, ins)
      OBVIOUS
    <3>1. Goes(after[n], a, ins) /\ n + 1 \in 1 .. MaxSteps /\ n + 1 - 1 = n
      BY <1>1, <2>2
    <3>2. PICK x, y : x = after[n] /\ y = after[n + 1]
      OBVIOUS
    <3>3. y = InsertStep(x, a)
      BY <3>1, <3>2, <1>5 DEF More
    <3>4. Goes(y, a, ins)
      BY <3>1, <3>2, <3>3, StepGoes
    <3> QED BY <3>2, <3>4
  <2> HIDE DEF T
  <2> QED BY <2>1, <2>2, SetInduction
<1>7. Goes(after[MaxSteps], a, ins)
  BY <1>1, <1>6
<1> QED BY <1>4, <1>7

(* Between insertions no pointer to a node replaced is left.               *)
LEMMA Through ==
  ASSUME DimsAssumption, NEW a \in Addresses, NEW ins \in [Addresses -> Nat],
         NEW st, Goes(st, a, ins), ~st.fault, st.d = 0
  PROVE  \E P : Settles(st.heap, P, [ins EXCEPT ![a] = @ + 1])
<1>1. PICK P : Going(st, P, a) /\ Settled(st, P, a) /\ Tallied(st, P, a, ins)
  BY DEF Goes
<1>2. PICK h, R, W : h = st.heap /\ R = st.replaced /\ W = Ahead(st, a)
  OBVIOUS
<1>3. Sound(h, P, R, W)
  BY <1>1, <1>2 DEF Going
<1>4. W = {}
  <2>1. 1 .. 0 = {}
    OBVIOUS
  <2>2. \A b, q : ~Comes(st, b, q)
    BY <2>1 DEF Comes
  <2> QED BY <2>2, <1>2 DEF Ahead
<1>5. ASSUME NEW x \in DOMAIN P PROVE Fits(P, {}, {}, h[x], P[x])
  <2>1. CASE P[x].node
    <3>1. NodeFits(P, R, W, h[x], P[x].tree, P[x].path)
      BY <2>1, <1>3, SpotOfNode
    <3>2. ASSUME NEW k \in DOMAIN h[x].kids
          PROVE  KidFits(P, {}, {}, h[x].kids[k], P[x].tree, Append(P[x].path, k))
      <4>1. KidFits(P, R, W, h[x].kids[k], P[x].tree, Append(P[x].path, k))
        BY <3>1 DEF NodeFits
      <4> QED BY <4>1, <1>4 DEF KidFits
    <3>3. NodeFits(P, {}, {}, h[x], P[x].tree, P[x].path)
      BY <3>1, <3>2 DEF NodeFits
    <3> QED BY <2>1, <3>3 DEF Fits
  <2>2. CASE ~P[x].node
    BY <2>2, <1>3, SpotOfNode DEF Fits
  <2> QED BY <2>1, <2>2
<1>6. Sound(h, P, {}, {})
  BY <1>3, <1>5 DEF Sound
<1>7. SharesBut(h, P, {})
  <2>1. 1 .. 0 = {}
    OBVIOUS
  <2>2. Due(st, a) = {}
    BY <2>1 DEF Due
  <2> QED BY <2>2, <1>1, <1>2 DEF Settled
<1>8. Counts(h, P, [ins EXCEPT ![a] = @ + 1])
  <2>1. PICK ins2 : ins2 = [ins EXCEPT ![a] = @ + 1]
    OBVIOUS
  <2>2. \A x \in Addresses : \A again : Total(ins, a, x, again) \in Nat /\ Total(ins, a, x, again) <= ins2[x]
    BY <2>1 DEF Total
  <2>3. ASSUME NEW y \in DOMAIN P, IsLeaf(P[y]), NEW x \in Addresses
        PROVE  h[y].bag[x] <= IF In(P[y].tree, x) THEN ins2[x] ELSE 0
    <3>1. PICK again : again = (y \in st.updated /\ P[y].tree \notin Coming(st))
      OBVIOUS
    <3>2. Bounded(h[y].bag, P[y].tree, ins, a, again)
      BY Zenon, <3>1, <2>3, <1>1, <1>2 DEF Tallied, Tally
    <3>3. PICK bag : bag = h[y].bag
      OBVIOUS
    <3>4. bag \in [Addresses -> Nat]
      BY <2>3, <3>3, <1>3, LeafBag
    <3>5. bag[x] <= IF In(P[y].tree, x) THEN Total(ins, a, x, again) ELSE 0
      BY <3>2, <3>3 DEF Bounded
    <3>6. Total(ins, a, x, again) \in Nat /\ Total(ins, a, x, again) <= ins2[x] /\ ins2[x] \in Nat
      BY <2>1, <2>2
    <3> QED BY <3>3, <3>4, <3>5, <3>6
  <2> QED BY <2>1, <2>3 DEF Counts
<1> QED BY <1>2, <1>6, <1>7, <1>8 DEF Settles

LEMMA AddSound ==
  ASSUME DimsAssumption, NEW a \in Addresses, NEW ins \in [Addresses -> Nat],
         NEW h, NEW P, Settles(h, P, ins),
         NEW st, st = Inserted(h, a), ~st.fault, st.d = 0
  PROVE  \E Q : Settles(st.heap, Q, [ins EXCEPT ![a] = @ + 1])
<1>1. Goes(st, a, ins)
  BY InsertedGoes
<1> QED BY <1>1, Through

-----------------------------------------------------------------------------
(* Deletion.                                                               *)
(* What is owned is there, and has one owner; the root has none.           *)
LEMMA OwnedIsThere ==
  ASSUME NEW h, NEW P, NEW R, NEW W, Sound(h, P, R, W), NEW y \in DOMAIN P
  PROVE  Owned(h[y]) \subseteq DOMAIN P
<1> SUFFICES ASSUME NEW x \in Owned(h[y]) PROVE x \in DOMAIN P
  OBVIOUS
<1>1. CASE P[y].node
  <2>1. NodeFits(P, R, W, h[y], P[y].tree, P[y].path)
    BY <1>1, SpotOfNode
  <2>2. PICK o : o = h[y]
    OBVIOUS
  <2>3. Branches(o) /\ o.kind \in {"node", "flat"} /\ x \in Owned(o)
    BY <2>1, <2>2 DEF NodeFits
  <2>4. /\ x # Null
        /\ \/ o.self.c = x /\ o.self.proper
           \/ \E k \in DOMAIN o.kids : o.kids[k].c = x /\ o.kids[k].proper
    BY <2>3, OwnedByBranches
  <2>5. CASE o.self.c = x /\ o.self.proper
    <3>1. HolderFits(P, o.self, Append(P[y].tree, P[y].path))
      BY <2>1, <2>2 DEF NodeFits
    <3> QED BY <3>1, <2>4, <2>5 DEF HolderFits, NoContent, Holder
  <2>6. ASSUME NEW k \in DOMAIN o.kids, o.kids[k].c = x, o.kids[k].proper PROVE x \in DOMAIN P
    <3>1. KidFits(P, R, W, o.kids[k], P[y].tree, Append(P[y].path, k))
      BY <2>1, <2>2 DEF NodeFits
    <3> QED BY <3>1, <2>6 DEF KidFits, NodeRef
  <2> QED BY <2>4, <2>5, <2>6
<1>2. CASE ~P[y].node
  <2>0. PICK o : o = h[y]
    OBVIOUS
  <2>1. CASE QuadFits(P, h[y], P[y].tree)
    <3>1. o.kind = "quad" /\ (o.root # Null => o.root \in DOMAIN P)
      BY <2>0, <2>1 DEF QuadFits, NodeRef, Pointer
    <3>2. x = o.root /\ x # Null
      BY <2>0, <3>1, OwnedByTree
    <3> QED BY <3>1, <3>2
  <2>2. CASE FlatFits(P, h[y], P[y].tree)
    <3>1. Branches(o) /\ o.kind \in {"node", "flat"} /\ x \in Owned(o)
      BY <2>0, <2>2 DEF FlatFits
    <3>2. /\ x # Null
          /\ \/ o.self.c = x /\ o.self.proper
             \/ \E k \in DOMAIN o.kids : o.kids[k].c = x /\ o.kids[k].proper
      BY <3>1, OwnedByBranches
    <3>3. CASE o.self.c = x /\ o.self.proper
      <4>1. HolderFits(P, o.self, Append(P[y].tree, <<>>))
        BY <2>0, <2>2 DEF FlatFits
      <4> QED BY <4>1, <3>2, <3>3 DEF HolderFits, NoContent, Holder
    <3>4. ASSUME NEW k \in DOMAIN o.kids, o.kids[k].c = x, o.kids[k].proper PROVE x \in DOMAIN P
      <4>1. HolderFits(P, o.kids[k], Append(P[y].tree, <<k>>))
        BY <2>0, <2>2 DEF FlatFits
      <4> QED BY <4>1, <3>2, <3>4 DEF HolderFits, NoContent, Holder
    <3> QED BY <3>2, <3>3, <3>4
  <2>3. CASE LeafFits(h[y], P[y].tree)
    <3>1. o.kind = "leaf"
      BY <2>0, <2>3 DEF LeafFits
    <3>2. Owned(o) = {}
      BY <3>1, OwnedByLeaf
    <3> QED BY <3>2, <2>0
  <2> QED BY <1>2, <2>1, <2>2, <2>3, SpotOfNode
<1> QED BY <1>1, <1>2, SpotIs

LEMMA OneOwnerOf ==
  ASSUME NEW h, NEW P, NEW R, NEW W, Sound(h, P, R, W), Self \notin Names,
         NEW c \in DOMAIN P,
         NEW x \in DOMAIN P, c \in Owned(h[x]), NEW y \in DOMAIN P, c \in Owned(h[y])
  PROVE  x = y
<1>1. CASE P[c].node
  BY <1>1, OneOwnerOfNode
<1>2. CASE ~P[c].node
  <2>1. PICK e \in Names \cup {Self}, q \in Path :
          /\ EntryFits(h, P, Entry(x, e), P[x].tree, q) /\ P[c].tree = Append(P[x].tree, q)
    BY <1>2, OwnerOfContent
  <2>2. PICK f \in Names \cup {Self}, r \in Path :
          /\ EntryFits(h, P, Entry(y, f), P[y].tree, r) /\ P[c].tree = Append(P[y].tree, r)
    BY <1>2, OwnerOfContent
  <2>3. PICK b, d : b = P[x].tree /\ d = P[y].tree
    OBVIOUS
  <2>4. b \in Bin /\ d \in Bin /\ Append(b, q) = Append(d, r)
    BY <2>1, <2>2, <2>3, SpotIs
  <2>5. b = d /\ q = r
    BY <2>4, AppendSame DEF Bin
  <2>6. PICK u, v : u = Entry(x, e) /\ v = Entry(y, f)
    OBVIOUS
  <2>7. EntryFits(h, P, u, b, q) /\ EntryFits(h, P, v, b, q)
    BY <2>1, <2>2, <2>3, <2>5, <2>6
  <2>8. u.o = v.o
    BY <2>7, EntrySame
  <2> QED BY <2>6, <2>8 DEF Entry
<1> QED BY <1>1, <1>2, SpotIs

LEMMA RootUnowned ==
  ASSUME NEW h, NEW P, NEW R, NEW W, Sound(h, P, R, W), Self \notin Names, NEW y \in DOMAIN P
  PROVE  Root \notin Owned(h[y])
<1> SUFFICES ASSUME Root \in Owned(h[y]) PROVE FALSE
  OBVIOUS
<1>1. Root \in DOMAIN P /\ ~P[Root].node /\ P[Root].tree = <<>>
  BY DEF Sound, Of
<1>2. PICK q \in Path : P[Root].tree = Append(P[y].tree, q)
  BY <1>1, OwnerOfContent
<1>3. PICK b : b = P[y].tree
  OBVIOUS
<1>4. b \in Bin
  BY <1>3, SpotIs
<1>5. Append(b, q) # <<>>
  BY <1>4, AppendIs DEF Bin
<1> QED BY <1>1, <1>2, <1>3, <1>5

(* The objects left are those of h; what is to be deleted has no owner     *)
(* left, and all others have one.                                          *)
Deleting(h, st) ==
  /\ DOMAIN st = {"heap", "todo", "fault"} /\ st.fault = FALSE
  /\ DOMAIN st.heap \subseteq DOMAIN h
  /\ st.heap = h \/ st.heap = [x \in DOMAIN st.heap |-> h[x]]
  /\ st.todo \subseteq DOMAIN st.heap
  /\ \A y \in DOMAIN st.heap : Owned(h[y]) \subseteq DOMAIN st.heap \ st.todo
  /\ \A x \in DOMAIN st.heap \ st.todo : \E y \in DOMAIN st.heap : x \in Owned(h[y])
Left(h, st, n) ==
  st.todo = {} \/ Cardinality(DOMAIN st.heap) + n <= Cardinality(DOMAIN h)

LEMMA DeleteStepIs ==
  ASSUME NEW h, NEW P, NEW R, NEW W, Sound(h, P, R, W), Self \notin Names,
         NEW st, Deleting(h, st), NEW n \in Nat, Left(h, st, n),
         NEW st2, st2 = DeleteStep(st)
  PROVE  Deleting(h, st2) /\ Left(h, st2, n + 1)
<1>1. CASE st.todo = {}
  <2>1. st2 = st
    BY <1>1 DEF DeleteStep
  <2> QED BY <2>1, <1>1 DEF Left
<1>2. CASE st.todo # {}
  <2>0. PICK D, todo, i, i1 :
          D = DOMAIN st.heap /\ todo = st.todo /\ i1 = (CHOOSE x \in st.todo : TRUE) /\ i = i1
    OBVIOUS
  <2>1. i \in todo
    BY <2>0, <1>2
  <2>2. /\ D \subseteq DOMAIN h /\ (\A x \in D : st.heap[x] = h[x]) /\ todo \subseteq D
        /\ \A y \in D : Owned(h[y]) \subseteq D \ todo
        /\ \A x \in D \ todo : \E y \in D : x \in Owned(h[y])
        /\ st.fault = FALSE /\ DOMAIN st = {"heap", "todo", "fault"}
        /\ DOMAIN h = DOMAIN P /\ IsFiniteSet(DOMAIN P)
    BY <2>0 DEF Deleting, Sound
  <2>3. i \in D /\ st.heap[i] = h[i] /\ i \in DOMAIN P
    BY <2>1, <2>2
  <2>4. st2 = [st EXCEPT !.heap = Free(@, i), !.todo = (@ \ {i}) \cup Owned(st.heap[i])]
    <3>1. st.todo # {} /\ ~st.fault /\ ~(i \notin DOMAIN st.heap) /\ i = (CHOOSE x \in st.todo : TRUE)
      BY <2>0, <2>2, <2>3, <1>2
    <3> QED BY <3>1 DEF DeleteStep
  <2>5. PICK E, T : E = D \ {i} /\ T = (todo \ {i}) \cup Owned(h[i])
    OBVIOUS
  <2>6. /\ DOMAIN st2 = {"heap", "todo", "fault"} /\ st2.fault = FALSE
        /\ st2.todo = T /\ st2.heap = [x \in E |-> st.heap[x]]
    BY <2>0, <2>2, <2>3, <2>4, <2>5 DEF Free
  <2>7. st2.heap = [x \in E |-> h[x]] /\ DOMAIN st2.heap = E /\ E \subseteq DOMAIN h
    BY <2>2, <2>5, <2>6
  <2>8. ASSUME NEW y \in E, NEW x \in Owned(h[y]) PROVE x \in E \ T
    <3>1. x \in D \ todo /\ y \in D /\ y # i /\ x \in DOMAIN P /\ y \in DOMAIN P
      BY <2>2, <2>5, <2>8
    <3>2. x \notin Owned(h[i])
      BY <3>1, <2>3, <2>8, OneOwnerOf
    <3> QED BY <3>1, <3>2, <2>1, <2>5
  <2>9. T \subseteq E
    BY <2>1, <2>2, <2>3, <2>5
  <2>10. ASSUME NEW x \in E \ T PROVE \E y \in E : x \in Owned(h[y])
    <3>1. x \in D \ todo /\ x \notin Owned(h[i])
      BY <2>5, <2>10
    <3>2. PICK y \in D : x \in Owned(h[y])
      BY <3>1, <2>2
    <3> QED BY <3>1, <3>2, <2>5
  <2>11. Deleting(h, st2)
    BY <2>6, <2>7, <2>8, <2>9, <2>10 DEF Deleting
  <2>12. Left(h, st2, n + 1)
    <3>1. IsFiniteSet(D)
      BY <2>2, FS_Subset
    <3>2. Cardinality(E) = Cardinality(D) - 1 /\ Cardinality(D) \in Nat
      BY <3>1, <2>3, <2>5, FS_RemoveElement, FS_CardinalityType
    <3>3. Cardinality(D) + n <= Cardinality(DOMAIN h)
      BY <2>0, <1>2 DEF Left
    <3>4. Cardinality(E) + (n + 1) <= Cardinality(DOMAIN h)
      <4>1. Cardinality(E) + (n + 1) = Cardinality(D) + n
        BY <3>2
      <4> QED BY <4>1, <3>3
    <3> QED BY <3>4, <2>7 DEF Left
  <2> QED BY <2>11, <2>12
<1> QED BY <1>1, <1>2

LEMMA DeletedAll ==
  ASSUME NEW h, NEW P, NEW R, NEW W, Sound(h, P, R, W), Self \notin Names,
         NEW st, Deleting(h, st), Left(h, st, Cardinality(DOMAIN h) + 1)
  PROVE  st.heap = <<>> /\ st.fault = FALSE
<1>1. PICK D : D = DOMAIN st.heap
  OBVIOUS
<1>2. DOMAIN h = DOMAIN P /\ IsFiniteSet(DOMAIN P) /\ D \subseteq DOMAIN P
  BY <1>1 DEF Deleting, Sound
<1>3. IsFiniteSet(D)
  BY <1>2, FS_Subset
<1>4. Cardinality(D) \in Nat /\ Cardinality(DOMAIN h) \in Nat
  BY <1>2, <1>3, FS_CardinalityType
<1>5. ~(Cardinality(D) + (Cardinality(DOMAIN h) + 1) <= Cardinality(DOMAIN h))
  BY <1>4
<1>6. st.todo = {}
  BY <1>1, <1>5 DEF Left
<1>7. \A x \in D : \E y \in D : x \in Owned(h[y])
  BY <1>1, <1>6 DEF Deleting
<1>8. D = {}
  BY <1>2, <1>7, NoOrphans
<1>9. st.heap # h
  BY <1>1, <1>2, <1>8 DEF Sound
<1>10. st.heap = [x \in D |-> h[x]] /\ st.fault = FALSE
  BY <1>1, <1>9 DEF Deleting
<1> QED BY <1>8, <1>10

LEMMA DeletedIs ==
  ASSUME NEW h, NEW P, NEW R, NEW W, Sound(h, P, R, W), Self \notin Names,
         NEW st, st = Deleted(h, Root)
  PROVE  st.heap = <<>> /\ st.fault = FALSE
<1> DEFINE N == Cardinality(DOMAIN h) + 1
           First == [heap |-> h, todo |-> {Root}, fault |-> FALSE]
           More(st0) == DeleteStep(st0)
           Step(g, n) == IF n = 0 THEN First ELSE More(g[n - 1])
           S == {m \in Nat : \E g : g = [n \in 0 .. m |-> Step(g, n)]}
<1>1. N \in Nat /\ Cardinality(DOMAIN h) \in Nat
  <2>1. IsFiniteSet(DOMAIN h)
    BY DEF Sound
  <2> QED BY <2>1, FS_CardinalityType
<1> HIDE DEF First, More
<1>2. Nat \subseteq S
  <2>1. 0 \in S
    <3>1. [n \in 0 .. 0 |-> First] = [n \in 0 .. 0 |-> Step([k \in 0 .. 0 |-> First], n)]
      OBVIOUS
    <3> QED BY <3>1
  <2>2. ASSUME NEW m \in Nat, m \in S PROVE m + 1 \in S
    <3>1. PICK g : g = [n \in 0 .. m |-> Step(g, n)]
      BY <2>2
    <3> DEFINE f == [n \in 0 .. m + 1 |-> IF n = m + 1 THEN More(g[m]) ELSE g[n]]
    <3>2. ASSUME NEW n \in 0 .. m + 1 PROVE f[n] = Step(f, n)
      <4>1. CASE n = 0
        <5>1. f[n] = g[0] /\ g[0] = First
          BY <4>1, <3>1
        <5> QED BY <4>1, <5>1
      <4>2. CASE n \in 1 .. m
        <5>1. f[n] = g[n] /\ f[n - 1] = g[n - 1] /\ n \in 0 .. m
          BY <4>2
        <5>2. g[n] = More(g[n - 1])
          BY <4>2, <5>1, <3>1
        <5> QED BY <4>2, <5>1, <5>2
      <4>3. CASE n = m + 1
        <5>1. f[n] = More(g[m]) /\ f[n - 1] = g[m]
          BY <4>3
        <5> QED BY <4>3, <5>1
      <4> QED BY <4>1, <4>2, <4>3
    <3>3. f = [n \in 0 .. m + 1 |-> Step(f, n)]
      BY <3>2
    <3> HIDE DEF f
    <3>4. \E g2 : g2 = [n \in 0 .. m + 1 |-> Step(g2, n)]
      BY <3>3, Zenon
    <3>5. m + 1 \in Nat
      OBVIOUS
    <3> QED BY <3>4, <3>5, Zenon
  <2> HIDE DEF S
  <2> QED BY <2>1, <2>2, SetInduction
<1> DEFINE after == CHOOSE g : g = [n \in 0 .. N |-> Step(g, n)]
<1>3. after = [n \in 0 .. N |-> Step(after, n)]
  BY <1>1, <1>2
<1>4. Deleted(h, Root) = after[N]
  BY Zenon DEF Deleted, First, More
<1> HIDE DEF after, N
<1>5. after[0] = First /\ \A n \in 1 .. N : after[n] = More(after[n - 1])
  <2>1. \A n \in 0 .. N : after[n] = Step(after, n)
    BY <1>3, Zenon
  <2>2. 0 \in 0 .. N /\ \A n \in 1 .. N : n \in 0 .. N /\ n # 0
    BY <1>1
  <2> QED BY <2>1, <2>2
<1> DEFINE T == {n \in Nat : n <= N => Deleting(h, after[n]) /\ Left(h, after[n], n)}
<1>6. Nat \subseteq T
  <2>1. 0 \in T
    <3>1. /\ DOMAIN First = {"heap", "todo", "fault"} /\ First.fault = FALSE
          /\ First.heap = h /\ First.todo = {Root}
      BY DEF First
    <3>2. Root \in DOMAIN h /\ DOMAIN h = DOMAIN P
      BY DEF Sound
    <3>3. \A y \in DOMAIN h : Owned(h[y]) \subseteq DOMAIN h \ {Root}
      BY <3>2, OwnedIsThere, RootUnowned
    <3>4. \A x \in DOMAIN h \ {Root} : \E y \in DOMAIN h : x \in Owned(h[y])
      BY <3>2 DEF Sound
    <3>5. Deleting(h, First)
      BY <3>1, <3>2, <3>3, <3>4 DEF Deleting
    <3>6. Left(h, First, 0)
      BY <3>1, <1>1 DEF Left
    <3> QED BY <3>5, <3>6, <1>5
  <2>2. ASSUME NEW n \in Nat, n \in T PROVE n + 1 \in T
    <3> SUFFICES ASSUME n + 1 <= N PROVE Deleting(h, after[n + 1]) /\ Left(h, after[n + 1], n + 1)
      OBVIOUS
    <3>1. Deleting(h, after[n]) /\ Left(h, after[n], n) /\ n + 1 \in 1 .. N /\ n + 1 - 1 = n
      BY <1>1, <2>2
    <3>2. PICK x, y : x = after[n] /\ y = after[n + 1]
      OBVIOUS
    <3>3. y = DeleteStep(x) /\ Deleting(h, x) /\ Left(h, x, n)
      BY <3>1, <3>2, <1>5 DEF More
    <3>4. Deleting(h, y) /\ Left(h, y, n + 1)
      BY <3>3, DeleteStepIs
    <3> QED BY <3>2, <3>4
  <2> HIDE DEF T
  <2> QED BY <2>1, <2>2, SetInduction
<1>7. Deleting(h, after[N]) /\ Left(h, after[N], N)
  BY <1>1, <1>6
<1>8. PICK x : x = after[N]
  OBVIOUS
<1>9. Deleting(h, x) /\ Left(h, x, Cardinality(DOMAIN h) + 1) /\ st = x
  BY <1>4, <1>7, <1>8 DEF N
<1> QED BY <1>9, DeletedAll

-----------------------------------------------------------------------------
(* The theorems.                                                           *)
Whole == \E P : Settles(heap, P, inserted)

(* Until an assert fails, the heap is whole, or the cube is gone.          *)
Owning ==
  /\ inserted \in [Addresses -> Nat] /\ fault \in BOOLEAN
  /\ ~fault => Whole \/ heap = <<>>

LEMMA InitWhole ==
  ASSUME DimsAssumption, Init
  PROVE  Whole
<1>1. PICK P, object : P = [i \in {Root} |-> Of(<<>>)] /\ object = NewContent(1)
  OBVIOUS
<1>2. heap = [i \in {Root} |-> object]
  BY <1>1 DEF Init
<1>3. <<>> \in Bin /\ Len(<<>>) + 1 = 1 /\ 1 \in Dims /\ Kind[1] \in {"flat", "quad"}
  BY DimsAre DEF Bin
<1>4. Of(<<>>) \in Spots /\ ~Of(<<>>).node /\ Of(<<>>).tree = <<>>
  BY <1>3, OfIs
<1>5. QuadFits(P, object, <<>>) \/ FlatFits(P, object, <<>>)
  <2>1. CASE Kind[1] = "quad"
    <3>1. object = QuadTree
      BY <2>1, <1>1, <1>3 DEF NewContent
    <3> QED BY <3>1, <2>1, <1>3 DEF QuadTree, QuadFits, Null
  <2>2. CASE Kind[1] = "flat"
    <3>1. object = FlatTree
      BY <2>2, <1>1, <1>3 DEF NewContent
    <3>2. HolderFits(P, NoContent, Append(<<>>, <<>>))
      <4>1. NoContent \in [c : Nat, proper : BOOLEAN]
        BY DEF NoContent, Holder, Null
      <4> QED BY <4>1 DEF HolderFits
    <3>3. ~NoContent.proper
      BY DEF NoContent, Holder
    <3> QED BY <3>1, <3>2, <3>3, <2>2, <1>3, EmptyBranches DEF FlatFits
  <2> QED BY <2>1, <2>2, <1>3
<1>6. Fits(P, {}, {}, object, Of(<<>>))
  BY <1>4, <1>5 DEF Fits
<1>7. IsFiniteSet({Root}) /\ Root \in Nat \ {Null}
  BY FS_Singleton DEF Root, Null
<1>8. Sound(heap, P, {}, {})
  BY <1>1, <1>2, <1>4, <1>6, <1>7 DEF Sound
<1>9. SharesBut(heap, P, {})
  <2>1. object = FlatTree \/ object = QuadTree
    BY <1>1, <1>3 DEF NewContent
  <2>2. object.kind # "node" /\ (object.kind = "flat" => DOMAIN object.kids = {})
    BY <2>1 DEF FlatTree, QuadTree
  <2>3. \A x \in DOMAIN P : heap[x] = object
    BY <1>1, <1>2
  <2> QED BY <2>2, <2>3 DEF SharesBut, Shares
<1>10. Counts(heap, P, inserted)
  <2>1. \A y \in DOMAIN P : P[y].tree = <<>>
    BY <1>1, <1>4
  <2>2. Len(<<>>) # Len(Kind)
    BY DEF DimsAssumption
  <2> QED BY <2>1, <2>2 DEF Counts, IsLeaf
<1> QED BY <1>8, <1>9, <1>10 DEF Whole, Settles

(* A cube that is whole is destroyed with all it has.                      *)
LEMMA DestroyedIs ==
  ASSUME DimsAssumption, Owning, Destroy
  PROVE  heap' = <<>> /\ fault' = FALSE /\ inserted' = inserted
<1>1. ~fault /\ Root \in DOMAIN heap
  BY DEF Destroy
<1>2. heap # <<>>
  <2>1. DOMAIN <<>> = {}
    OBVIOUS
  <2> QED BY <2>1, <1>1
<1>3. PICK P : Sound(heap, P, {}, {})
  BY <1>1, <1>2 DEF Owning, Whole, Settles
<1>4. PICK st : st = Deleted(heap, Root)
  OBVIOUS
<1>5. st.heap = <<>> /\ st.fault = FALSE
  <2>1. Self \notin Names
    BY NoNameIsSelf
  <2> QED BY <2>1, <1>3, <1>4, DeletedIs
<1> QED BY <1>4, <1>5 DEF Destroy

LEMMA AddedIs ==
  ASSUME DimsAssumption, Owning, NEW a \in Addresses, Add(a)
  PROVE  Owning'
<1>1. ~fault /\ Root \in DOMAIN heap
  BY Zenon DEF Add
<1>2. heap # <<>>
  <2>1. DOMAIN <<>> = {}
    OBVIOUS
  <2> QED BY <2>1, <1>1
<1>3. PICK P : Settles(heap, P, inserted)
  BY <1>1, <1>2 DEF Owning, Whole
<1>4. PICK st : st = Inserted(heap, a)
  OBVIOUS
<1>5. heap' = st.heap /\ fault' = (st.fault \/ st.d # 0) /\ inserted' = [inserted EXCEPT ![a] = @ + 1]
  BY Zenon, <1>4 DEF Add
<1>6. inserted' \in [Addresses -> Nat]
  BY <1>5 DEF Owning
<1>7. fault' \in BOOLEAN
  BY <1>5
<1>8. ASSUME ~fault' PROVE Whole'
  <2>1. ~st.fault /\ st.d = 0
    BY <1>5, <1>8
  <2>2. inserted \in [Addresses -> Nat]
    BY DEF Owning
  <2>3. PICK Q : Settles(st.heap, Q, [inserted EXCEPT ![a] = @ + 1])
    BY <2>1, <2>2, <1>3, <1>4, AddSound
  <2>4. Settles(heap', Q, inserted')
    BY Zenon, <2>3, <1>5
  <2>5. Settles(heap, Q, inserted)'
    BY <2>4 DEF Settles, Sound, SharesBut, Shares, KidContent, Counts
  <2> QED BY <2>5 DEF Whole
<1> QED BY <1>6, <1>7, <1>8 DEF Owning

LEMMA OwningAlways ==
  ASSUME DimsAssumption
  PROVE  Spec => []Owning
<1>1. Init => Owning
  <2> SUFFICES ASSUME Init PROVE Owning
    OBVIOUS
  <2>1. Whole
    BY InitWhole
  <2> QED BY <2>1 DEF Init, Owning
<1>2. Owning /\ [Next]_vars => Owning'
  <2> SUFFICES ASSUME Owning, [Next]_vars PROVE Owning'
    OBVIOUS
  <2>1. CASE \E a \in Addresses : Add(a)
    BY <2>1, AddedIs
  <2>2. CASE Destroy
    <3>1. heap' = <<>> /\ fault' = FALSE /\ inserted' = inserted
      BY <2>2, DestroyedIs
    <3> QED BY <3>1 DEF Owning
  <2>3. CASE UNCHANGED vars
    BY <2>3 DEF vars, Owning, Whole
  <2> QED BY <2>1, <2>2, <2>3 DEF Next
<1> QED BY <1>1, <1>2, PTL DEF Spec

LEMMA WholeOneOwner ==
  ASSUME DimsAssumption, Whole
  PROVE  OneOwner
<1>1. PICK P : Sound(heap, P, {}, {})
  BY DEF Whole, Settles
<1>2. DOMAIN heap = DOMAIN P /\ Self \notin Names
  BY <1>1, NoNameIsSelf DEF Sound
<1>3. \A i \in DOMAIN heap : Owned(heap[i]) \subseteq DOMAIN heap \ {Root}
  BY <1>1, <1>2, OwnedIsThere, RootUnowned
<1>4. ASSUME NEW i \in DOMAIN heap, NEW j \in DOMAIN heap, i # j
      PROVE  Owned(heap[i]) \cap Owned(heap[j]) = {}
  <2> SUFFICES ASSUME NEW x \in Owned(heap[i]), x \in Owned(heap[j]) PROVE FALSE
    OBVIOUS
  <2>1. x \in DOMAIN P
    BY <1>2, <1>3
  <2> QED BY <2>1, <1>1, <1>2, <1>4, OneOwnerOf
<1>5. UNION { Owned(heap[i]) : i \in DOMAIN heap } = DOMAIN heap \ {Root}
  <2>1. \A x \in DOMAIN heap \ {Root} : \E y \in DOMAIN heap : x \in Owned(heap[y])
    BY <1>1, <1>2 DEF Sound
  <2> QED BY <2>1, <1>3
<1> QED BY <1>4, <1>5 DEF OneOwner

LEMMA KindOfSpot ==
  ASSUME NEW h, NEW P, NEW R, NEW W, Sound(h, P, R, W), NEW x \in DOMAIN P
  PROVE  h[x].kind = "node" <=> P[x].node
<1>1. CASE P[x].node
  BY <1>1, SpotOfNode DEF NodeFits
<1>2. CASE ~P[x].node
  BY <1>2, KindOfContent
<1> QED BY <1>1, <1>2, SpotIs

(* Where a node refers to, and where a content does.                       *)
LEMMA BranchesPointees ==
  ASSUME NEW object, object.kind \in {"node", "flat"}, NEW n \in Pointees(object)
  PROVE  /\ n # Null
         /\ n = object.self.c \/ \E k \in DOMAIN object.kids : n = object.kids[k].c
BY DEF Pointees, Holders

LEMMA HolderPoints ==
  ASSUME NEW P, NEW r, NEW b, HolderFits(P, r, b), r.c # Null
  PROVE  r.c \in DOMAIN P /\ ~P[r.c].node
BY DEF HolderFits, NoContent, Holder

LEMMA WholePointers ==
  ASSUME DimsAssumption, Whole
  PROVE  NoDanglingPointer
<1>1. PICK P : Sound(heap, P, {}, {})
  BY DEF Whole, Settles
<1>2. DOMAIN heap = DOMAIN P
  BY <1>1 DEF Sound
<1> SUFFICES ASSUME NEW i \in DOMAIN heap
             PROVE  LET object == heap[i]
                        nodes  == IF object.kind = "quad" THEN {object.root} \ {Null}
                                  ELSE IF object.kind = "node"
                                  THEN { object.kids[k].c : k \in DOMAIN object.kids } ELSE {}
                    IN  \A n \in Pointees(object) :
                          n \in DOMAIN heap /\ (heap[n].kind = "node" <=> n \in nodes)
  BY DEF NoDanglingPointer
<1>3. PICK o, b : o = heap[i] /\ b = P[i].tree
  OBVIOUS
<1>4. CASE P[i].node
  <2>1. NodeFits(P, {}, {}, o, b, P[i].path)
    BY <1>1, <1>2, <1>3, <1>4, SpotOfNode
  <2>2. o.kind = "node" /\ "node" # "quad"
    BY <2>1 DEF NodeFits
  <2>3. \A k \in DOMAIN o.kids : o.kids[k].c \in DOMAIN P /\ P[o.kids[k].c].node
    BY <2>1 DEF NodeFits, KidFits, NodeRef
  <2>4. o.self.c # Null => o.self.c \in DOMAIN P /\ ~P[o.self.c].node
    <3>1. HolderFits(P, o.self, Append(b, P[i].path))
      BY <2>1 DEF NodeFits
    <3> QED BY <3>1, HolderPoints
  <2>5. ASSUME NEW n \in Pointees(o)
        PROVE  /\ n \in DOMAIN P
               /\ P[n].node <=> n \in { o.kids[k].c : k \in DOMAIN o.kids }
    <3>1. n # Null /\ (n = o.self.c \/ \E k \in DOMAIN o.kids : n = o.kids[k].c)
      BY <2>2, BranchesPointees
    <3> QED BY <3>1, <2>3, <2>4
  <2>6. \A n \in DOMAIN P : heap[n].kind = "node" <=> P[n].node
    BY <1>1, KindOfSpot
  <2> QED BY <2>2, <2>5, <2>6, <1>2, <1>3
<1>5. CASE ~P[i].node /\ QuadFits(P, o, b)
  <2>1. o.kind = "quad" /\ (o.root # Null => o.root \in DOMAIN P /\ P[o.root].node)
    BY <1>5 DEF QuadFits, NodeRef, Pointer
  <2>2. Pointees(o) = {o.root} \ {Null}
    BY <2>1 DEF Pointees, Holders, Pointer
  <2>3. \A n \in DOMAIN P : heap[n].kind = "node" <=> P[n].node
    BY <1>1, KindOfSpot
  <2> QED BY <2>1, <2>2, <2>3, <1>2, <1>3
<1>6. CASE ~P[i].node /\ FlatFits(P, o, b)
  <2>1. o.kind = "flat" /\ "flat" # "quad" /\ "flat" # "node"
    BY <1>6 DEF FlatFits
  <2>2. \A k \in DOMAIN o.kids :
          o.kids[k].c # Null => o.kids[k].c \in DOMAIN P /\ ~P[o.kids[k].c].node
    <3>1. \A k \in DOMAIN o.kids : HolderFits(P, o.kids[k], Append(b, <<k>>))
      BY Zenon, <1>6 DEF FlatFits
    <3> QED BY <3>1, HolderPoints
  <2>3. o.self.c # Null => o.self.c \in DOMAIN P /\ ~P[o.self.c].node
    <3>1. HolderFits(P, o.self, Append(b, <<>>))
      BY <1>6 DEF FlatFits
    <3> QED BY <3>1, HolderPoints
  <2>4. ASSUME NEW n \in Pointees(o) PROVE n \in DOMAIN P /\ ~P[n].node
    <3>1. n # Null /\ (n = o.self.c \/ \E k \in DOMAIN o.kids : n = o.kids[k].c)
      BY <2>1, BranchesPointees
    <3> QED BY <3>1, <2>2, <2>3
  <2>5. \A n \in DOMAIN P : heap[n].kind = "node" <=> P[n].node
    BY <1>1, KindOfSpot
  <2> QED BY <2>1, <2>4, <2>5, <1>2, <1>3
<1>7. CASE ~P[i].node /\ LeafFits(o, b)
  <2>1. o.kind = "leaf"
    BY <1>7 DEF LeafFits
  <2>2. Pointees(o) = {}
    BY <2>1 DEF Pointees, Holders
  <2> QED BY <2>2, <1>3
<1> QED BY <1>1, <1>2, <1>3, <1>4, <1>5, <1>6, <1>7, SpotOfNode

LEMMA HolderTyped ==
  ASSUME NEW P, NEW r, NEW b, HolderFits(P, r, b)
  PROVE  r.c \in Nat /\ r.proper \in BOOLEAN
BY DEF HolderFits

LEMMA BranchesTyped ==
  ASSUME NEW object, Branches(object), object.kind \in {"flat", "node"},
         object.self.c \in Nat /\ object.self.proper \in BOOLEAN
  PROVE  \A x \in Holders(object) : x.c \in Nat /\ x.proper \in BOOLEAN
<1>1. \A k \in DOMAIN object.kids : object.kids[k] \in [c : Nat, proper : BOOLEAN]
  BY DEF Branches
<1>2. \A k \in DOMAIN object.kids : object.kids[k].c \in Nat /\ object.kids[k].proper \in BOOLEAN
  BY <1>1
<1>3. Holders(object) = {object.self} \cup { object.kids[k] : k \in DOMAIN object.kids }
  BY DEF Holders
<1> QED BY <1>2, <1>3

(* What an object of the heap is, by its kind.                             *)
Typed(object) ==
  CASE object.kind = "leaf" -> object.bag \in [Addresses -> Nat]
    [] object.kind = "quad" -> object.root \in Nat
    [] object.kind \in {"flat", "node"} ->
         \A x \in Holders(object) : x.c \in Nat /\ x.proper \in BOOLEAN

LEMMA FitsTyped ==
  ASSUME NEW P, NEW R, NEW W, NEW object, NEW spot, Fits(P, R, W, object, spot)
  PROVE  Typed(object)
<1>1. CASE NodeFits(P, R, W, object, spot.tree, spot.path)
  <2>1. object.kind = "node" /\ Branches(object)
    BY <1>1 DEF NodeFits
  <2>2. HolderFits(P, object.self, Append(spot.tree, spot.path))
    BY <1>1 DEF NodeFits
  <2>3. object.self.c \in Nat /\ object.self.proper \in BOOLEAN
    BY <2>2, HolderTyped
  <2>4. \A x \in Holders(object) : x.c \in Nat /\ x.proper \in BOOLEAN
    BY <2>1, <2>3, BranchesTyped
  <2> QED BY <2>1, <2>4 DEF Typed
<1>2. CASE FlatFits(P, object, spot.tree)
  <2>1. object.kind = "flat" /\ Branches(object)
    BY <1>2 DEF FlatFits
  <2>2. HolderFits(P, object.self, Append(spot.tree, <<>>))
    BY <1>2 DEF FlatFits
  <2>3. object.self.c \in Nat /\ object.self.proper \in BOOLEAN
    BY <2>2, HolderTyped
  <2>4. \A x \in Holders(object) : x.c \in Nat /\ x.proper \in BOOLEAN
    BY <2>1, <2>3, BranchesTyped
  <2> QED BY <2>1, <2>4 DEF Typed
<1>3. CASE QuadFits(P, object, spot.tree)
  BY <1>3 DEF QuadFits, Typed
<1>4. CASE LeafFits(object, spot.tree)
  BY <1>4 DEF LeafFits, Typed
<1> QED BY <1>1, <1>2, <1>3, <1>4 DEF Fits

LEMMA WholeShares ==
  ASSUME Whole
  PROVE  OnlyChildShared
<1>1. PICK P : Sound(heap, P, {}, {}) /\ SharesBut(heap, P, {})
  BY DEF Whole, Settles
<1>2. \A i \in DOMAIN heap : Shares(heap, i)
  BY <1>1 DEF Sound, SharesBut
<1> QED BY <1>2 DEF Shares, KidContent, OnlyChildShared

LEMMA OwningTyped ==
  ASSUME Owning, ~fault
  PROVE  TypeOK
<1>1. CASE Whole
  <2>1. PICK P : Sound(heap, P, {}, {})
    BY <1>1 DEF Whole, Settles
  <2>2. \A i \in DOMAIN heap : Fits(P, {}, {}, heap[i], P[i])
    BY <2>1 DEF Sound
  <2>3. \A i \in DOMAIN heap : Typed(heap[i])
    BY <2>2, FitsTyped
  <2> QED BY <2>3 DEF Owning, TypeOK, Typed
<1>2. CASE heap = <<>>
  <2>1. DOMAIN heap = {}
    BY <1>2
  <2> QED BY <2>1 DEF Owning, TypeOK
<1> QED BY <1>1, <1>2 DEF Owning

(* While the cube is there, it is whole.                                   *)
LEMMA OwningAlive ==
  ASSUME Owning, ~fault
  PROVE  \/ Whole /\ Alive
         \/ heap = <<>> /\ ~Alive
<1>1. CASE Whole
  <2>1. PICK P : Sound(heap, P, {}, {})
    BY <1>1 DEF Whole, Settles
  <2> QED BY <2>1, <1>1 DEF Sound, Alive
<1>2. CASE heap = <<>>
  <2>1. DOMAIN heap = {}
    BY <1>2
  <2> QED BY <2>1, <1>2 DEF Alive
<1> QED BY <1>1, <1>2 DEF Owning

-----------------------------------------------------------------------------
(* Reading: what a query follows stays within its bin.                     *)
NodeFound(P, m, b, q) ==
  m # Null => m \in DOMAIN P /\ P[m].node /\ P[m].path = q /\ Within(P[m].tree, b)
ContentFound(P, c, b) ==
  c # Null => c \in DOMAIN P /\ ~P[c].node /\ Within(P[c].tree, b)

LEMMA ChildFound ==
  ASSUME NEW h, NEW P, Sound(h, P, {}, {}), NEW b \in Bin, NEW q \in Path, NEW k \in Names,
         NEW n, NodeFound(P, n, b, q), NEW m, m = Child(h, n, k)
  PROVE  NodeFound(P, m, b, Append(q, k))
<1>1. CASE n # Null /\ k \in DOMAIN h[n].kids
  <2>1. n \in DOMAIN P /\ P[n].node /\ P[n].path = q /\ Within(P[n].tree, b)
    BY <1>1 DEF NodeFound
  <2>2. PICK c, r : c = P[n].tree /\ r = h[n].kids[k]
    OBVIOUS
  <2>3. m = r.c
    BY <1>1, <2>2 DEF Child
  <2>4. KidFits(P, {}, {}, r, c, Append(q, k))
    <3>1. NodeFits(P, {}, {}, h[n], P[n].tree, P[n].path)
      BY <2>1, SpotOfNode
    <3> QED BY <3>1, <1>1, <2>1, <2>2 DEF NodeFits
  <2>5. m \in DOMAIN P /\ P[m].node /\ P[m].path = Append(q, k) /\ Within(P[m].tree, c)
    BY <2>3, <2>4 DEF KidFits, NodeRef
  <2>6. P[m].tree \in Bin /\ c \in Bin /\ Within(c, b)
    BY <2>1, <2>2, <2>5, SpotIs
  <2>7. Within(P[m].tree, b)
    BY <2>5, <2>6, WithinTransitive
  <2> QED BY <2>5, <2>7 DEF NodeFound
<1>2. CASE ~(n # Null /\ k \in DOMAIN h[n].kids)
  <2>1. m = Null
    BY <1>2 DEF Child
  <2> QED BY <2>1 DEF NodeFound
<1> QED BY <1>1, <1>2

LEMMA FoundNode ==
  ASSUME NEW h, NEW P, Sound(h, P, {}, {}), NEW b \in Bin, NEW p \in Path,
         NEW n, NodeFound(P, n, b, <<>>)
  PROVE  NodeFound(P, FindNode(h, n, p), b, p)
<1> DEFINE Step(g, i) == IF i = 0 THEN n ELSE Child(h, g[i - 1], p[i])
           S == {m \in Nat : \E g : g = [i \in 0 .. m |-> Step(g, i)]}
           T(g) == {i \in Nat : i <= Len(p) => NodeFound(P, g[i], b, Pre(p, i))}
<1>1. Len(p) \in Nat /\ \A i \in 1 .. Len(p) : p[i] \in Names
  BY DEF Path
<1>2. Nat \subseteq S
  <2>1. 0 \in S
    <3>1. [i \in 0 .. 0 |-> n] = [i \in 0 .. 0 |-> Step([j \in 0 .. 0 |-> n], i)]
      OBVIOUS
    <3> QED BY <3>1
  <2>2. ASSUME NEW m \in Nat, m \in S PROVE m + 1 \in S
    <3>1. PICK g : g = [i \in 0 .. m |-> Step(g, i)]
      BY <2>2
    <3> DEFINE f == [i \in 0 .. m + 1 |-> IF i = m + 1 THEN Child(h, g[m], p[m + 1]) ELSE g[i]]
    <3>2. ASSUME NEW i \in 0 .. m + 1 PROVE f[i] = Step(f, i)
      <4>1. CASE i = 0
        <5>1. f[i] = g[0] /\ g[0] = n
          BY <4>1, <3>1
        <5> QED BY <4>1, <5>1
      <4>2. CASE i \in 1 .. m
        <5>1. f[i] = g[i] /\ f[i - 1] = g[i - 1] /\ i \in 0 .. m
          BY <4>2
        <5>2. g[i] = Child(h, g[i - 1], p[i])
          BY <4>2, <5>1, <3>1
        <5> QED BY <4>2, <5>1, <5>2
      <4>3. CASE i = m + 1
        <5>1. f[i] = Child(h, g[m], p[i]) /\ f[i - 1] = g[m]
          BY <4>3
        <5> QED BY <4>3, <5>1
      <4> QED BY <4>1, <4>2, <4>3
    <3>3. f = [i \in 0 .. m + 1 |-> Step(f, i)]
      BY <3>2
    <3> HIDE DEF f
    <3>4. \E g2 : g2 = [i \in 0 .. m + 1 |-> Step(g2, i)]
      BY <3>3, Zenon
    <3>5. m + 1 \in Nat
      OBVIOUS
    <3> QED BY <3>4, <3>5, Zenon
  <2> HIDE DEF S
  <2> QED BY <2>1, <2>2, SetInduction
<1> DEFINE at == CHOOSE g : g = [i \in 0 .. Len(p) |-> Step(g, i)]
<1>3. at = [i \in 0 .. Len(p) |-> Step(at, i)]
  BY <1>1, <1>2
<1>4. FindNode(h, n, p) = at[Len(p)]
  BY DEF FindNode
<1> HIDE DEF at
<1>5. at[0] = n /\ \A i \in 1 .. Len(p) : at[i] = Child(h, at[i - 1], p[i])
  <2>1. \A i \in 0 .. Len(p) : at[i] = Step(at, i)
    BY <1>3, Zenon
  <2>2. 0 \in 0 .. Len(p) /\ \A i \in 1 .. Len(p) : i \in 0 .. Len(p) /\ i # 0
    BY <1>1
  <2> QED BY <2>1, <2>2
<1>6. Nat \subseteq T(at)
  <2>1. 0 \in T(at)
    <3>1. Pre(p, 0) = <<>>
      BY PreEnds DEF Path
    <3> QED BY <3>1, <1>5
  <2>2. ASSUME NEW i \in Nat, i \in T(at) PROVE i + 1 \in T(at)
    <3> SUFFICES ASSUME i + 1 <= Len(p) PROVE NodeFound(P, at[i + 1], b, Pre(p, i + 1))
      OBVIOUS
    <3>1. i + 1 \in 1 .. Len(p) /\ i \in 0 .. Len(p) /\ i \in 0 .. Len(p) - 1 /\ i + 1 - 1 = i
      BY <1>1
    <3>2. NodeFound(P, at[i], b, Pre(p, i))
      BY <2>2, <3>1
    <3>3. PICK q, k, x, y : q = Pre(p, i) /\ k = p[i + 1] /\ x = at[i] /\ y = at[i + 1]
      OBVIOUS
    <3>4. y = Child(h, x, k) /\ k \in Names
      BY <1>1, <1>5, <3>1, <3>3
    <3>5. q \in Path /\ Append(q, k) = Pre(p, i + 1)
      BY <3>1, <3>3, PreIs, PreGrows DEF Path
    <3>6. NodeFound(P, y, b, Append(q, k))
      BY <3>2, <3>3, <3>4, <3>5, ChildFound
    <3> QED BY <3>3, <3>5, <3>6
  <2> HIDE DEF T
  <2> QED BY <2>1, <2>2, SetInduction
<1>7. NodeFound(P, at[Len(p)], b, Pre(p, Len(p)))
  BY <1>1, <1>6
<1>8. Pre(p, Len(p)) = p
  BY PreEnds DEF Path
<1> QED BY <1>4, <1>7, <1>8

LEMMA HolderFound ==
  ASSUME NEW P, NEW r, NEW b, HolderFits(P, r, b)
  PROVE  ContentFound(P, r.c, b)
<1>1. CASE r = NoContent
  BY <1>1 DEF NoContent, Holder, ContentFound
<1>2. CASE r # NoContent
  BY <1>2 DEF HolderFits, ContentFound
<1> QED BY <1>1, <1>2

LEMMA FoundContent ==
  ASSUME DimsAssumption, NEW h, NEW P, Sound(h, P, {}, {}),
         NEW s \in DOMAIN P, ~P[s].node, NEW b, b = P[s].tree, Len(b) + 1 \in Dims,
         NEW p \in Path, Kind[Len(b) + 1] = "flat" => p = <<>> \/ p = <<p[1]>>
  PROVE  ContentFound(P, FindContent(h, s, p), Append(b, p))
<1>1. b \in Bin /\ Kind[Len(b) + 1] \in {"quad", "flat"}
  BY SpotIs, DimsAre
<1>2. CASE Kind[Len(b) + 1] = "flat"
  <2>1. FlatFits(P, h[s], b)
    <3>1. PICK d : d = Len(P[s].tree) + 1
      OBVIOUS
    <3>2. d \in Dims /\ Kind[d] = "flat"
      BY <3>1, <1>2
    <3> QED BY <3>1, <3>2, TreeOfKind
  <2>2. PICK o : o = h[s]
    OBVIOUS
  <2>3. o.kind = "flat" /\ HolderFits(P, o.self, Append(b, <<>>))
        /\ \A k \in DOMAIN o.kids : HolderFits(P, o.kids[k], Append(b, <<k>>))
    BY <2>1, <2>2 DEF FlatFits
  <2>4. CASE p = <<>>
    <3>1. FindContent(h, s, p) = o.self.c
      BY <2>2, <2>3, <2>4 DEF FindContent
    <3> QED BY <3>1, <2>3, <2>4, HolderFound
  <2>5. CASE p # <<>>
    <3>1. PICK k : k = p[1]
      OBVIOUS
    <3>2. p = <<k>>
      BY <1>2, <2>5, <3>1
    <3>3. FindContent(h, s, p) = Child(h, s, k)
      BY <2>2, <2>3, <2>5, <3>1 DEF FindContent
    <3>4. CASE s # Null /\ k \in DOMAIN o.kids
      <4>1. FindContent(h, s, p) = o.kids[k].c
        BY <3>3, <3>4, <2>2 DEF Child
      <4>2. HolderFits(P, o.kids[k], Append(b, p))
        BY <2>3, <3>2, <3>4
      <4> QED BY <4>1, <4>2, HolderFound
    <3>5. CASE ~(s # Null /\ k \in DOMAIN o.kids)
      <4>1. FindContent(h, s, p) = Null
        BY <3>3, <3>5, <2>2 DEF Child
      <4> QED BY <4>1 DEF ContentFound
    <3> QED BY <3>4, <3>5
  <2> QED BY <2>4, <2>5
<1>3. CASE Kind[Len(b) + 1] = "quad"
  <2>1. QuadFits(P, h[s], b)
    <3>1. PICK d : d = Len(P[s].tree) + 1
      OBVIOUS
    <3>2. d \in Dims /\ Kind[d] = "quad"
      BY <3>1, <1>3
    <3> QED BY <3>1, <3>2, TreeOfKind
  <2>2. PICK n, m : n = h[s].root /\ m = FindNode(h, n, p)
    OBVIOUS
  <2>3. NodeFound(P, n, b, <<>>)
    <3>1. CASE n = Null
      BY <3>1 DEF NodeFound
    <3>2. CASE n # Null
      <4>1. n \in DOMAIN P /\ P[n] = At(b, <<>>)
        BY <3>2, <1>1, <1>3, <2>2, RootOf
      <4>2. P[n].node /\ P[n].path = <<>> /\ P[n].tree = b
        BY <4>1 DEF At
      <4>3. Within(b, b)
        BY <1>1, WithinItself
      <4> QED BY <4>1, <4>2, <4>3 DEF NodeFound
    <3> QED BY <3>1, <3>2
  <2>4. NodeFound(P, m, b, p)
    BY <2>2, <2>3, <1>1, FoundNode
  <2>5. FindContent(h, s, p) = IF m = Null THEN Null ELSE h[m].self.c
    <3>1. h[s].kind = "quad"
      BY <2>1 DEF QuadFits
    <3> QED BY <3>1, <2>2 DEF FindContent
  <2>6. CASE m = Null
    BY <2>5, <2>6 DEF ContentFound
  <2>7. CASE m # Null
    <3>1. m \in DOMAIN P /\ P[m].node /\ P[m].path = p /\ Within(P[m].tree, b)
      BY <2>4, <2>7 DEF NodeFound
    <3>2. PICK c, r, y : c = P[m].tree /\ r = h[m].self /\ y = r.c
      OBVIOUS
    <3>3. HolderFits(P, r, Append(c, p)) /\ c \in Bin
      <4>1. NodeFits(P, {}, {}, h[m], P[m].tree, P[m].path)
        BY <3>1, SpotOfNode
      <4>2. P[m].tree \in Bin
        BY <3>1, SpotIs
      <4> QED BY <4>1, <4>2, <3>1, <3>2 DEF NodeFits
    <3>4. ContentFound(P, y, Append(c, p))
      BY <3>2, <3>3, HolderFound
    <3>5. CASE y = Null
      BY <3>5, <2>5, <2>7, <3>2 DEF ContentFound
    <3>6. CASE y # Null
      <4>1. y \in DOMAIN P /\ ~P[y].node /\ Within(P[y].tree, Append(c, p))
        BY <3>4, <3>6 DEF ContentFound
      <4>2. Within(Append(c, p), Append(b, p))
        <5>1. Starts(p, p)
          BY StartsItself DEF Path
        <5> QED BY <5>1, <1>1, <3>1, <3>2, <3>3, WithinAppend
      <4>3. P[y].tree \in Bin /\ Append(c, p) \in Bin /\ Append(b, p) \in Bin
        <5>1. P[y].tree \in Bin
          BY <4>1, SpotIs
        <5> QED BY <5>1, <1>1, <3>3, AppendIs DEF Bin
      <4>4. Within(P[y].tree, Append(b, p))
        BY <4>1, <4>2, <4>3, WithinTransitive
      <4> QED BY <4>1, <4>4, <2>5, <2>7, <3>2 DEF ContentFound
    <3> QED BY <3>5, <3>6
  <2> QED BY <2>6, <2>7
<1> QED BY <1>1, <1>2, <1>3

LEMMA SubSeqIs ==
  ASSUME NEW S, NEW p \in Seq(S), NEW n \in 0 .. Len(p)
  PROVE  SubSeq(p, 1, n) = Pre(p, n)
BY DEF Pre

(* A bin of a query.                                                       *)
LEMMA BinIs ==
  ASSUME DimsAssumption, NEW b \in Bins
  PROVE  /\ b \in Bin /\ Len(b) = Len(Kind)
         /\ \A d \in Dims : Kind[d] = "flat" => b[d] = <<>> \/ b[d] = <<b[d][1]>>
<1>1. Dims = 1 .. Len(Kind) /\ Len(Kind) \in Nat
  BY DimsAre
<1>2. ASSUME NEW d \in Dims
      PROVE  b[d] \in Path /\ (Kind[d] = "flat" => b[d] = <<>> \/ b[d] = <<b[d][1]>>)
  <2>1. b[d] \in BinPaths(d)
    BY DEF Bins
  <2>2. PICK p \in Paths[d] : b[d] \in Prefixes(p)
    BY <2>1 DEF BinPaths
  <2>3. PICK n \in 0 .. Len(p) : b[d] = SubSeq(p, 1, n)
    BY <2>2 DEF Prefixes
  <2>4. p \in Path /\ (Kind[d] = "flat" => Len(p) = 1)
    <3>1. p \in Seq({ p[j] : j \in DOMAIN p } \ {Self})
      BY DEF DimsAssumption
    <3>2. \A j \in DOMAIN p : p[j] \in Names
      BY DEF Names
    <3>3. Kind[d] = "flat" => Len(p) = 1
      BY DEF DimsAssumption
    <3> QED BY <3>1, <3>2, <3>3 DEF Path
  <2>5. PICK q : q = b[d]
    OBVIOUS
  <2>6. q \in Path /\ Len(q) = n
    BY <2>3, <2>4, <2>5, SubSeqIs, PreIs DEF Path
  <2>7. Kind[d] = "flat" => q = <<>> \/ q = <<q[1]>>
    <3>1. PICK m, l : m = Len(q) /\ l = Len(p)
      OBVIOUS
    <3>2. m \in Nat /\ l \in Nat /\ m <= l
      BY <2>4, <2>6, <3>1 DEF Path
    <3>3. CASE Len(p) = 1
      <4>1. m = 0 \/ m = 1
        BY <3>1, <3>2, <3>3
      <4> QED BY <2>6, <3>1, <4>1 DEF Path
    <3>4. CASE Len(p) # 1
      BY <2>4, <3>4
    <3> QED BY <3>3, <3>4
  <2> QED BY <2>5, <2>6, <2>7
<1>3. b \in [Dims -> Path]
  BY <1>2 DEF Bins
<1>4. b \in Bin /\ Len(b) = Len(Kind)
  BY <1>1, <1>3 DEF Bin
<1> QED BY <1>2, <1>4

LEMMA FoundLeaf ==
  ASSUME DimsAssumption, NEW h, NEW P, Sound(h, P, {}, {}), NEW b \in Bins
  PROVE  ContentFound(P, FindLeaf(h, Root, b), b)
<1> DEFINE More(x, d) == IF x = Null THEN Null ELSE FindContent(h, x, b[d])
           Step(g, d) == IF d = 0 THEN Root ELSE More(g[d - 1], d)
           S == {m \in Nat : \E g : g = [d \in 0 .. m |-> Step(g, d)]}
           T(g) == {d \in Nat : d <= Len(Kind) => ContentFound(P, g[d], Pre(b, d))}
<1>1. /\ Len(Kind) \in Nat /\ Dims = 1 .. Len(Kind) /\ {0} \cup Dims = 0 .. Len(Kind)
      /\ b \in Bin /\ Len(b) = Len(Kind)
  <2>1. Len(Kind) \in Nat /\ Dims = 1 .. Len(Kind)
    BY DimsAre
  <2> QED BY <2>1, BinIs
<1> HIDE DEF More
<1>2. Nat \subseteq S
  <2>1. 0 \in S
    <3>1. [d \in 0 .. 0 |-> Root] = [d \in 0 .. 0 |-> Step([j \in 0 .. 0 |-> Root], d)]
      OBVIOUS
    <3> QED BY <3>1
  <2>2. ASSUME NEW m \in Nat, m \in S PROVE m + 1 \in S
    <3>1. PICK g : g = [d \in 0 .. m |-> Step(g, d)]
      BY <2>2
    <3> DEFINE f == [d \in 0 .. m + 1 |-> IF d = m + 1 THEN More(g[m], m + 1) ELSE g[d]]
    <3>2. ASSUME NEW d \in 0 .. m + 1 PROVE f[d] = Step(f, d)
      <4>1. CASE d = 0
        <5>1. f[d] = g[0] /\ g[0] = Root
          BY <4>1, <3>1
        <5> QED BY <4>1, <5>1
      <4>2. CASE d \in 1 .. m
        <5>1. f[d] = g[d] /\ f[d - 1] = g[d - 1] /\ d \in 0 .. m
          BY <4>2
        <5>2. g[d] = More(g[d - 1], d)
          BY <4>2, <5>1, <3>1
        <5> QED BY <4>2, <5>1, <5>2
      <4>3. CASE d = m + 1
        <5>1. f[d] = More(g[m], d) /\ f[d - 1] = g[m]
          BY <4>3
        <5> QED BY <4>3, <5>1
      <4> QED BY <4>1, <4>2, <4>3
    <3>3. f = [d \in 0 .. m + 1 |-> Step(f, d)]
      BY <3>2
    <3> HIDE DEF f
    <3>4. \E g2 : g2 = [d \in 0 .. m + 1 |-> Step(g2, d)]
      BY <3>3, Zenon
    <3>5. m + 1 \in Nat
      OBVIOUS
    <3> QED BY <3>4, <3>5, Zenon
  <2> HIDE DEF S
  <2> QED BY <2>1, <2>2, SetInduction
<1> DEFINE in == CHOOSE g : g = [d \in {0} \cup Dims |-> Step(g, d)]
<1>3. in = [d \in 0 .. Len(Kind) |-> Step(in, d)]
  <2>1. \E g : g = [d \in {0} \cup Dims |-> Step(g, d)]
    BY <1>1, <1>2
  <2>2. in = [d \in {0} \cup Dims |-> Step(in, d)]
    BY <2>1, Zenon
  <2> QED BY <2>2, <1>1
<1>4. FindLeaf(h, Root, b) = in[Len(Kind)]
  BY DEF FindLeaf, More
<1> HIDE DEF in
<1>5. in[0] = Root /\ \A d \in 1 .. Len(Kind) : in[d] = More(in[d - 1], d)
  <2>1. \A d \in 0 .. Len(Kind) : in[d] = Step(in, d)
    BY <1>3, Zenon
  <2>2. 0 \in 0 .. Len(Kind) /\ \A d \in 1 .. Len(Kind) : d \in 0 .. Len(Kind) /\ d # 0
    BY <1>1
  <2> QED BY <2>1, <2>2
<1>6. Nat \subseteq T(in)
  <2>1. 0 \in T(in)
    <3>1. Pre(b, 0) = <<>>
      BY <1>1, PreEnds DEF Bin
    <3>2. Root \in DOMAIN P /\ P[Root] = Of(<<>>) /\ <<>> \in Bin
      BY DEF Sound, Bin
    <3>3. ~P[Root].node /\ P[Root].tree = <<>> /\ Within(<<>>, <<>>)
      BY <3>2, OfIs, WithinItself
    <3> QED BY <3>1, <3>2, <3>3, <1>5 DEF ContentFound
  <2>2. ASSUME NEW d \in Nat, d \in T(in) PROVE d + 1 \in T(in)
    <3> SUFFICES ASSUME d + 1 <= Len(Kind) PROVE ContentFound(P, in[d + 1], Pre(b, d + 1))
      OBVIOUS
    <3>1. /\ d + 1 \in 1 .. Len(Kind) /\ d + 1 \in Dims /\ d \in 0 .. Len(b)
          /\ d \in 0 .. Len(b) - 1 /\ d + 1 - 1 = d
      BY <1>1
    <3>2. PICK B, p, x, y : B = Pre(b, d) /\ p = b[d + 1] /\ x = in[d] /\ y = in[d + 1]
      OBVIOUS
    <3>3. y = IF x = Null THEN Null ELSE FindContent(h, x, p)
      BY <1>5, <3>1, <3>2 DEF More
    <3>4. ContentFound(P, x, B)
      BY <2>2, <3>1, <3>2, <1>1
    <3>5. B \in Bin /\ Len(B) = d /\ Append(B, p) = Pre(b, d + 1) /\ p \in Path
      <4>1. B \in Bin /\ Len(B) = d /\ Append(B, p) = Pre(b, d + 1)
        BY <1>1, <3>1, <3>2, PreIs, PreGrows DEF Bin
      <4> QED BY <4>1, <1>1, <3>1, <3>2 DEF Bin
    <3>6. CASE x = Null
      BY <3>2, <3>3, <3>6 DEF ContentFound
    <3>7. CASE x # Null
      <4>1. x \in DOMAIN P /\ ~P[x].node /\ Within(P[x].tree, B)
        BY <3>4, <3>7 DEF ContentFound
      <4>2. PICK c : c = P[x].tree
        OBVIOUS
      <4>3. c \in Bin /\ Len(c) + 1 = d + 1
        BY <4>1, <4>2, <3>5, SpotIs DEF Within
      <4>4. Kind[d + 1] = "flat" => p = <<>> \/ p = <<p[1]>>
        BY <3>1, <3>2, BinIs
      <4>5. ContentFound(P, FindContent(h, x, p), Append(c, p))
        <5>1. Len(c) + 1 \in Dims /\ (Kind[Len(c) + 1] = "flat" => p = <<>> \/ p = <<p[1]>>)
          BY <4>3, <4>4, <3>1
        <5> QED BY <5>1, <4>1, <4>2, <3>5, FoundContent
      <4>6. CASE y = Null
        BY <4>6, <3>2 DEF ContentFound
      <4>7. CASE y # Null
        <5>1. y \in DOMAIN P /\ ~P[y].node /\ Within(P[y].tree, Append(c, p))
          BY <4>5, <4>7, <3>3, <3>7 DEF ContentFound
        <5>2. Within(Append(c, p), Append(B, p))
          <6>1. Starts(p, p)
            BY <3>5, StartsItself DEF Path
          <6> QED BY <6>1, <4>1, <4>2, <4>3, <3>5, WithinAppend
        <5>3. P[y].tree \in Bin /\ Append(c, p) \in Bin /\ Append(B, p) \in Bin
          <6>1. P[y].tree \in Bin
            BY <5>1, SpotIs
          <6> QED BY <6>1, <4>3, <3>5, AppendIs DEF Bin
        <5>4. Within(P[y].tree, Append(B, p))
          BY <5>1, <5>2, <5>3, WithinTransitive
        <5> QED BY <5>1, <5>4, <3>2, <3>5 DEF ContentFound
      <4> QED BY <4>6, <4>7
    <3> QED BY <3>6, <3>7
  <2> HIDE DEF T
  <2> QED BY <2>1, <2>2, SetInduction
<1>7. ContentFound(P, in[Len(Kind)], Pre(b, Len(Kind)))
  BY <1>1, <1>6
<1>8. Pre(b, Len(Kind)) = b
  BY <1>1, PreEnds DEF Bin
<1> QED BY <1>4, <1>7, <1>8

(* For every bin no record is seen more often than it was inserted, and    *)
(* none of another bin.                                                    *)
NoOvercount ==
  Alive => \A b \in Bins : \A a \in Addresses :
    Answer(b)[a] <= IF Abstract!Covers(b, a) THEN inserted[a] ELSE 0

LEMMA InCovers ==
  ASSUME DimsAssumption, NEW b \in Bins, NEW a \in Addresses
  PROVE  In(b, a) <=> Abstract!Covers(b, a)
<1>1. b \in Bin /\ Len(b) = Len(Kind) /\ DOMAIN b = Dims /\ Dims = 1 .. Len(b)
  BY BinIs, DimsAre DEF Bins
<1>2. ASSUME NEW d \in Dims
      PROVE  Starts(b[d], a[d]) <=> Len(b[d]) <= Len(a[d]) /\ SubSeq(a[d], 1, Len(b[d])) = b[d]
  <2>1. PICK q, p : q = b[d] /\ p = a[d]
    OBVIOUS
  <2>2. q \in Path /\ p \in Path
    BY <1>1, <2>1, AddressIs DEF Bin
  <2>3. Len(q) <= Len(p) => SubSeq(p, 1, Len(q)) = Pre(p, Len(q))
    <3>1. Len(q) <= Len(p) => Len(q) \in 0 .. Len(p)
      BY <2>2 DEF Path
    <3> QED BY <3>1, <2>2, SubSeqIs DEF Path
  <2> QED BY <2>1, <2>3 DEF Starts
<1> QED BY <1>1, <1>2 DEF In, Abstract!Covers

LEMMA WholeCounts ==
  ASSUME DimsAssumption, Whole, inserted \in [Addresses -> Nat]
  PROVE  NoOvercount
<1>1. PICK P : Sound(heap, P, {}, {}) /\ Counts(heap, P, inserted)
  BY DEF Whole, Settles
<1> SUFFICES ASSUME NEW b \in Bins, NEW a \in Addresses
             PROVE  Answer(b)[a] <= IF Abstract!Covers(b, a) THEN inserted[a] ELSE 0
  BY DEF NoOvercount
<1>2. PICK y : y = FindLeaf(heap, Root, b)
  OBVIOUS
<1>3. ContentFound(P, y, b) /\ b \in Bin /\ Len(b) = Len(Kind)
  BY <1>1, <1>2, FoundLeaf, BinIs
<1>4. inserted[a] \in Nat
  OBVIOUS
<1>5. CASE y = Null
  <2>1. Answer(b)[a] = 0
    BY <1>2, <1>5 DEF Answer
  <2> QED BY <2>1, <1>4
<1>6. CASE y # Null
  <2>1. y \in DOMAIN P /\ ~P[y].node /\ Within(P[y].tree, b)
    BY <1>3, <1>6 DEF ContentFound
  <2>2. PICK c, bag : c = P[y].tree /\ bag = heap[y].bag
    OBVIOUS
  <2>3. IsLeaf(P[y])
    BY <2>1, <1>3 DEF Within, IsLeaf
  <2>4. c \in Bin /\ bag \in [Addresses -> Nat]
    BY <2>1, <2>2, <2>3, <1>1, LeafBag
  <2>5. \A x \in Addresses : bag[x] <= IF In(c, x) THEN inserted[x] ELSE 0
    BY <2>1, <2>2, <2>3, <1>1 DEF Counts
  <2>6. In(c, a) => In(b, a)
    BY <2>1, <2>2, <2>4, <1>3, InWithin
  <2>7. bag[a] <= IF In(b, a) THEN inserted[a] ELSE 0
    BY <2>4, <2>5, <2>6, <1>4
  <2>8. Answer(b)[a] = bag[a]
    BY <1>2, <1>6, <2>2 DEF Answer
  <2> QED BY <2>7, <2>8, InCovers
<1> QED BY <1>5, <1>6

-----------------------------------------------------------------------------
(* Until an assert of prepareProperOutdatedPath fails, every object of the *)
(* heap is a time series, a tree or a node with its fields in place: no    *)
(* count is negative and every link of a node is a content and its flag.   *)
THEOREM TypeCorrect ==
  ASSUME DimsAssumption
  PROVE  Spec => [](~fault => TypeOK)
<1>1. Spec => []Owning
  BY OwningAlways
<1>2. Owning => (~fault => TypeOK)
  BY OwningTyped
<1> QED BY <1>1, <1>2, PTL

(* Until an assert fails, no pointer refers to a node that AddChild has    *)
(* replaced and deleted, or to another kind of object in its place: the    *)
(* insertion that replaces a node finds and re-points all that share it.   *)
THEOREM PointersSafe ==
  ASSUME DimsAssumption
  PROVE  Spec => [](~fault => NoDanglingPointer)
<1>1. Spec => []Owning
  BY OwningAlways
<1>2. Owning => (~fault => NoDanglingPointer)
  <2> SUFFICES ASSUME Owning, ~fault PROVE NoDanglingPointer
    OBVIOUS
  <2>1. CASE Whole
    BY <2>1, WholePointers
  <2>2. CASE heap = <<>>
    <3>1. DOMAIN heap = {}
      BY <2>2
    <3> QED BY <3>1 DEF NoDanglingPointer
  <2> QED BY <2>1, <2>2 DEF Owning
<1> QED BY <1>1, <1>2, PTL

(* Until an assert fails, every node, tree and time series is owned by     *)
(* exactly one proper pointer, the root by none.                           *)
THEOREM OwnedOnce ==
  ASSUME DimsAssumption
  PROVE  Spec => [](~fault => OneOwner)
<1>1. Spec => []Owning
  BY OwningAlways
<1>2. Owning => (~fault => OneOwner)
  <2> SUFFICES ASSUME Owning, ~fault PROVE OneOwner
    OBVIOUS
  <2>1. CASE Whole
    BY <2>1, WholeOneOwner
  <2>2. CASE ~Alive
    BY <2>2 DEF OneOwner
  <2> QED BY <2>1, <2>2, OwningAlive
<1> QED BY <1>1, <1>2, PTL

(* Until an assert fails, a node or a time dimension with one child owns   *)
(* no summary of its own: it shares that of the child, whichever records   *)
(* came before, also where the child was copied or replaced on the way.    *)
THEOREM OnlyChildrenShared ==
  ASSUME DimsAssumption
  PROVE  Spec => [](~fault => OnlyChildShared)
<1>1. Spec => []Owning
  BY OwningAlways
<1>2. Owning => (~fault => OnlyChildShared)
  <2> SUFFICES ASSUME Owning, ~fault PROVE OnlyChildShared
    OBVIOUS
  <2>1. CASE Whole
    BY <2>1, WholeShares
  <2>2. CASE heap = <<>>
    <3>1. DOMAIN heap = {}
      BY <2>2
    <3> QED BY <3>1 DEF OnlyChildShared
  <2> QED BY <2>1, <2>2 DEF Owning
<1> QED BY <1>1, <1>2, PTL

(* Until an assert of prepareProperOutdatedPath fails, no bin of any level *)
(* of any dimension answers with a record more often than it was inserted, *)
(* or with one of another bin: sharing a summary, copying it and taking it *)
(* as updated never count a record twice.                                  *)
THEOREM NeverOvercounts ==
  ASSUME DimsAssumption
  PROVE  Spec => [](~fault => NoOvercount)
<1>1. Spec => []Owning
  BY OwningAlways
<1>2. Owning => (~fault => NoOvercount)
  <2> SUFFICES ASSUME Owning, ~fault PROVE NoOvercount
    OBVIOUS
  <2>1. CASE Whole
    BY <2>1, WholeCounts DEF Owning
  <2>2. CASE ~Alive
    BY <2>2 DEF NoOvercount
  <2> QED BY <2>1, <2>2, OwningAlive
<1> QED BY <1>1, <1>2, PTL

(* Once the cube is destroyed nothing of it is left.                       *)
THEOREM AllFreed ==
  ASSUME DimsAssumption
  PROVE  Spec => [](~fault => NothingLeaks)
<1>1. Spec => []Owning
  BY OwningAlways
<1>2. Owning => (~fault => NothingLeaks)
  BY OwningAlive DEF NothingLeaks
<1> QED BY <1>1, <1>2, PTL

(* The destructor of the cube frees every object, and none of them twice.  *)
THEOREM DestroyedCleanly ==
  ASSUME DimsAssumption
  PROVE  Spec => [][Destroy => heap' = <<>> /\ ~fault']_vars
<1>1. Spec => []Owning
  BY OwningAlways
<1>2. Owning /\ [Next]_vars => [Destroy => heap' = <<>> /\ ~fault']_vars
  <2>1. Owning /\ Destroy => heap' = <<>> /\ ~fault'
    <3> SUFFICES ASSUME Owning, Destroy PROVE heap' = <<>> /\ ~fault'
      OBVIOUS
    <3>1. heap' = <<>> /\ fault' = FALSE
      BY DestroyedIs
    <3> QED BY <3>1
  <2> QED BY <2>1
<1> QED BY <1>1, <1>2, PTL DEF Spec

=============================================================================
