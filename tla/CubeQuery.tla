----------------------------- MODULE CubeQuery ------------------------------
(***************************************************************************)
(* A query over a nanocube: in every dimension a target says which nodes   *)
(* of the tree are visited, and the contents of a visited node, a tree of  *)
(* the next dimension, is queried in turn, down to the time series.  What  *)
(* is found is added up in a result tree, along the labels of the nodes    *)
(* visited in the anchored dimensions; a builder goes up and down in it    *)
(* with the visits, and takes back the branches nothing was stored in.     *)
(*                                                                         *)
(* A query and an insertion exclude each other (module LeafServer).        *)
(*                                                                         *)
(* Abstracted: the stack of a visit is a set, as its order makes no        *)
(* difference to the answer; a label is the path of a node; a range is the *)
(* set of its tiles; a mask (or the polygon of a sequence of tiles) is the *)
(* set of the paths of its nodes.  The target of time is the root; windows *)
(* of time are in module TimeSeries.                                       *)
(***************************************************************************)
EXTENDS NanoCube

CONSTANT Queries   \* those that may be asked

(* In every dimension a target, and whether it is anchored, and that with  *)
(* hint "img" (labels relative to the base of a dive).  A target is of     *)
(* type "dive" (the nodes so deep below a base), "range" (tiles of one     *)
(* level), "sequence" (addresses, which may repeat) or "mask" (the leaves  *)
(* of a tree of nodes).                                                    *)
IsPrefix(p, q) == Len(p) <= Len(q) /\ SubSeq(q, 1, Len(p)) = p

QueriesAssumption ==
  \A q \in Queries : \A d \in Dims :
    LET t == q[d].target
    IN  /\ q[d].img => q[d].anchored /\ t.type = "dive"
        /\ t.type = "range" => t.tiles # {} /\ \A p, r \in t.tiles : Len(p) = Len(r)
        /\ t.type = "mask" => Kind[d] = "quad" /\ <<>> \in t.nodes
        /\ t.type = "mask" => \A p \in t.nodes : Prefixes(p) \subseteq t.nodes
        /\ t.type = "sequence" => Kind[d] = "flat" /\ Paths[d] # {}

VARIABLES
  query,    \* the query that is being answered
  frames,   \* the Query objects, the innermost first
  stack,    \* the items of the builder, the deepest first
  tree      \* the result: label path -> node; empty as long as it has no root

asked == <<query, frames, stack, tree>>

NoQuery == <<>>

Anchored == SelectSeq([d \in Dims |-> d], LAMBDA d : query[d].anchored)
Levels   == Len(Anchored)

-----------------------------------------------------------------------------
(* TreeStoreBuilder.  A node of the result tree is a leaf, the sum of what *)
(* was stored in it, or internal.  What the code throws is a fault.        *)

NoRecords == [a \in Addresses |-> 0]
Plus(f, g) == [a \in Addresses |-> f[a] + g[a]]

Internal == "internal"
NewNode(level) == IF level = Levels THEN NoRecords ELSE Internal

Item(path, deletable) == [path |-> path, deletable |-> deletable]

Spoil(b) == [b EXCEPT !.fault = TRUE]

(* getCurrentNode makes the root of the tree.                              *)
Current(b) ==
  IF b.stack # <<>> THEN b
  ELSE [b EXCEPT !.stack = << Item(<<>>, b.tree = <<>>) >>,
                 !.tree  = IF @ = <<>> THEN Put(@, <<>>, NewNode(0)) ELSE @]

Push(builder, label) ==
  LET b    == Current(builder)
      path == Append(Head(b.stack).path, label)
      new  == path \notin DOMAIN b.tree
  IN  IF Len(path) > Levels THEN Spoil(b)
      ELSE [b EXCEPT !.stack = << Item(path, new) >> \o @,
                     !.tree  = IF new THEN Put(@, path, NewNode(Len(path))) ELSE @]

(* Mutant: a branch stays, also if nothing was stored in it.               *)
Pop_Keeps(b) ==
  IF Len(b.stack) <= 1 THEN Spoil(b) ELSE [b EXCEPT !.stack = Tail(@)]

Pop(b) ==
  LET item == Head(b.stack)
      kept == { p \in DOMAIN b.tree : item.deletable => ~IsPrefix(item.path, p) }
  IN  IF Len(b.stack) <= 1 THEN Spoil(b)
      ELSE [b EXCEPT !.stack = Tail(@), !.tree = [p \in kept |-> @[p]]]

(* consolidateBranch: from the deepest item up to the first that is not    *)
(* deletable.                                                              *)
Consolidated(items) ==
  [i \in DOMAIN items |->
     IF \A j \in 1 .. i : items[j].deletable
     THEN [items[i] EXCEPT !.deletable = FALSE] ELSE items[i]]

Store(builder, bag) ==
  LET b    == Current(builder)
      path == Head(b.stack).path
  IN  IF Len(path) # Levels THEN Spoil(b)
      ELSE [b EXCEPT !.tree[path] = Plus(@, bag), !.stack = Consolidated(@)]

Builder == [stack |-> stack, tree |-> tree, fault |-> fault]
Build(b) == stack' = b.stack /\ tree' = b.tree /\ fault' = b.fault

-----------------------------------------------------------------------------
(* The visits.  A place is a node that was found, under its address; turn  *)
(* tells apart the addresses of a sequence.                                *)

Place(at, path) == [at |-> at, path |-> path, turn |-> 0]

NodesBelow(n, path) ==
  { Place(Entry(heap[n].kids[k].c, Self), Append(path, k)) :
      k \in DOMAIN heap[n].kids }

InFlat(s) ==
  {Place(Entry(s, Self), <<>>)} \cup
  { Place(Entry(s, k), <<k>>) : k \in DOMAIN heap[s].kids }

(* A flat tree is asked for each node by its label.                        *)
StartFlat(s, t) ==
  CASE t.type = "dive" ->
         { x \in InFlat(s) : /\ IsPrefix(t.base, x.path)
                             /\ Len(x.path) = Len(t.base) + t.depth }
    [] t.type = "range" -> { x \in InFlat(s) : x.path \in t.tiles }
    [] t.type = "sequence" ->
         { [x EXCEPT !.turn = i] :
             <<x, i>> \in { y \in InFlat(s) \X DOMAIN t.addresses :
                              y[1].path = t.addresses[y[2]] } }

(* A quadtree is searched from the base or from the root.                  *)
StartQuad(s, t) ==
  LET root == heap[s].root
      base == FindNode(heap, root, t.base)
  IN  IF t.type = "dive"
      THEN { Place(Entry(base, Self), t.base) : x \in {base} \ {Null} }
      ELSE { Place(Entry(root, Self), <<>>) : x \in {root} \ {Null} }

Frame(q, d, s) ==
  [d |-> d, pushed |-> FALSE,
   todo |-> LET t == q[d].target
            IN  IF Kind[d] = "flat" THEN StartFlat(s, t) ELSE StartQuad(s, t)]

Names == {"0", "1", "2", "3"}   \* the children a node of a quadtree may have

LevelOf(tiles) == Len(CHOOSE p \in tiles : TRUE)

(* getRangeRelation: the tiles of the level of the range that are in p.    *)
Within(p, level) == { p \o s : s \in [1 .. level - Len(p) -> Names] }
Contained(p, tiles) == Within(p, LevelOf(tiles)) \subseteq tiles
Disjoint(p, tiles)  == Within(p, LevelOf(tiles)) \cap tiles = {}

IsLeafOf(nodes, p) == \A k \in Names : Append(p, k) \notin nodes

IsTarget(d, p) ==
  LET t == query[d].target
  IN  \/ Kind[d] = "flat"
      \/ t.type = "dive" /\ Len(p) = Len(t.base) + t.depth
      \/ t.type = "range" /\ Contained(p, t.tiles)
      \/ t.type = "mask" /\ IsLeafOf(t.nodes, p)

(* The children of a node that is no target but may have some below it.    *)
Below(d, x) ==
  LET t == query[d].target
      children == NodesBelow(x.at.o, x.path)
  IN  CASE t.type = "dive"  -> children
        [] t.type = "range" -> { y \in children : ~Disjoint(x.path, t.tiles) }
        [] t.type = "mask"  -> { y \in children : y.path \in t.nodes }

Label(d, p) ==
  IF query[d].img THEN SubSeq(p, Len(query[d].target.base) + 1, Len(p)) ELSE p

-----------------------------------------------------------------------------
(* A query is asked.  In a cube without records the code follows null, in  *)
(* a mask to the root of the quadtree and in a flat tree to its content:   *)
(* these are not asked for then.                                           *)
Ask(q) ==
  /\ query = NoQuery /\ Root \in DOMAIN heap /\ ~fault
  /\ (q[1].target.type = "mask" \/ Kind[1] = "flat") =>
       \E a \in Addresses : inserted[a] > 0
  /\ query' = q
  /\ frames' = << Frame(q, 1, Root) >>
  /\ UNCHANGED <<heap, inserted, fault, stack, tree>>

Left(x) == [Head(frames) EXCEPT !.todo = @ \ {x}]

Descends(x) ==
  LET f == Head(frames)
  IN  /\ ~IsTarget(f.d, x.path)
      /\ frames' = << [Left(x) EXCEPT !.todo = @ \cup Below(f.d, x)] >> \o Tail(frames)
      /\ UNCHANGED <<vars, query, stack, tree>>

(* visit: in an anchored dimension the label of this node, instead of that *)
(* of the one visited before.                                              *)
VisitLabel(f, x) ==
  IF ~query[f.d].anchored THEN Builder
  ELSE Push(IF f.pushed THEN Pop(Builder) ELSE Builder, Label(f.d, x.path))

Visits(x) ==
  LET f == Head(frames)
      g == [Left(x) EXCEPT !.pushed = query[f.d].anchored]
      c == HolderOf(heap, x.at).c
      b == VisitLabel(f, x)
  IN  /\ IsTarget(f.d, x.path)
      /\ IF c = Null THEN Build(Spoil(b)) /\ UNCHANGED frames
         ELSE IF f.d + 1 \in Dims
         THEN /\ Build(b)
              /\ frames' = << Frame(query, f.d + 1, c), g >> \o Tail(frames)
         ELSE Build(Store(b, heap[c].bag)) /\ frames' = << g >> \o Tail(frames)
      /\ UNCHANGED <<heap, inserted, query>>

(* A Query object is through.                                              *)
Leave ==
  /\ frames # <<>> /\ Head(frames).todo = {} /\ ~fault
  /\ Build(IF Head(frames).pushed THEN Pop(Builder) ELSE Builder)
  /\ frames' = Tail(frames)
  /\ UNCHANGED <<heap, inserted, query>>

(* The result tree is written, and goes with its builder.                  *)
Respond ==
  /\ query # NoQuery /\ frames = <<>> /\ ~fault
  /\ query' = NoQuery /\ stack' = <<>> /\ tree' = <<>>
  /\ UNCHANGED <<vars, frames>>

QueryInit == Init /\ query = NoQuery /\ frames = <<>> /\ stack = <<>> /\ tree = <<>>

QueryNext ==
  \/ query = NoQuery /\ (\E a \in Addresses : Add(a)) /\ UNCHANGED asked
  \/ \E q \in Queries : Ask(q)
  \/ /\ frames # <<>> /\ ~fault
     /\ \E x \in Head(frames).todo : Descends(x) \/ Visits(x)
  \/ Leave
  \/ Respond

QuerySpec == QueryInit /\ [][QueryNext]_<<vars, asked>>

-----------------------------------------------------------------------------
(* Properties.                                                             *)

(* How often a target asks for the records of an address, and under which  *)
(* of its nodes.                                                           *)
Times(t, p) ==
  LET once(asks) == IF asks THEN 1 ELSE 0
  IN  CASE t.type = "dive" ->
             once(IsPrefix(t.base, p) /\ Len(p) >= Len(t.base) + t.depth)
        [] t.type = "range" -> once(\E r \in t.tiles : IsPrefix(r, p))
        [] t.type = "mask" ->
             once(\E r \in Prefixes(p) : r \in t.nodes /\ IsLeafOf(t.nodes, r))
        [] t.type = "sequence" ->
             Cardinality({ i \in DOMAIN t.addresses : t.addresses[i] = p })

NodeFor(t, p) ==
  CASE t.type = "dive" -> SubSeq(p, 1, Len(t.base) + t.depth)
    [] t.type = "range" ->
         CHOOSE r \in Prefixes(p) :
           /\ Contained(r, t.tiles)
           /\ \A u \in Prefixes(r) : Contained(u, t.tiles) => u = r
    [] t.type = "mask" ->
         CHOOSE r \in Prefixes(p) : r \in t.nodes /\ IsLeafOf(t.nodes, r)
    [] t.type = "sequence" -> p

RECURSIVE TimesIn(_, _)
TimesIn(a, d) ==
  IF d \notin Dims THEN 1 ELSE Times(query[d].target, a[d]) * TimesIn(a, d + 1)

AskedFor == { a \in Addresses : inserted[a] > 0 /\ TimesIn(a, 1) > 0 }

LabelsFor(a) ==
  [i \in 1 .. Levels |->
     LET d == Anchored[i] IN Label(d, NodeFor(query[d].target, a[d]))]

(* An answer counts every record of the targets once for every time it is  *)
(* asked for, under the labels of its nodes in the anchored dimensions,    *)
(* and no other; no label is without records.  It does so through contents *)
(* shared between nodes and dimensions, and visits in any order.           *)
QueriesExact ==
  (query # NoQuery /\ frames = <<>>) =>
    LET leaves == { LabelsFor(a) : a \in AskedFor }
    IN  /\ DOMAIN tree \ {<<>>} = UNION { Prefixes(p) : p \in leaves } \ {<<>>}
        /\ \A p \in leaves :
             tree[p] = [a \in Addresses |->
                          IF a \in AskedFor /\ LabelsFor(a) = p
                          THEN inserted[a] * TimesIn(a, 1) ELSE 0]
=============================================================================
