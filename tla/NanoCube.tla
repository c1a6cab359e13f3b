------------------------------ MODULE NanoCube ------------------------------
(***************************************************************************)
(* The in-memory nanocube: a tree per dimension, whose nodes hold the root *)
(* of a tree of the next dimension, down to time series.  Nodes and        *)
(* contents are SHARED wherever a summary would be equal to a finer one,   *)
(* and each sharing has to be found out of date and undone (or re-pointed) *)
(* by the insertion of the next record.                                    *)
(*                                                                         *)
(* The heap is explicit, so that what goes wrong with sharing can go wrong *)
(* here: a pointer to a node that was replaced and freed, a content with   *)
(* two owners or none, a shared summary that misses a record or gets it    *)
(* twice.  An address freed is the first one allocated again.              *)
(*                                                                         *)
(* Abstracted: a time series is the bag of the records added to it (module *)
(* TimeSeries refines that), a quadtree path is the sequence of its child  *)
(* names, and the array slots of a node are a function on child names.     *)
(***************************************************************************)
EXTENDS Integers, FiniteSets, Sequences

LOCAL INSTANCE Functions

CONSTANTS
  Kind,     \* Kind[d] \in {"quad", "flat"}: the tree of dimension d
  Paths,    \* Paths[d]: the finest addresses of dimension d, all as deep
  MaxAdds,  \* bound on the number of records inserted
  MaxSteps  \* bound on the number of steps of one insertion

Dims == DOMAIN Kind
Self == "self"   \* the entry of an object that stands for the object itself

DimsAssumption ==
  /\ Kind \in Seq({"quad", "flat"}) /\ Kind # <<>>
  /\ Dims = DOMAIN Paths
  /\ \A d \in Dims : \A p \in Paths[d] : p \in Seq({ p[i] : i \in DOMAIN p } \ {Self})
  /\ \A d \in Dims : \A p, q \in Paths[d] : Len(p) = Len(q) /\ Len(p) > 0
  /\ \A d \in Dims : Kind[d] = "flat" => \A p \in Paths[d] : Len(p) = 1
  /\ MaxAdds \in Nat /\ MaxSteps \in Nat

Addresses ==
  { a \in [Dims -> UNION { Paths[d] : d \in Dims }] :
      \A d \in Dims : a[d] \in Paths[d] }

VARIABLES
  heap,      \* address -> object; freed objects are not in its domain
  inserted,  \* history: how often each address was inserted
  fault      \* an assert of the code failed, or it dereferenced null

vars == <<heap, inserted, fault>>

-----------------------------------------------------------------------------
(* Objects.  A holder is a ContentHolder: a content and its proper flag.   *)

Null == 0
Root == 1        \* the tree of the first dimension, a member of the cube

Holder(c, proper) == [c |-> c, proper |-> proper]
NoContent == Holder(Null, FALSE)

FlatTree == [kind |-> "flat", self |-> NoContent, kids |-> <<>>]
QuadTree == [kind |-> "quad", root |-> Null]
Leaf     == [kind |-> "leaf", bag |-> [a \in Addresses |-> 0]]

NewContent(d) ==
  IF d \notin Dims THEN Leaf
  ELSE IF Kind[d] = "flat" THEN FlatTree ELSE QuadTree

QuadNode(holder, kids) == [kind |-> "node", self |-> holder, kids |-> kids]
Pointer(n, proper) == [c |-> n, proper |-> proper]

Put(f, k, v) == [x \in DOMAIN f \cup {k} |-> IF x = k THEN v ELSE f[x]]

(* A stack entry of the insertion: a node of a quadtree, a flat tree, or a *)
(* link of a flat tree.  NoEntry is the nullptr pushed when nothing below  *)
(* is up to date.                                                          *)
Entry(o, e) == [o |-> o, e |-> e]
NoEntry == Entry(Null, Self)

HolderOf(h, x) == IF x.e = Self THEN h[x.o].self ELSE h[x.o].kids[x.e]

SetKid(h, n, name, x) == [h EXCEPT ![n].kids = Put(@, name, x)]

SetHolder(h, x, holder) ==
  IF x.e = Self THEN [h EXCEPT ![x.o].self = holder] ELSE SetKid(h, x.o, x.e, holder)

(* Mutant: a quadtree node is never taken to have an only child.           *)
HasOneChild_FlatOnly(h, x) ==
  /\ x.e = Self /\ h[x.o].kind = "flat"
  /\ \E k \in DOMAIN h[x.o].kids : DOMAIN h[x.o].kids = {k}

(* getNumChildren() == 1.                                                  *)
HasOneChild(h, x) ==
  /\ x.e = Self
  /\ \E k \in DOMAIN h[x.o].kids : DOMAIN h[x.o].kids = {k}

-----------------------------------------------------------------------------
(* Allocation: the least free address, so that a freed one is reused soon. *)

Fresh(h) == CHOOSE i \in 1 .. Cardinality(DOMAIN h) + 1 :
              /\ i \notin DOMAIN h
              /\ \A j \in 1 .. i - 1 : j \in DOMAIN h

Allocate(h, object) == Put(h, Fresh(h), object)
Free(h, i) == [x \in DOMAIN h \ {i} |-> h[x]]

AllShared(kids) == [k \in DOMAIN kids |-> Pointer(kids[k].c, FALSE)]

(* Mutant: the copy goes on owning the children of the original.           *)
SharingCopy_OwnsKids(object) == [object EXCEPT !.self = Holder(@.c, FALSE)]

(* Node::makeLazyCopy and FlatTree::makeLazyCopy: own nothing, share all.  *)
SharingCopy(object) ==
  [object EXCEPT !.self = Holder(@.c, FALSE), !.kids = AllShared(@)]

(* Mutant: the copy of a time series is an empty one.                      *)
LazyCopy_EmptyLeaf(h, c) ==
  CASE h[c].kind = "leaf" -> Allocate(h, Leaf)
    [] h[c].kind = "flat" -> Allocate(h, SharingCopy(h[c]))
    [] h[c].kind = "quad" ->
         LET tree == Fresh(h)
             h1   == Allocate(h, QuadTree)
         IN  IF h[c].root = Null THEN h1
             ELSE LET node == Fresh(h1)
                  IN  [Allocate(h1, SharingCopy(h[h[c].root]))
                         EXCEPT ![tree].root = node]

(* makeLazyCopy of a content: the heap after it; the copy is Fresh(h).     *)
LazyCopy(h, c) ==
  CASE h[c].kind = "leaf" -> Allocate(h, h[c])
    [] h[c].kind = "flat" -> Allocate(h, SharingCopy(h[c]))
    [] h[c].kind = "quad" ->
         LET tree == Fresh(h)
             h1   == Allocate(h, QuadTree)
         IN  IF h[c].root = Null THEN h1
             ELSE LET node == Fresh(h1)
                  IN  [Allocate(h1, SharingCopy(h[h[c].root]))
                         EXCEPT ![tree].root = node]

(* Mutant: a shared content is taken over as it is, not copied.            *)
OwnContent_TakesOver(h, x, d) ==
  LET holder == HolderOf(h, x)
  IN  IF holder.c = Null
      THEN SetHolder(Allocate(h, NewContent(d)), x, Holder(Fresh(h), TRUE))
      ELSE SetHolder(h, x, Holder(holder.c, TRUE))

(* getProperContentCreateIfNeeded of entry x, whose contents are trees of  *)
(* dimension d (or leaves).                                                *)
OwnContent(h, x, d) ==
  LET holder == HolderOf(h, x)
  IN  IF holder.c = Null
      THEN SetHolder(Allocate(h, NewContent(d)), x, Holder(Fresh(h), TRUE))
      ELSE IF holder.proper THEN h
      ELSE SetHolder(LazyCopy(h, holder.c), x, Holder(Fresh(h), TRUE))

-----------------------------------------------------------------------------
(* Insertion: st is the heap, the calls of Insert under way, d the number   *)
(* of them, the contents that already have the record (updated_contents),   *)
(* the quadtree nodes replaced by a copy with one more child                *)
(* (replaced_nodes), and the fault flag.  The call for dimension d is made  *)
(* by the one for d - 1, and its stack is static: calls is by dimension.    *)

Fail(st) == [st EXCEPT !.fault = TRUE]
OnHeap(st, h) == [st EXCEPT !.heap = h]
OnCall(st, call) == [st EXCEPT !.calls = Put(@, st.d, call)]

(* A call prepares the path of the record in the tree s, down to level, and *)
(* while it is walking, node is current_node, prev previous_node and        *)
(* parNode the node parallel to it.  stack has the entry of each level.     *)
(* Then it goes up again: level is that of the entry to be updated next,    *)
(* and child the entry below it, if that is up to date.                     *)
Call(s, parallel) ==
  [s |-> s, parallel |-> parallel, walking |-> TRUE, level |-> 0,
   node |-> Null, prev |-> Null, parNode |-> Null, stack |-> <<>>, child |-> NoEntry]

Enter(st, d, call) == [st EXCEPT !.d = d, !.calls = Put(@, d, call)]

(* FlatTree::prepareProperOutdatedPath.                                    *)
EnterFlat(st, d, s, parallel, p) ==
  LET h     == st.heap
      label == p[1]
      kids  == h[s].kids
      new   == label \notin DOMAIN kids
      shared(c) == Holder(c, FALSE)
      link(holder) == SetKid(h, s, label, holder)
      below == [l \in 0 .. 1 |-> IF l = 0 THEN Entry(s, Self) ELSE Entry(s, label)]
      up(level, child) ==
        [Call(s, parallel) EXCEPT !.walking = FALSE, !.stack = below,
                                  !.level = level, !.child = child]
  IN  IF parallel = Null
      THEN Enter(OnHeap(st, IF new THEN link(NoContent) ELSE h), d, up(1, NoEntry))
      ELSE IF label \notin DOMAIN h[parallel].kids THEN Fail(st)
      ELSE LET c == h[parallel].kids[label].c
           IN  IF new THEN Enter(OnHeap(st, link(shared(c))), d, up(0, Entry(s, label)))
               ELSE IF kids[label].c = c THEN Enter(st, d, up(0, Entry(s, label)))
               ELSE Enter(st, d, up(1, NoEntry))

(* QuadTree::_createPath, from the end of p up to the node of a level: the  *)
(* last one allocated is the top.                                           *)
CreatePath(h, p, level) ==
  LET from[n \in 0 .. Len(p) - level] ==
        IF n = 0
        THEN [heap |-> Allocate(h, QuadNode(NoContent, <<>>)), top |-> Fresh(h)]
        ELSE LET below == from[n - 1]
                 kids  == Put(<<>>, p[Len(p) - n + 1], Pointer(below.top, TRUE))
             IN  [heap |-> Allocate(below.heap, QuadNode(NoContent, kids)),
                  top  |-> Fresh(below.heap)]
  IN  from[Len(p) - level]

(* QuadTree::prepareProperOutdatedPath, up to its loop.                    *)
EnterQuad(st, d, s, parallel, p) ==
  LET empty == st.heap[s].root = Null
      path  == CreatePath(st.heap, p, 0)
      h     == IF empty THEN [path.heap EXCEPT ![s].root = path.top] ELSE st.heap
      par   == IF parallel = Null THEN Null ELSE h[parallel].root
  IN  IF empty /\ parallel # Null THEN Fail(st)
      ELSE Enter(OnHeap(st, h), d,
                 [Call(s, parallel) EXCEPT !.node = h[s].root, !.parNode = par])

Insert(st, d, s, parallel, a) ==
  IF Kind[d] = "flat" THEN EnterFlat(st, d, s, parallel, a[d])
                      ELSE EnterQuad(st, d, s, parallel, a[d])

Child(h, n, name) ==
  IF n # Null /\ name \in DOMAIN h[n].kids THEN h[n].kids[name].c ELSE Null

(* There is no next node: current_node is replaced by a copy that has it,  *)
(* its parent (or the tree) is re-pointed and the old node deleted.        *)
AddChild(h, call, p, child, proper) ==
  LET copy == Fresh(h)
      h1   == Allocate(h, [h[call.node] EXCEPT
                             !.kids = Put(@, p[call.level + 1], Pointer(child, proper))])
      h2   == IF call.prev # Null
              THEN LET name == p[call.level]
                   IN  SetKid(h1, call.prev, name,
                              Pointer(copy, h1[call.prev].kids[name].proper))
              ELSE [h1 EXCEPT ![call.s].root = copy]
  IN  Free(h2, call.node)

(* Mutant: the shared pointer to the replaced node is left as it is.       *)
Repoint_NotAtAll(h, n, name, nextPar) == h

(* The shared next node was replaced: share the one that replaced it.      *)
Repoint(h, n, name, nextPar) == SetKid(h, n, name, Pointer(nextPar, FALSE))

(* The walk goes on from node to child, or is at its end.                  *)
Descend(st, node, child, parNode, p) ==
  LET call  == st.calls[st.d]
      below == call.level + 1
  IN  OnCall(st, [call EXCEPT
        !.walking = below < Len(p), !.level = below,
        !.prev = node, !.node = child, !.parNode = parNode,
        !.stack = Put(Put(@, call.level, Entry(node, Self)), below, Entry(child, Self))])

(* The walk ends above a child that is up to date.                         *)
Stop(st, node, child) ==
  LET call == st.calls[st.d]
  IN  OnCall(st, [call EXCEPT
        !.walking = FALSE, !.stack = Put(@, call.level, Entry(node, Self)),
        !.child = Entry(child, Self)])

(* A step of the loop of QuadTree::prepareProperOutdatedPath.              *)
Walk(st, p) ==
  LET h       == st.heap
      call    == st.calls[st.d]
      node    == call.node
      name    == p[call.level + 1]
      next    == Child(h, node, name)
      alone   == call.parallel = Null
      nextPar == IF alone THEN Null ELSE Child(h, call.parNode, name)
      replaces(h1) == [OnHeap(st, h1) EXCEPT !.replaced = @ \cup {node}]
      path    == CreatePath(h, p, call.level + 1)
      copied  == Allocate(h, SharingCopy(h[next]))
      owning  == OnHeap(st, SetKid(copied, node, name, Pointer(Fresh(h), TRUE)))
  IN  IF ~alone /\ nextPar = Null THEN Fail(st)
      ELSE IF next = Null /\ ~alone
      THEN Stop(replaces(AddChild(h, call, p, nextPar, FALSE)), Fresh(h), nextPar)
      ELSE IF next = Null
      THEN Descend(replaces(AddChild(path.heap, call, p, path.top, TRUE)),
                   Fresh(path.heap), path.top, Null, p)
      ELSE IF h[node].kids[name].proper THEN Descend(st, node, next, nextPar, p)
      ELSE IF alone THEN Fail(st)
      ELSE IF next = nextPar THEN Stop(st, node, next)
      ELSE IF next \in st.replaced
      THEN Stop(OnHeap(st, Repoint(h, node, name, nextPar)), node, nextPar)
      ELSE Descend(owning, node, Fresh(h), nextPar, p)

(* Mutant: the record is accumulated with the wrong sign.                  *)
Deliver_Subtracts(st, c, parallel, a) ==
  IF st.d + 1 \in Dims THEN Insert(st, st.d + 1, c, parallel, a)
  ELSE [OnHeap(st, [st.heap EXCEPT ![c].bag[a] = @ - 1]) EXCEPT !.updated = @ \cup {c}]

(* insert::Helper::exec: the record is sent into a content, which is a tree *)
(* of the next dimension or a time series.                                  *)
Deliver(st, c, parallel, a) ==
  IF st.d + 1 \in Dims THEN Insert(st, st.d + 1, c, parallel, a)
  ELSE [OnHeap(st, [st.heap EXCEPT ![c].bag[a] = @ + 1]) EXCEPT !.updated = @ \cup {c}]

(* A step of the loop of insert::Insert, from the deepest entry to the      *)
(* root: share the content of an only child, keep a shared content that     *)
(* already has the record, otherwise own a content and send the record      *)
(* into it.                                                                 *)
Unwind(st, a) ==
  LET h      == st.heap
      call   == st.calls[st.d]
      parent == call.stack[call.level]
      holder == HolderOf(h, parent)
      below  == IF call.child = NoEntry THEN Null ELSE HolderOf(h, call.child).c
      h1     == OwnContent(h, parent, st.d + 1)
      on(h2) == OnCall(OnHeap(st, h2), [call EXCEPT !.level = @ - 1, !.child = parent])
  IN  IF HasOneChild(h, parent)
      THEN on(SetHolder(h, parent, Holder(below, FALSE)))
      ELSE IF ~holder.proper /\ holder.c \in st.updated THEN on(h)
      ELSE Deliver(on(h1), HolderOf(h1, parent).c, below, a)

(* The caller takes the content as updated.                                *)
Return(st) ==
  [st EXCEPT !.d = @ - 1,
             !.updated = IF st.d = 1 THEN @ ELSE @ \cup {st.calls[st.d].s}]

InsertStep(st, a) ==
  IF st.fault \/ st.d = 0 THEN st
  ELSE IF st.calls[st.d].walking THEN Walk(st, a[st.d])
  ELSE IF st.calls[st.d].level >= 0 THEN Unwind(st, a)
  ELSE Return(st)

Idle(h) == [heap |-> h, calls |-> <<>>, d |-> 0,
            updated |-> {}, replaced |-> {}, fault |-> FALSE]

Inserted(h, a) ==
  LET after[n \in 0 .. MaxSteps] ==
        IF n = 0 THEN Insert(Idle(h), 1, Root, Null, a)
        ELSE InsertStep(after[n - 1], a)
  IN  after[MaxSteps]

-----------------------------------------------------------------------------
(* Deletion (~FlatTree, ~Node, ~QuadTree): an object takes what it owns    *)
(* with it.  Deleting what is not there is a double free.                  *)

(* Mutant: an object deletes what it shares too.                           *)
Owned_SharedToo(object) ==
  CASE object.kind = "leaf" -> {}
    [] object.kind = "quad" -> {object.root} \ {Null}
    [] OTHER -> { x.c : x \in {object.self} \cup
                               { object.kids[k] : k \in DOMAIN object.kids } } \ {Null}

(* Mutant: an object does not delete its own content.                      *)
Owned_KidsOnly(object) ==
  CASE object.kind = "leaf" -> {}
    [] object.kind = "quad" -> {object.root} \ {Null}
    [] OTHER -> { object.kids[k].c : k \in { j \in DOMAIN object.kids :
                                              object.kids[j].proper } } \ {Null}

Owned(object) ==
  CASE object.kind = "leaf" -> {}
    [] object.kind = "quad" -> {object.root} \ {Null}
    [] OTHER ->
         { x.c : x \in { y \in {object.self} \cup
                               { object.kids[k] : k \in DOMAIN object.kids } :
                           y.proper /\ y.c # Null } }

(* One of those that are to be deleted is.                                  *)
DeleteStep(st) ==
  LET i == CHOOSE x \in st.todo : TRUE
  IN  IF st.todo = {} \/ st.fault THEN st
      ELSE IF i \notin DOMAIN st.heap THEN Fail(st)
      ELSE [st EXCEPT !.heap = Free(@, i),
                      !.todo = (@ \ {i}) \cup Owned(st.heap[i])]

(* Every step but the last frees an object.                                 *)
Deleted(h, i) ==
  LET after[n \in 0 .. Cardinality(DOMAIN h) + 1] ==
        IF n = 0 THEN [heap |-> h, todo |-> {i}, fault |-> FALSE]
        ELSE DeleteStep(after[n - 1])
  IN  after[Cardinality(DOMAIN h) + 1]

-----------------------------------------------------------------------------
Init ==
  /\ heap = [i \in {Root} |-> NewContent(1)]
  /\ inserted = [a \in Addresses |-> 0]
  /\ fault = FALSE

(* NanoCubeTemplate::add.  An insertion that is not through after MaxSteps  *)
(* steps is a fault.                                                        *)
Add(a) ==
  /\ Root \in DOMAIN heap /\ ~fault
  /\ FoldFunction(LAMBDA x, y : x + y, 0, inserted) < MaxAdds
  /\ LET st == Inserted(heap, a)
     IN  heap' = st.heap /\ fault' = (st.fault \/ st.d # 0)
  /\ inserted' = [inserted EXCEPT ![a] = @ + 1]

(* The cube is destroyed: SlidingCubeManager resets the pointer to it.     *)
Destroy ==
  /\ Root \in DOMAIN heap /\ ~fault
  /\ LET st == Deleted(heap, Root)
     IN  heap' = st.heap /\ fault' = st.fault
  /\ UNCHANGED inserted

Next == (\E a \in Addresses : Add(a)) \/ Destroy

Spec == Init /\ [][Next]_vars

-----------------------------------------------------------------------------
(* Reading: QuadTree::find and FlatTree::find follow a path of any depth,  *)
(* from dimension to dimension, to the time series of a product bin.       *)

Prefixes(p) == { SubSeq(p, 1, n) : n \in 0 .. Len(p) }
BinPaths(d) == UNION { Prefixes(p) : p \in Paths[d] }
Bins == { b \in [Dims -> UNION { BinPaths(d) : d \in Dims }] :
            \A d \in Dims : b[d] \in BinPaths(d) }

FindNode(h, n, p) ==
  LET at[i \in 0 .. Len(p)] == IF i = 0 THEN n ELSE Child(h, at[i - 1], p[i])
  IN  at[Len(p)]

(* The content of the node of tree s at path p, Null if there is no node.  *)
FindContent(h, s, p) ==
  IF h[s].kind = "flat"
  THEN IF p = <<>> THEN h[s].self.c ELSE Child(h, s, p[1])
  ELSE LET n == FindNode(h, h[s].root, p)
       IN  IF n = Null THEN Null ELSE h[n].self.c

FindLeaf(h, s, b) ==
  LET in[d \in {0} \cup Dims] ==
        IF d = 0 THEN s
        ELSE LET tree == in[d - 1]
             IN  IF tree = Null THEN Null ELSE FindContent(h, tree, b[d])
  IN  in[Len(Kind)]

(* What a query of bin b sees: the bag of the records summarised there.    *)
Answer(b) == LET leaf == FindLeaf(heap, Root, b)
             IN  IF leaf = Null THEN [a \in Addresses |-> 0] ELSE heap[leaf].bag
Answers == [b \in Bins |-> Answer(b)]

-----------------------------------------------------------------------------
(* Properties.                                                             *)

Alive == Root \in DOMAIN heap

Holders(object) ==
  CASE object.kind = "leaf" -> {}
    [] object.kind = "quad" -> {Pointer(object.root, TRUE)}
    [] OTHER -> {object.self} \cup { object.kids[k] : k \in DOMAIN object.kids }

Pointees(object) == { x.c : x \in Holders(object) } \ {Null}

(* Every object of the heap is of one of the four kinds, its fields in     *)
(* place.                                                                  *)
TypeOK ==
  /\ inserted \in [Addresses -> Nat]
  /\ fault \in BOOLEAN
  /\ \A i \in DOMAIN heap :
       CASE heap[i].kind = "leaf" -> heap[i].bag \in [Addresses -> Nat]
         [] heap[i].kind = "quad" -> heap[i].root \in Nat
         [] heap[i].kind \in {"flat", "node"} ->
              \A x \in Holders(heap[i]) : x.c \in Nat /\ x.proper \in BOOLEAN

(* No insertion trips an assert of prepareProperOutdatedPath or follows a  *)
(* null parallel child, and no deletion frees an object twice.             *)
NoFault == ~fault

(* Between insertions no pointer, shared ones included, refers to a node   *)
(* that AddChild replaced and deleted, or to what was allocated in its     *)
(* place: every sharer was re-pointed by the insertion that replaced it.   *)
NoDanglingPointer ==
  \A i \in DOMAIN heap :
    LET object == heap[i]
        nodes  == IF object.kind = "quad" THEN {object.root} \ {Null}
                  ELSE IF object.kind = "node"
                  THEN { object.kids[k].c : k \in DOMAIN object.kids } ELSE {}
    IN  /\ Pointees(object) \subseteq DOMAIN heap
        /\ \A n \in Pointees(object) : heap[n].kind = "node" <=> n \in nodes

(* Every node and content has exactly one owner (one proper pointer), so   *)
(* destroying the cube frees each once and leaks none.                     *)
OneOwner ==
  LET owned(i) == Owned(heap[i])
  IN  Alive =>
        /\ \A i, j \in DOMAIN heap : i # j => owned(i) \cap owned(j) = {}
        /\ UNION { owned(i) : i \in DOMAIN heap } = DOMAIN heap \ {Root}

(* Once the cube is destroyed nothing is left of it.                       *)
NothingLeaks == ~Alive => heap = <<>>

(* A node with one child summarises the same records as that child, and    *)
(* owns no second copy of them: it shares the content of the child.        *)
OnlyChildShared ==
  \A i \in DOMAIN heap : heap[i].kind \in {"flat", "node"} =>
    \A k \in DOMAIN heap[i].kids :
      LET child == IF heap[i].kind = "flat" THEN heap[i].kids[k]
                   ELSE heap[heap[i].kids[k].c].self
      IN  DOMAIN heap[i].kids = {k} => heap[i].self = Holder(child.c, FALSE)

(* The abstract cube this heap is meant to implement; MCCubes checks it.   *)
Abstract == INSTANCE Cube
  WITH answers <- IF Alive THEN Answers ELSE <<>>

(* The promise of the cube as an invariant, stated from the history: for    *)
(* every bin of every level of every dimension the shared and owned        *)
(* summaries together answer with each record at the addresses it covers   *)
(* once, and with no other.                                                *)
AnswersExact ==
  Alive => \A b \in Bins :
    Answer(b) = [a \in Addresses |-> IF Abstract!Covers(b, a) THEN inserted[a] ELSE 0]

=============================================================================
