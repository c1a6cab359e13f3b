------------------------------ MODULE MaskCache ------------------------------
(***************************************************************************)
(* The cache of query masks (cache2.hh, list.hh) as parsing a query uses   *)
(* it: a map from key to item and a doubly linked list of the items, the   *)
(* most recently used first.  The list is modelled with its pointers: some *)
(* of them are left stale, and what matters is whether one is followed.    *)
(*                                                                         *)
(* An item stands for its mask as well: both are deleted together.  Items  *)
(* deleted are not in items, and no address is used twice, so that a use   *)
(* of freed memory shows.  Behaviours end there (fault): what the program  *)
(* does next is undefined.                                                 *)
(***************************************************************************)
EXTENDS Integers, Sequences, SequencesExt

CONSTANTS
  Keys,      \* what a mask is asked for by: a code or a contour, a region
  Regions,   \* those of them that name a region
  Budget,    \* --mask-cache-budget
  MaxItems   \* bound on the number of masks computed

ASSUME CacheAssumption ==
  Regions \subseteq Keys /\ Budget \in Nat /\ MaxItems \in Nat

VARIABLES
  items,    \* address -> [key, next, prev]
  list,     \* [first, last, size]
  map,      \* key -> address
  targets,  \* the masks of the query under way
  created,  \* the number of items allocated so far
  recent,   \* history: the items in the cache, the last used first
  trimmed,  \* history: the budget was enforced
  fault     \* a pointer to a deleted item was followed

vars == <<items, list, map, targets, created, recent, trimmed, fault>>

Null == 0

-----------------------------------------------------------------------------
(* list::List (remove is Unlink), on a cache c = [items, list, map, fault].*)

(* Mutant: the item after a removed one keeps pointing back to it.         *)
Unlink_OneWay(c, i) ==
  LET first == c.list.first
      last  == c.list.last
      item  == c.items[i]
  IN  [c EXCEPT
        !.list  = [first |-> IF first = i THEN item.next ELSE first,
                   last  |-> IF first # i /\ last = i THEN item.prev ELSE last,
                   size  |-> c.list.size - 1],
        !.items = IF first = i THEN [@ EXCEPT ![i].next = Null]
                  ELSE IF last = i THEN [@ EXCEPT ![i].prev = Null]
                  ELSE [@ EXCEPT ![item.prev].next = item.next,
                                 ![i].prev = Null, ![i].next = Null]]

Unlink(c, i) ==
  LET first == c.list.first
      last  == c.list.last
      item  == c.items[i]
  IN  [c EXCEPT
        !.list  = [first |-> IF first = i THEN item.next ELSE first,
                   last  |-> IF first # i /\ last = i THEN item.prev ELSE last,
                   size  |-> c.list.size - 1],
        !.items = IF first = i THEN [@ EXCEPT ![i].next = Null]
                  ELSE IF last = i THEN [@ EXCEPT ![i].prev = Null]
                  ELSE [@ EXCEPT ![item.prev].next = item.next,
                                 ![item.next].prev = item.prev,
                                 ![i].prev = Null, ![i].next = Null]]

PushFront(c, i) ==
  LET first == c.list.first
  IN  IF first = Null
      THEN [c EXCEPT !.list = [first |-> i, last |-> i, size |-> @.size + 1],
                     !.items[i].next = Null, !.items[i].prev = Null]
      ELSE IF first \notin DOMAIN c.items THEN [c EXCEPT !.fault = TRUE]
      ELSE [c EXCEPT !.list = [first |-> i, last |-> @.last, size |-> @.size + 1],
                     !.items[i].next = first, !.items[i].prev = Null,
                     !.items[first].prev = i]

-----------------------------------------------------------------------------
(* cache2::Cache.  Its own budget is never set: it stays 0.                *)

Without(f, x) == [y \in DOMAIN f \ {x} |-> f[y]]
With(f, x, v) == [y \in DOMAIN f \cup {x} |-> IF y = x THEN v ELSE f[y]]

Touch(c, i) == PushFront(Unlink(c, i), i)

(* Mutant: the key is mapped to the front of the list, before the item is. *)
InsertItem_MapsFront(c, i, key) ==
  PushFront([c EXCEPT !.items = With(@, i, [key |-> key, next |-> Null, prev |-> Null]),
                      !.map   = With(@, key, c.list.first)], i)

(* Mutant: the key is not mapped.                                          *)
InsertItem_Unmapped(c, i, key) ==
  PushFront([c EXCEPT !.items = With(@, i, [key |-> key, next |-> Null, prev |-> Null])], i)

InsertItem(c, i, key) ==
  PushFront([c EXCEPT !.items = With(@, i, [key |-> key, next |-> Null, prev |-> Null]),
                      !.map   = With(@, key, i)], i)

(* Mutant: the key of an evicted item stays in the map.                    *)
EvictBack_KeepsKey(c) ==
  LET i == c.list.last
      r == Unlink(c, i)
  IN  [r EXCEPT !.items = Without(@, i)]

EvictBack(c) ==
  LET i == c.list.last
      r == Unlink(c, i)
  IN  [r EXCEPT !.map = Without(@, c.items[i].key), !.items = Without(@, i)]

EnforceBudget(c) ==
  LET after[n \in 0 .. c.list.size] == IF n = 0 THEN c ELSE EvictBack(after[n - 1])
  IN  after[c.list.size]

-----------------------------------------------------------------------------
(* Parsing a query.                                                        *)

Cache == [items |-> items, list |-> list, map |-> map, fault |-> fault]

Becomes(c) ==
  /\ items' = c.items /\ list' = c.list /\ map' = c.map /\ fault' = c.fault

(* A region is looked up by the literal "key", which nothing is cached by. *)
Known(key) == key \notin Regions /\ key \in DOMAIN map

(* The mask is in the cache.                                               *)
Hit(key) ==
  /\ ~fault /\ Known(key)
  /\ LET i == map[key]
     IN  /\ Becomes(Touch(Cache, i))
         /\ targets' = targets \cup {i}
         /\ recent' = <<i>> \o RemoveAt(recent, CHOOSE n \in DOMAIN recent : recent[n] = i)
  /\ UNCHANGED <<created, trimmed>>

Excess(c) == c.list.size > (12 * Budget) \div 10

(* It is not: compute it and cache it (cacheMask), which may find that the *)
(* cache has more than 1.2 times the budget.                               *)
Miss(key) ==
  /\ ~fault /\ ~Known(key)
  /\ created < MaxItems
  /\ LET i == created + 1
         c == InsertItem(Cache, i, key)
         trim == ~c.fault /\ Excess(c)
     IN  /\ Becomes(IF trim THEN EnforceBudget(c) ELSE c)
         /\ targets' = targets \cup {i}
         /\ recent' = IF trim THEN <<>> ELSE <<i>> \o recent
         /\ trimmed' = (trimmed \/ trim)
         /\ created' = i

(* The query runs with its masks, and is answered.                         *)
RunQuery ==
  /\ ~fault /\ targets # {}
  /\ fault' = ~(targets \subseteq DOMAIN items)
  /\ targets' = {}
  /\ UNCHANGED <<items, list, map, created, recent, trimmed>>

Init ==
  /\ items = <<>> /\ map = <<>>
  /\ list = [first |-> Null, last |-> Null, size |-> 0]
  /\ targets = {} /\ created = 0 /\ recent = <<>>
  /\ trimmed = FALSE /\ fault = FALSE

Next == (\E key \in Keys : Hit(key) \/ Miss(key)) \/ RunQuery

Spec == Init /\ [][Next]_vars

-----------------------------------------------------------------------------
(* Properties.                                                             *)

(* The cache, its list and the query have their shape.                     *)
TypeOK ==
  /\ \A i \in DOMAIN items : items[i] \in [key : Keys, next : Nat, prev : Nat]
  /\ list \in [first : Nat, last : Nat, size : Nat]
  /\ DOMAIN map \subseteq Keys /\ \A key \in DOMAIN map : map[key] \in 1 .. created
  /\ targets \subseteq 1 .. created /\ recent \in Seq(1 .. created)
  /\ trimmed \in BOOLEAN /\ fault \in BOOLEAN

(* n steps of next from the first item, or of prev from the last.          *)
Forward(n) ==
  LET at[m \in 0 .. n] == IF m = 0 THEN list.first ELSE items[at[m - 1]].next
  IN  at[n]
Backward(n) ==
  LET at[m \in 0 .. n] == IF m = 0 THEN list.last ELSE items[at[m - 1]].prev
  IN  at[n]

(* Until the budget is first enforced the list holds the items in the order *)
(* of their last use, from both ends: the pointers that remove leaves stale *)
(* are never the ones that are followed.                                    *)
RecencyOrder ==
  ~trimmed =>
    /\ ~fault
    /\ list.size = Len(recent)
    /\ \A n \in 1 .. Len(recent) :
         Forward(n - 1) = recent[n] /\ Backward(n - 1) = recent[Len(recent) + 1 - n]

(* A lookup finds a mask that is there, of the key asked for, and the last *)
(* one cached for that key.                                                *)
FindsOwnMask ==
  \A key \in DOMAIN map :
    /\ map[key] \in DOMAIN items
    /\ items[map[key]].key = key
    /\ \A i \in DOMAIN items : items[i].key = key => i <= map[key]

(* No mask but a region's is computed while the cache has it already.      *)
ComputedOnce ==
  \A i, j \in DOMAIN items :
    i # j /\ items[i].key = items[j].key => items[i].key \in Regions

(* "Every time we have 20% more masks in the cache we reduce it to the     *)
(* budget": so when the cache shrinks, the budget is what is left.         *)
ReducedToBudget == [][list'.size < list.size => list'.size = Budget]_vars
=============================================================================
