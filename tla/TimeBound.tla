------------------------------- MODULE TimeBound -------------------------------
(***************************************************************************)
(* The start of the web viewer: nanocube.js finds the first and the last   *)
(* time bin that hold anything by asking for ever finer time series.  The  *)
(* searches for the two bounds run side by side, each one request at a     *)
(* time, while the server may go on inserting records.  The page is built  *)
(* when both have ended.  The server's answer to a time series is the set  *)
(* of its buckets that hold something (external, see src/src/nc.cc).       *)
(***************************************************************************)
EXTENDS Integers

CONSTANTS
    Elem,     \* buckets of one request, elem
    Horizon,  \* where the searches end, 2^32 in the code
    Bins      \* the bins that records can have

ASSUME BoundAssumption ==
    Elem \in Nat /\ Elem > 2 /\ Horizon \in Nat /\ Bins \subseteq 0..Horizon

Sides == {"min", "max"}

VARIABLES
    stored,  \* the bins of the server that hold something
    atLoad,  \* history: those that did when the page was loaded
    start, length, \* the interval of the next request, per side
    state    \* "asking", "found" or "failed", per side; start is then the bound

boundVars == <<stored, atLoad, start, length, state>>

BoundInit ==
    /\ stored \in SUBSET Bins /\ atLoad = stored
    /\ start = [side \in Sides |-> 0]
    /\ length = [side \in Sides |-> Horizon]
    /\ state = [side \in Sides |-> "asking"]

\* Mutant: the buckets are rounded down.
BinSize_Floor(len) == IF len < Elem THEN 1 ELSE len \div Elem

\* Mutant: the buckets are rounded up once more.
BinSize_Ceil(len) == (len + Elem - 1) \div Elem + 1

\* Width of a bucket, Math.floor(len/elem + 1): the buckets cover the interval
\* and its end.
BinSize(len) == len \div Elem + 1

\* The buckets of the request that hold something: path[0] of the children.
Hits(from, width) == {i \in 0..(Elem - 1) : \E b \in stored :
                          from + i * width <= b /\ b < from + (i + 1) * width}

\* The reduction of the children with Math.min or Math.max.
IsBound(side, i, hits) ==
    i \in hits /\ \A j \in hits : IF side = "min" THEN i <= j ELSE j <= i

\* The answer to a request of a search: the search goes on in one bucket, or
\* ends when a bucket is one bin.
Narrow(side) ==
    LET width == BinSize(length[side]) IN
    /\ state[side] = "asking"
    /\ \E i \in Hits(start[side], width) :
        /\ IsBound(side, i, Hits(start[side], width))
        /\ start' = [start EXCEPT ![side] = @ + i * width]
        /\ IF width > 1
           THEN length' = [length EXCEPT ![side] = width] /\ state' = state
           ELSE length' = length /\ state' = [state EXCEPT ![side] = "found"]
    /\ UNCHANGED <<stored, atLoad>>

\* An answer without children throws "Invalid Range": the page is never built.
Fail(side) ==
    /\ state[side] = "asking" /\ Hits(start[side], BinSize(length[side])) = {}
    /\ state' = [state EXCEPT ![side] = "failed"]
    /\ UNCHANGED <<stored, atLoad, start, length>>

\* A record comes in while the page loads.
Insert(bin) ==
    /\ bin \notin stored /\ \E side \in Sides : state[side] = "asking"
    /\ stored' = stored \cup {bin}
    /\ UNCHANGED <<atLoad, start, length, state>>

BoundNext ==
    \/ \E side \in Sides : Narrow(side) \/ Fail(side)
    \/ \E bin \in Bins : Insert(bin)

BoundSpec == BoundInit /\ [][BoundNext]_boundVars

\* Both bounds are there, $.when(minb, maxb).
Ready == \A side \in Sides : state[side] = "found"
--------------------------------------------------------------------------------
BoundTypeOK ==
    /\ stored \subseteq Bins /\ atLoad \subseteq stored
    /\ start \in [Sides -> Nat] /\ length \in [Sides -> Nat]
    /\ state \in [Sides -> {"asking", "found", "failed"}]

\* The bounds that were found are exact, however coarse the buckets and whatever
\* came in meanwhile: each one holds something, and every bin outside of them
\* was filled after the page was loaded.
BoundsExact ==
    /\ state["min"] = "found" => start["min"] \in stored /\ \A b \in atLoad : start["min"] <= b
    /\ state["max"] = "found" => start["max"] \in stored /\ \A b \in atLoad : b <= start["max"]

\* A search that finds a record when it begins does not fail.
FailsOnlyEmpty == \A side \in Sides : state[side] = "failed" => atLoad = {}
================================================================================
