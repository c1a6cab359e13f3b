---------------------------- MODULE SlidingCube ----------------------------
(***************************************************************************)
(* SlidingCubeManager: two cubes, of the window of the newest record and   *)
(* of the one before.  The window of a record's time decides which of them *)
(* it goes to, and when a cube is replaced.  The two slots swap roles      *)
(* (parity) when the next window begins.                                   *)
(*                                                                         *)
(* A cube is the set of the records added to it (module NanoCube).         *)
(***************************************************************************)
EXTENDS Integers, FiniteSets

CONSTANTS
  Records,      \* the records that may arrive; r.ts is the time of r
  WindowSize,   \* the duration of a window
  NoCube        \* a null pointer to a cube

ASSUME SlidingAssumption ==
  /\ \A r \in Records : r.ts \in Nat
  /\ WindowSize \in Nat /\ WindowSize > 0
  /\ \A S \in SUBSET Records : NoCube # S

Slots == {0, 1}
NoWindow == -1

VARIABLES
  cubes,      \* slot -> cube
  windows,    \* slot -> the window of its cube
  parity,     \* the current slot
  latestAt,   \* the newest time seen
  seen        \* history: the records that were passed to at

mgr == <<cubes, windows, parity, latestAt>>
vars == <<mgr, seen>>

WindowOf(ts) == ts \div WindowSize   \* id, for a base of 0

Current  == parity
Previous == 1 - parity

-----------------------------------------------------------------------------
(* at(ts), case by case, followed by the addition of the set add of        *)
(* records to the cube it returned.                                        *)

Latest(ts) == latestAt' = IF ts > latestAt THEN ts ELSE latestAt

HitCurrent(ts, add) ==
  /\ WindowOf(ts) = windows[Current]
  /\ cubes' = [cubes EXCEPT ![Current] = @ \cup add]
  /\ Latest(ts)
  /\ UNCHANGED <<windows, parity>>

(* Mutant: the record goes to the current cube.                            *)
HitPrevious_Current(ts, add) ==
  /\ WindowOf(ts) = windows[Previous]
  /\ cubes' = [cubes EXCEPT ![Current] = @ \cup add]
  /\ Latest(ts)
  /\ UNCHANGED <<windows, parity>>

HitPrevious(ts, add) ==
  /\ WindowOf(ts) = windows[Previous]
  /\ cubes' = [cubes EXCEPT ![Previous] = @ \cup add]
  /\ Latest(ts)
  /\ UNCHANGED <<windows, parity>>

(* Mutant: the cube made for the record is left empty.                     *)
NewPrevious_Empty(ts, add) ==
  /\ WindowOf(ts) = windows[Current] - 1
  /\ WindowOf(ts) # windows[Previous]
  /\ cubes' = [cubes EXCEPT ![Previous] = {}]
  /\ windows' = [windows EXCEPT ![Previous] = windows[Current] - 1]
  /\ Latest(ts)
  /\ UNCHANGED parity

(* The window before the current one had no cube, because of a jump.       *)
NewPrevious(ts, add) ==
  /\ WindowOf(ts) = windows[Current] - 1
  /\ WindowOf(ts) # windows[Previous]
  /\ cubes' = [cubes EXCEPT ![Previous] = add]
  /\ windows' = [windows EXCEPT ![Previous] = windows[Current] - 1]
  /\ Latest(ts)
  /\ UNCHANGED parity

(* Mutant: the parity is counted up, and not taken modulo two.             *)
NextWindow_Unbounded(ts, add) ==
  /\ WindowOf(ts) = windows[Current] + 1
  /\ parity' = parity + 1
  /\ cubes' = [cubes EXCEPT ![Previous] = add]
  /\ windows' = [windows EXCEPT ![Previous] = WindowOf(ts)]
  /\ Latest(ts)

(* Mutant: the next window is treated like a jump.                         *)
NextWindow_Jumps(ts, add) ==
  /\ WindowOf(ts) = windows[Current] + 1
  /\ cubes' = [cubes EXCEPT ![Current] = add, ![Previous] = NoCube]
  /\ windows' = [windows EXCEPT ![Current] = WindowOf(ts), ![Previous] = NoWindow]
  /\ Latest(ts)
  /\ UNCHANGED parity

(* The next window begins: the current cube becomes the previous one, and  *)
(* what was the previous one is dropped.                                   *)
NextWindow(ts, add) ==
  /\ WindowOf(ts) = windows[Current] + 1
  /\ parity' = 1 - parity
  /\ cubes' = [cubes EXCEPT ![Previous] = add]
  /\ windows' = [windows EXCEPT ![Previous] = WindowOf(ts)]
  /\ Latest(ts)

(* Mutant: the previous cube is dropped, but not its window.               *)
Jump_KeepsWindow(ts, add) ==
  /\ WindowOf(ts) > windows[Current] + 1
  /\ cubes' = [cubes EXCEPT ![Current] = add, ![Previous] = NoCube]
  /\ windows' = [windows EXCEPT ![Current] = WindowOf(ts)]
  /\ Latest(ts)
  /\ UNCHANGED parity

(* Mutant: the previous cube and its window are kept.                      *)
Jump_KeepsPrevious(ts, add) ==
  /\ WindowOf(ts) > windows[Current] + 1
  /\ cubes' = [cubes EXCEPT ![Current] = add]
  /\ windows' = [windows EXCEPT ![Current] = WindowOf(ts)]
  /\ Latest(ts)
  /\ UNCHANGED parity

(* At least one window was skipped: both cubes are dropped.                *)
Jump(ts, add) ==
  /\ WindowOf(ts) > windows[Current] + 1
  /\ cubes' = [cubes EXCEPT ![Current] = add, ![Previous] = NoCube]
  /\ windows' = [windows EXCEPT ![Current] = WindowOf(ts), ![Previous] = NoWindow]
  /\ Latest(ts)
  /\ UNCHANGED parity

(* at returned a cube, and the records of add were added to it.            *)
AddTo(ts, add) ==
  \/ HitCurrent(ts, add)
  \/ HitPrevious(ts, add)
  \/ NewPrevious(ts, add)
  \/ NextWindow(ts, add)
  \/ Jump(ts, add)

(* at returned null: the record is out of reach.                           *)
TooOld(ts) ==
  /\ WindowOf(ts) < windows[Current] - 1
  /\ WindowOf(ts) # windows[Previous]
  /\ Latest(ts)
  /\ UNCHANGED <<cubes, windows, parity>>

InitManager ==
  /\ cubes = [s \in Slots |-> NoCube]
  /\ windows = [s \in Slots |-> NoWindow]
  /\ parity = 0
  /\ latestAt = -1

Init == InitManager /\ seen = {}

Insert(r) ==
  /\ r \notin seen
  /\ AddTo(r.ts, {r}) \/ TooOld(r.ts)
  /\ seen' = seen \cup {r}

Next == \E r \in Records : Insert(r)

Spec == Init /\ [][Next]_vars

-----------------------------------------------------------------------------
(* apply visits the cubes of the slots that have a window.                 *)
Visited == { s \in Slots : windows[s] >= 0 }

Served == UNION { cubes[s] : s \in Visited }

-----------------------------------------------------------------------------
(* Properties.                                                             *)

(* Slots hold a cube or null and a window or none.                         *)
TypeOK ==
  /\ cubes \in [Slots -> {NoCube} \cup SUBSET Records]
  /\ windows \in [Slots -> Nat \cup {NoWindow}]
  /\ parity \in Slots
  /\ latestAt \in Nat \cup {-1}
  /\ seen \subseteq Records

(* apply never follows a null pointer, and never skips a cube: the slots   *)
(* with a window are those with a cube.                                    *)
VisitsCubes == \A s \in Slots : s \in Visited <=> cubes[s] # NoCube

(* A cube with a window holds all the records of the window received so    *)
(* far and no other: no slot is filled under an old window, or dropped     *)
(* while its window is still served.                                       *)
WindowsComplete ==
  \A s \in Visited : cubes[s] = { r \in seen : WindowOf(r.ts) = windows[s] }

(* The current window is that of the newest record seen, and the other     *)
(* slot is empty or holds the window just before it.                       *)
Adjacent ==
  /\ \A r \in seen : r.ts <= latestAt
  /\ latestAt = -1 \/ \E r \in seen : r.ts = latestAt
  /\ windows[Current] = IF latestAt = -1 THEN NoWindow ELSE WindowOf(latestAt)
  /\ windows[Previous] \in {NoWindow, windows[Current] - 1}

(* When there is no previous cube, no record of its window was received:   *)
(* a jump over a window never drops a window that is still served.         *)
NothingMissed ==
  windows[Previous] = NoWindow =>
    \A r \in seen : WindowOf(r.ts) # windows[Current] - 1

IInv == TypeOK /\ VisitsCubes /\ WindowsComplete /\ Adjacent /\ NothingMissed

(* The manager serves what it promises: after every record, in any order   *)
(* of arrival, exactly the records of the two newest windows.              *)
Promise == INSTANCE TwoWindows
  WITH served <- Served, Window <- [r \in Records |-> WindowOf(r.ts)]

ImplementsTwoWindows == Promise!Spec
=============================================================================
