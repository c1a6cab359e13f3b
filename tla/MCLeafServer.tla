---------------------------- MODULE MCLeafServer ----------------------------
(* Bounds for TLC: times in three windows of two units.  Records come late *)
(* by any number of windows when they are inserted one by one; in larger   *)
(* batches by at most one, unless late records are what a run is about.    *)
(* A plain cube makes no use of the times.                                 *)
EXTENDS LeafServer

MCTimestamps == {0, 2, 4}

Scenario(sliding, batch, maximum, lateness, records) ==
  [sliding |-> sliding, batch |-> batch, maximum |-> maximum,
   lateness |-> lateness, records |-> records]

MCScenarios ==
  { Scenario(TRUE, 1, 0, 3, 4), Scenario(TRUE, 3, 3, 1, 5), Scenario(FALSE, 2, 3, 0, 5) }
LateInBatch == { Scenario(TRUE, 2, 0, 3, 4) }
OneByOne    == { Scenario(TRUE, 1, 0, 3, 1) }
=============================================================================
