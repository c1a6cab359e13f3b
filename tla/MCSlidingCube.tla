--------------------------- MODULE MCSlidingCube ---------------------------
(* Bounds for TLC: windows of two time units; at most two records of the   *)
(* same time.                                                              *)
EXTENDS SlidingCube

MCRecords == [ts : {0, 1, 2, 4, 5, 6, 9}, n : {1}] \cup [ts : {2, 4}, n : {2}]
=============================================================================
