---------------------------- MODULE MCTimeSeries ----------------------------
(* Bounds for TLC: signed times of 4 bins (2^15 in the code), a word four  *)
(* times the range of the unsigned time.                                   *)
EXTENDS TimeSeries

LowTimes  == 0 .. HalfRange - 1        \* the bins a signed short can hold
AllTimes  == 0 .. 2 * HalfRange - 1    \* every bin of a u2
MCValues  == {-1, 1, 3}
=============================================================================
