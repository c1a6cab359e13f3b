----------------------------- MODULE MCMaskCache -----------------------------
(* Bounds for TLC: three masks given by code or contour and one region,    *)
(* which may be computed more often than the budget allows.                *)
EXTENDS MaskCache

MCKeys    == { "code", "contour", "trimmed code", "region" }
MCRegions == { "region" }
=============================================================================
