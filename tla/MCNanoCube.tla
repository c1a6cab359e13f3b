----------------------------- MODULE MCNanoCube -----------------------------
(* One schema for TLC: a quadtree of several levels as third dimension.    *)
EXTENDS NanoCube, MCSchemas

(* Until an assert of the insertion fails, every bin answers with each     *)
(* record it covers once.                                                  *)
ExactUntilFault == ~fault => AnswersExact
=============================================================================
