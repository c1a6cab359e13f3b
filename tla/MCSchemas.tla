------------------------------ MODULE MCSchemas -----------------------------
(* Schemas for TLC.  A flat dimension has two labels; a quadtree one has   *)
(* paths of one or two levels, chosen to share a prefix or not.            *)

Flat2 == { <<"x">>, <<"y">> }
Quad1 == { <<"0">>, <<"1">> }
Quad2 == { <<"0", "0">>, <<"0", "1">>, <<"1", "0">> }

QuadFlat     == <<"quad", "flat">>
QuadQuad     == <<"quad", "quad">>
QuadFlatFlat == <<"quad", "flat", "flat">>
QuadFlatQuad == <<"quad", "flat", "quad">>
FlatFlatQuad == <<"flat", "flat", "quad">>

PathsQuadFlat     == <<Quad2, Flat2>>
PathsQuadQuad     == <<Quad2, Quad2>>
PathsQuadFlatFlat == <<Quad2, Flat2, Flat2>>
PathsQuadFlatQuad == <<Quad1, Flat2, Quad2>>
PathsFlatFlatQuad == <<Flat2, Flat2, Quad2>>
=============================================================================
