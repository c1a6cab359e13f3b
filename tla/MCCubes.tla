------------------------------- MODULE MCCubes ------------------------------
(* One run over three schemas, chosen at the start as they are by          *)
(* compiling: two quadtrees; a quadtree and two flat trees; and, with      *)
(* queries, a quadtree and a flat tree.                                    *)
EXTENDS NanoCube, MCSchemas

CONSTANTS MaxMixed, MaxAsked   \* bounds on the records inserted, as MaxAdds

VARIABLES schema, query, frames, stack, tree

cube  == <<heap, inserted, fault>>
asked == <<query, frames, stack, tree>>

(* The first schema is that of the constants of NanoCube.                  *)
Mixed == INSTANCE NanoCube
  WITH Kind <- QuadFlatFlat, Paths <- PathsQuadFlatFlat, MaxAdds <- MaxMixed

dive(base, depth)   == [type |-> "dive", base |-> base, depth |-> depth]
range(tiles)        == [type |-> "range", tiles |-> tiles]
sequence(addresses) == [type |-> "sequence", addresses |-> addresses]
mask(nodes)         == [type |-> "mask", nodes |-> nodes]

(* One range crosses the boundary of two parents, the other is all of one  *)
(* and half of the next; the mask ends at two depths.                      *)
QuadTargets ==
  { dive(<<>>, 0), dive(<<>>, 2), dive(<<"0">>, 1),
    range({ <<"0", "1">>, <<"1", "0">> }),
    range({ <<"0", c>> : c \in {"0", "1", "2", "3"} } \cup
          { <<"1", c>> : c \in {"0", "2"} }),
    mask({ <<>>, <<"0">>, <<"0", "1">>, <<"1">> }) }

FlatTargets ==
  { dive(<<>>, 0), dive(<<>>, 1), dive(<<"x">>, 0), range(Flat2),
    sequence(<< <<"x">>, <<"y">>, <<"x">> >>) }

MCQueries ==
  LET ask(targets, images) ==
        { [target |-> t, anchored |-> a, img |-> i] :
            t \in targets, a \in BOOLEAN, i \in images }
      tiles  == { x \in ask(QuadTargets, BOOLEAN) :
                    x.img => x.anchored /\ x.target.type = "dive" }
      labels == ask(FlatTargets, {FALSE})
  IN  { <<x, y>> : x \in tiles, y \in labels }

Asked == INSTANCE CubeQuery
  WITH Kind <- QuadFlat, Paths <- PathsQuadFlat, MaxAdds <- MaxAsked,
       Queries <- MCQueries

ASSUME SchemasAssumption ==
  /\ DimsAssumption /\ Mixed!DimsAssumption
  /\ Asked!DimsAssumption /\ Asked!QueriesAssumption

NotAsked == query = <<>> /\ frames = <<>> /\ stack = <<>> /\ tree = <<>>

CubesInit == \/ schema = "quads" /\ Init /\ NotAsked
             \/ schema = "mixed" /\ Mixed!Init /\ NotAsked
             \/ schema = "asked" /\ Asked!QueryInit

CubesNext == /\ \/ schema = "quads" /\ Next /\ UNCHANGED asked
                \/ schema = "mixed" /\ Mixed!Next /\ UNCHANGED asked
                \/ schema = "asked" /\ Asked!QueryNext
             /\ UNCHANGED schema

CubesSpec == CubesInit /\ [][CubesNext]_<<schema, cube, asked>>
-----------------------------------------------------------------------------
(* In every schema every object of the heap is of one of the four kinds,  *)
(* its fields in place.                                                    *)
SchemaTypeOK == CASE schema = "quads" -> TypeOK
                  [] schema = "mixed" -> Mixed!TypeOK
                  [] schema = "asked" -> Asked!TypeOK

(* In the first schema every bin of every level answers with exactly the   *)
(* records inserted at the addresses it covers.                            *)
QuadsExact == schema = "quads" => AnswersExact

(* CubeQuery!QueriesExact, in the third schema: an answer has each record  *)
(* asked for once for every time it is, under its labels, and no other.    *)
QueriesExact == schema = "asked" => Asked!QueriesExact

(* The abstract cube of the mixed schema; it stutters in the others.       *)
MixedAddresses == Mixed!Addresses
MixedBins == Mixed!Bins
NoAnswers == [b \in MixedBins |-> [a \in MixedAddresses |-> 0]]

MixedCube == INSTANCE Cube
  WITH Addresses <- MixedAddresses, Bins <- MixedBins,
       answers <- IF schema # "mixed" THEN NoAnswers
                  ELSE IF Mixed!Alive THEN [b \in MixedBins |-> Mixed!Answer(b)] ELSE <<>>

(* The heap of the mixed schema implements the abstract cube: an insertion *)
(* changes the answers of the bins that cover its address, by that record. *)
ImplementsCube == MixedCube!Spec
=============================================================================
