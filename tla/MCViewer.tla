-------------------------------- MODULE MCViewer --------------------------------
(* Bounds for TLC: two shapes, four records in two places and four bins, of *)
(* two categories, and plans that each let some of the user's tools be used *)
(* often enough, together with answers in any order or loss.                *)
EXTENDS Viewer

Record(place, bin, cat) == [place |-> place, bin |-> bin, cat |-> cat]
MCData == {Record("west", 1, 1), Record("west", 2, 2), Record("east", 2, 1), Record("east", 5, 1)}
MCGeoms == {{"west"}, {"east"}}
MCSpans == {<<-1, 2>>, <<2, 4>>}
Near == [zoom |-> 16, tiles |-> <<{"west"}>>]
MCViews == {Near, [zoom |-> 16, tiles |-> <<{"west"}, {"east"}>>],
            [zoom |-> 18, tiles |-> <<{"east"}>>]}

Idle == [select |-> 0, chart |-> 0, map |-> 0, loss |-> 0, shapes |-> {},
         heat |-> FALSE, waits |-> FALSE, live |-> FALSE]
Boxes == Shapes \ Polygons

Drawing    == [Idle EXCEPT !.select = 4, !.shapes = Shapes, !.waits = TRUE]
Exploring  == [Idle EXCEPT !.select = 2, !.chart = 2, !.shapes = Boxes, !.waits = TRUE]
Hurrying   == [Idle EXCEPT !.select = 2, !.shapes = Boxes]
Browsing   == [Idle EXCEPT !.chart = 2]
Losing     == [Idle EXCEPT !.chart = 1, !.loss = 1]
Travelling == [Idle EXCEPT !.map = 2, !.loss = 1, !.heat = TRUE]
Colouring  == [Idle EXCEPT !.chart = 1, !.heat = TRUE]
Touring    == [Idle EXCEPT !.select = 1, !.chart = 1, !.map = 1, !.shapes = Boxes,
                           !.heat = TRUE, !.waits = TRUE]
Filling    == [Idle EXCEPT !.live = TRUE]

MCPlans == {Drawing, Exploring, Hurrying, Browsing, Losing, Travelling, Colouring, Touring,
            Filling}
OneBrush == {[Idle EXCEPT !.chart = 1, !.waits = TRUE]}
================================================================================
