------------------------------- MODULE TileLayer -------------------------------
(***************************************************************************)
(* The heat map of the web viewer: NanocubeLayer.js, a canvas layer of     *)
(* Leaflet, and the colour scale of main.js.  Each tile on the map keeps   *)
(* the answer to its query and is painted with a scale that follows from   *)
(* all answers since the bounds were reset; as the scale moves with every  *)
(* answer, every answer repaints every tile.                               *)
(*                                                                         *)
(* What Leaflet does is external: when the map is moved it adds the tiles  *)
(* that come into view and keeps the others, and when it is zoomed it      *)
(* starts over with new canvases.  Colours are left out: a picture is the  *)
(* answer it shows, the answers its scale comes from and its resolution.   *)
(***************************************************************************)
EXTENDS Charts

CONSTANTS
    Views,    \* what the map can show: [zoom, tiles], tiles a sequence of regions
    MaxLevel  \* maxlevel of the spatial variable

ASSUME TilesAssumption == \A view \in Views : Len(view.tiles) \in Nat

VARIABLE heat \* the layer, see NoLayer

(***************************************************************************)
(* tiles is the sequence of tiles on the map, each with its region, the    *)
(* query whose answer is its data, or <<>> for null, and its picture, or   *)
(* <<>> when it is blank.  cache has the tile queries of query_cache and   *)
(* how often their answers were processed.  A request knows its canvas by  *)
(* its region, and gone says that this canvas is not on the map any more;  *)
(* newest and outdated are history as for the charts, and late says that   *)
(* the last painting was made for an answer that was not awaited any more. *)
(***************************************************************************)
NoLayer == [zoom |-> 0, coarse |-> 4, tiles |-> <<>>, extents |-> {},
            requests |-> {}, cache |-> [q \in {} |-> 0], outdated |-> {}, late |-> FALSE]

Between(low, n, high) == IF n < low THEN low ELSE IF n > high THEN high ELSE n
LeastOf(a, b) == IF a < b THEN a ELSE b

\* Levels of detail of a tile, drill in drawTile.
Drill(zoom, coarse) == Between(0, LeastOf(MaxLevel - zoom, 8) - coarse, 8)

\* Model.prototype.tileQuery.
TileQuery(h, region, tv, cs) ==
    [show |-> "tile", place |-> region, time |-> AddTime(tv), cats |-> cs,
     zoom |-> h.zoom, drill |-> Drill(h.zoom, h.coarse)]

\* Mutant: the scale is told only of answers that are new to it.
UpdateBounds_New(extents, q) == q \notin extents

\* updateBounds of main.js: the tracker of three sigmas always reports a change.
UpdateBounds(extents, q) == TRUE

\* renderTile of the tiles of some regions.
Painted(h, size, regions) ==
    LET Picture(values) == IF values = <<>> THEN <<>>
                           ELSE [shows |-> values, scale |-> h.extents, size |-> size]
    IN  [h EXCEPT !.tiles = [i \in DOMAIN @ |->
            IF @[i].region \in regions THEN [@[i] EXCEPT !.picture = Picture(h.tiles[i].data)]
            ELSE @[i]]]

RegionsOf(h) == {h.tiles[i].region : i \in DOMAIN h.tiles}

\* The callback of drawTile with the answer to q for the canvas of a region.  An
\* empty answer returns early and leaves the picture as it is.
Drawn(h, region, gone, q) ==
    LET values == IF Answer(q) = {} THEN <<>> ELSE q
        filled == IF gone THEN h
                  ELSE [h EXCEPT !.tiles = [i \in DOMAIN @ |->
                            IF @[i].region = region THEN [@[i] EXCEPT !.data = values] ELSE @[i]]]
        scaled == [filled EXCEPT !.extents = @ \cup {q}]
    IN  IF values = <<>> THEN filled
        ELSE Painted(scaled, q.drill, IF UpdateBounds(h.extents, q) THEN RegionsOf(h)
                                      ELSE IF gone THEN {} ELSE {region})

\* Mutant: values are processed again each time.
Processed_Again(n) == n + 1

\* processValues leaves a value alone that it has processed before.
Processed(n) == IF n > 0 THEN n ELSE n + 1

\* What processJSON does to an answer that was processed n times.
ProcessedJSON(q, n) == IF Answer(q) = {} THEN n ELSE Processed(n)

\* drawTile: from the cache at once, or by a request.
DrawTile(h, region, tv, cs) ==
    LET q == TileQuery(h, region, tv, cs)
    IN  IF q \in DOMAIN h.cache
        THEN [Drawn(h, region, FALSE, q) EXCEPT
                  !.cache[q] = ProcessedJSON(q, @),
                  !.late = IF Answer(q) = {} THEN @ ELSE FALSE,
                  !.requests = {[r EXCEPT !.newest = @ /\ (r.gone \/ r.region # region)] : r \in @},
                  !.outdated = @ \ {region}]
        ELSE [h EXCEPT
                  !.requests = {[r EXCEPT !.newest = @ /\ (r.gone \/ r.region # region)] : r \in @}
                               \cup {[region |-> region, query |-> q, gone |-> FALSE, newest |-> TRUE]}]

\* drawTile of the tiles of the map from the n-th one on, one after the other.
DrawTiles(h, n, tv, cs) ==
    LET after[i \in 0..Len(h.tiles)] ==
            IF i < n THEN h ELSE DrawTile(after[i - 1], h.tiles[i].region, tv, cs)
    IN  after[Len(h.tiles)]

\* redraw: _update resets the bounds, and every tile is drawn again.
TilesRedrawn(h, tv, cs) == DrawTiles([h EXCEPT !.extents = {}], 1, tv, cs)

NewTiles(regions) == [i \in DOMAIN regions |-> [region |-> regions[i], data |-> <<>>, picture |-> <<>>]]

\* The queue of _addTilesFromCenterOut: the regions of a view that are not there yet.
NotYet(regions, there) ==
    LET queue[n \in 0..Len(regions)] ==
            IF n = 0 THEN <<>>
            ELSE IF regions[n] \in there THEN queue[n - 1]
            ELSE Append(queue[n - 1], regions[n])
    IN  queue[Len(regions)]

\* _addTilesFromCenterOut for a view: the bounds are reset, and the tiles that
\* are not on the map yet are added and drawn.
TilesAdded(h, view, tv, cs) ==
    LET new == NotYet(view.tiles, RegionsOf(h))
    IN  DrawTiles([h EXCEPT !.extents = {}, !.tiles = @ \o NewTiles(new)],
                  Len(h.tiles) + 1, tv, cs)

\* The map is moved at the same zoom, also where no tile is new.
Pan(view) ==
    /\ view.zoom = heat.zoom /\ heat.tiles # <<>>
    /\ heat' = TilesAdded(heat, view, timeVar, cats)

Reset(h, zoom) ==
    [h EXCEPT !.zoom = zoom, !.tiles = <<>>, !.outdated = {},
              !.requests = {[r EXCEPT !.gone = TRUE] : r \in @}]

\* The map is zoomed, and the tiles of before are dropped.
Zoom(view) ==
    /\ view.zoom # heat.zoom /\ heat.tiles # <<>>
    /\ heat' = TilesAdded(Reset(heat, view.zoom), view, timeVar, cats)

\* Mutant: the tiles are not drawn again.
Radius_NoRedraw(step) ==
    /\ heat.tiles # <<>>
    /\ heat' = [heat EXCEPT !.coarse = Between(0, @ + step, 8)]

\* radius: one level coarser or finer, and a redraw.
Radius(step) ==
    /\ heat.tiles # <<>>
    /\ heat' = TilesRedrawn([heat EXCEPT !.coarse = Between(0, @ + step, 8)], timeVar, cats)

\* The answer to a tile query: it is drawn, and put in the cache, empty or not.
TileReceive(r) ==
    LET awaited == r.newest /\ ~r.gone
        drawn == Drawn(heat, r.region, r.gone, r.query)
    IN  heat' = [drawn EXCEPT
            !.requests = @ \ {r},
            !.cache = Over(@, One(r.query, ProcessedJSON(r.query, 0))),
            !.late = IF Answer(r.query) = {} THEN @ ELSE ~awaited,
            !.outdated = IF r.gone THEN @ ELSE IF r.newest THEN @ \ {r.region}
                         ELSE @ \cup {r.region}]

TileLose(r) ==
    heat' = [heat EXCEPT !.requests = @ \ {r},
                         !.outdated = IF r.newest /\ ~r.gone THEN @ \cup {r.region} ELSE @]
--------------------------------------------------------------------------------
\* One scale for one map: whatever the order of answers, moves and redraws, all
\* pictures on the map have the same scale and resolution, so that equal colours
\* mean equal values.
SameScale ==
    \A i, j \in DOMAIN heat.tiles :
        LET p == heat.tiles[i].picture  q == heat.tiles[j].picture
        IN  p # <<>> /\ q # <<>> => p.scale = q.scale /\ p.size = q.size

\* A tile whose newest request is answered, and which no older answer has reached
\* after that, has the answer to the query of now, and paints it with as many
\* levels as it has, unless an answer nobody waits for any more has painted the
\* map last.
TilesCurrent ==
    \A i \in DOMAIN heat.tiles :
        LET t == heat.tiles[i]
            q == TileQuery(heat, t.region, timeVar, cats)
        IN  /\ t.region \notin heat.outdated
            /\ \A r \in heat.requests : r.region = t.region => r.gone \/ ~r.newest
            => /\ t.data = IF Answer(q) = {} THEN <<>> ELSE q
               /\ t.data # <<>> /\ ~heat.late =>
                    t.picture.shows = q /\ t.picture.size = Drill(heat.zoom, heat.coarse)

\* Values are processed once ("We're mutating results from the request cache,
\* which is *fine*, except that we don't want to do it more than once.",
\* main.js:4-5), although tiles process what they find in the cache again.
ProcessedOnce ==
    \A q \in DOMAIN heat.cache : heat.cache[q] = IF Answer(q) = {} THEN 0 ELSE 1
================================================================================
