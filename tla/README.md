# Nanocube: specification, model checking and proofs

TLA+ modules of Nanocube. Of the server: the in-memory data structure that shares
its summaries, the queries over it, the time series at its leaves, the sliding window of two cubes,
the threads and the cache of masks. Of the web viewer: the drawing tools, the search
for the bounds of time, the model with its queries and charts, the heat map, and the page
that they make up. Files without a directory are in `src/src/` (`.cc`, `.hh`) or
`src/extra/nc_web_viewer/` (`.js`); line numbers are those of this
commit. `PROJECT.json` maps every definition to its lines.

## 1. Inventory

The program `nc` (one build per schema, `nanocube-leaf` launches it) reads binary
records from stdin, keeps them in a nanocube and answers queries over HTTP.

| Component | State | Operations | Correct when |
|---|---|---|---|
| Nanocube (`NanoCube.hh`, `NanoCubeInsert.hh`, `QuadTree.hh`, `QuadTreeNode.hh`, `FlatTree.hh`, `ContentHolder.hh`) | a tree per dimension; each node holds a content (the root of a tree of the next dimension, or a time series), owned (*proper*) or shared | `add`, destruction, reading | every bin of every level answers with its records once; no dangling pointer, one owner each, nothing leaks |
| Time series (`TimeSeries.hh`, `TimeSeriesEntryType.hh`, `small_vector.hh`) | entries (time, cumulative sum) in a vector with a 16-bit size | `add`, `getWindowTotal` | every window's total is exact, in whatever order times come |
| Sliding window (`SlidingCubeManager`, `nc.cc:637-737`) | two slots with a cube and a window id, a parity, the latest time | `at`, `apply` | the two newest windows are served completely, and nothing else |
| Server threads (`nc.cc`, `Server.cc`) | `shared_mutex`, `finish`, `keep_running`, buffer and stream of a batch | insertion from stdin, query, shutdown, joins | replies see whole batches; each record goes into the cube of its time; queries are answered; shutdown ends |
| Mask cache (`cache2.hh`, `list.hh`, `nc.cc:1611`) | map from key to item, doubly linked list | lookup, insertion, enforcing the budget | lookups find the right mask, which stays while it is in use |
| Query evaluation (`NanoCubeQuery.hh`, `NanoCubeTimeQuery.hh`), result trees (`tree_store*`) | the position of a visit, the tree of results | visits of ranges, sequences, dives, masks; accumulation | an answer has each record asked for, once for every time it is, under its labels, and no label without records |
| Wide flat trees (`FlatTreeN.hh`) | as `FlatTree`, wider addresses | as `FlatTree` | as `FlatTree` |
| Decoding, schema, time bins, query language, tiles | none that lasts | pure functions, parsing | layout, arithmetic |
| Polygons (`polycover/`, `geom2d/`) | none that lasts | masks of a polygon | geometry |
| `ncdmp`, reports, launcher, mongoose, registration, older programs | - | - | - |

The web viewer is a page that shows one nanocube and runs in one thread of a browser.

| Component | State | Operations | Correct when |
|---|---|---|---|
| Drawing tools and selections (`leaflet.draw-src.js`, `spatial_view.js`) | two toolbars with their active modes, four handlers, the shapes on the map, backups, shapes clicked away, the constraints of the spatial variable | presses of buttons, clicks, drags, keys, a timer; Save and Cancel | one tool at a time; every shape has its selection; the selection is where the shape is |
| Bounds of time (`nanocube.js:248-302`) | per side the interval of the next request | answers | exact bounds, also if records come in meanwhile; ends |
| Model, queries and charts (`Model.js`, `QueryConstraint.js`, `nanocube.js`, `Timeseries.js`, `GroupedBarChart.js`) | constraints, `query_cache`, requests under way, the series shown | brush, zoom of the axis, clicks on bars, redraws, answers | charts and total settle on what is selected now |
| Heat map (`NanocubeLayer.js`, `main.js`) | tiles with their data and pictures, the scale of colours, the resolution | redraw, panning, zooming, radius, answers | one scale and one resolution on the map; tiles show the query of now |
| Page (`init.js`, `main.js`) | - | loading, composition | - |
| Colours, panels, maps in step, the SDSS page | - | - | - |

How they interact. The inserting thread reads a batch, takes `shared_mutex`, and
for each record asks the sliding window for a cube (`at`) and calls `add` on it,
which threads the record through the trees of all dimensions to time series.
The serving thread polls for a request; a query takes the mutex, resolves its
masks through the cache and has `apply` visit the two cubes. A shutdown
request sets `finish`; the main thread sees it, joins the inserting thread, then
stops the server and joins it.

The viewer asks the server for its schema, then for the two bounds; with the second one it
builds the page (`Viewer!Search`). After that a gesture changes one part of the model
(`DrawControl` the shapes and the spatial constraints, the charts the temporal and the categorical one) and
redraws: queries found in the cache are shown at once, the others are
requests, whose answers update one series or one tile each and may come in any order.

What is hard in the server: sharing and its undoing over a history of insertions; records out of
the order of time, in a series and between windows; discarded records and short
reads inside a batch; a query between batches that replace cubes; a shutdown
while stdin is silent; list and map pointers that are left stale. In the viewer: tools that open and close one another
through events, unsaved changes dropped by the next tool, answers that are
late, lost or empty, redraws that skip the chart they come from, a cache that is changed in place,
a scale that depends on the order of answers. `PROJECT.json`
lists each of these at its line under `hazards`, with the properties that would
catch it.

## 2. Modules

| Module | Models | State and actions |
|---|---|---|
| `Cube` | the promise of a nanocube | `answers`: the bag of records of every bin; `Add`, `Destroy` |
| `NanoCube` | the heap of trees | `heap`: address to object (flat tree, quadtree, quadtree node, leaf) with its holders `[c, proper]`; `Add(a)` is a whole `NanoCubeTemplate::add`, the run of `InsertStep` (a step of a walk down, or of the way up) to its end; `Destroy` the destructors |
| `CubeQuery` | a query over the cube and its result tree; extends `NanoCube` | `query`; `frames`, the nested `Query` objects with the nodes they have still to visit; `stack` and `tree` of the builder; `Ask`, `Descends`, `Visits` (a visit with its push, pop and store), `Leave`, `Respond` |
| `TimeSeries` | one leaf | `entries`; `Add(t, v)` with the four cases of `TimeSeries::add` as disjuncts |
| `TwoWindows` | the promise of the sliding window | `seen`, `served`: after each record what is served is recomputed from all that was seen, so a record cannot be lost in a stuttering step |
| `SlidingCube` | `SlidingCubeManager` | `cubes`, `windows` by slot, `parity`, `latestAt`; one action per branch of `at` |
| `LeafServer` | threads, batches and shutdown | instantiates `SlidingCube` for the manager; an action per step between which another thread may run |
| `MaskCache` | the cache of masks | `items` with their `next` and `prev`, `list`, `map`; `Hit`, `Miss`, `RunQuery` |
| `DrawControl` | toolbars, handlers, shapes and selections | `enabled`, `activeMode`, `shape`, `backup`, `edited`, `deleted`, `selection` and the state of each tool; one action per gesture (`Press`, `Drag`, `SaveEdits`, ...) with all the events it sets off |
| `TimeBound` | the search for the bounds | `start`, `length`, `state` per side, `stored` on the server; `Narrow`, `Fail`, `Insert` |
| `Charts` | model, queries, cache, charts; extends `DrawControl` | `timeVar`, `cats`, `brush`, `data` (series shown, cache, requests); `BrushEnd`, `ZoomEnd`, `ClickBar`, `Receive`, `Lose` |
| `TileLayer` | the heat map; extends `Charts` | `heat` (tiles, scale, requests, cache); `Pan`, `Zoom`, `Radius`, `TileReceive`, `TileLose` |
| `Viewer` | the page: all of the viewer's modules composed | `left`, what remains of a plan; `Search`, gestures with the redraws of charts and tiles, replies |
| `CubeHeapProofs`, `CubeWalkProofs`, `NanoCubeProofs`, `TimeSeriesProofs`, `SlidingCubeProofs`, `LeafServerProofs`, `MaskCacheProofs`, `ViewerProofs` | the theorems; the first two hold the lemmas for the third, the last has all parts of the viewer | |
| `MC...` | bounds for TLC: `MCSchemas` the schemas of cubes, `MCCubes` three of them in one run: that of the constants, with the properties of `NanoCube` (`SchemaTypeOK` is `TypeOK` in each schema, as it depends on the addresses), and two instances | |

Abstractions, by module:

- `NanoCube` keeps all of `prepareProperOutdatedPath` (both kinds of tree), the
  insertion with `updated_contents` and `replaced_nodes`, lazy copies and the
  destructors. The nested calls of `Insert` are the records in `calls`, one for each dimension entered
  (the code's stacks are static, one for each dimension, too). A step of `InsertStep` is an iteration of one of the code's two loops
  or a return, and `Inserted` takes `MaxSteps` of them: an insertion that is not over by then would
  be a `fault`, and none is. A freed address is the first to be allocated again, so a pointer
  that outlives its object meets a new one. A leaf is the bag of its records, so a bin
  that misses a record or counts it twice shows; `TimeSeries` refines the leaf. A failed assert or a
  null dereference sets `fault`, and the behaviour ends. Replacing a node frees it at
  once and frees no content, as `setContentAndChildrenToNull` and `delete` do. The
  list `replaced_nodes` compares addresses, as the code does, also if one was reused.
  The test that a shared content was updated already (`NanoCubeInsert.hh:263`) is
  modelled; in the bounds of `cubes` no answer depends on it, since the walk stops
  at the shared node before such a content is reached.
- `CubeQuery`: the stack of a visit is a set, so the visits come in any order. A range is
  the set of its tiles, a mask or the polygon of a sequence of tiles is the tree of its nodes (how a
  polygon becomes one is geometry), a label is the path of a node, and an anchor with the hint `img` takes the
  path relative to the base. What the builder throws, and a null content that is followed, set
  `fault`. In a cube without records a mask makes the code follow the null root of the quadtree
  (`QuadTree.hh:518`), and any query the null content of a flat tree in the first dimension: such queries are
  not asked. Time is always asked for as a whole; queries and insertions exclude each other, as `LeafServer` shows.
- `TimeSeries` keeps the widths: `Key` is the detour of a time through a signed
  short and a double to an unsigned 64-bit number; `Sized` is the 16-bit size, zero for 65536 entries. (If that entry goes
  in the middle, `add` then runs out of the buffer; the model keeps that the vector is empty.) The sums
  are exact integers (the code's doubles are, for counts).
- `SlidingCube` takes the set of the records as the content of a cube.
- `LeafServer` separates the time, read from slot `i` of the buffer, from the
  record, read from the stream. There is one serving thread: the code asks mongoose
  for `num_threads`, an option mongoose 5.4 does not have, and every request is
  handled inside `mg_poll_server`. Requests that touch no cube are left out, and so
  is a last record that is cut short.
- `DrawControl`: a geometry is a member of `Geoms`, and whether a new side would cross
  another is a choice between two actions. Kept are the order of events in which a tool closes the others
  (`Closed`), the two ways in which it does (a drawing tool puts back what was not saved, an edit tool
  does not), the Escape listener that is one function for both tools and therefore is lost
  (lines 151 and 162), handles that are clicked and change a shape without `draw:editing`
  (1089-1124). The histories `used` and `abandoned` serve the statements only.
- `TimeBound` takes the answer of the server as the set of buckets that hold something.
- `Charts` has one categorical and one temporal variable. An answer is counted over `Data`, with
  the ends of intervals the server uses. A handler that throws on an empty answer
  (`Model.js:315-321`) leaves its series as it is, and a failed request has no handler; the
  history `outdated` records both, so that `ChartsCurrent` says what the code can promise. The
  eviction of the cache deletes nothing (`Model.js:286-288` indexes the list of keys by a key), so there is none.
- `TileLayer`: a picture is the answer it shows, the answers its scale comes from and its resolution. All tiles are painted
  with the resolution of the answer that came last, also a late one (`NanocubeLayer.js:85-88`); the history
  `late` marks that, and `TilesCurrent` excludes it.
- `Viewer`: a step is a whole handler with its redraws. A gesture on a chart or a move of the map
  starts with no drag or rubber band under way: there is one mouse.
- `MaskCache` never uses an address twice, so every use of a deleted item shows as a
  `fault`.

## 3. Runs

| Run | Instance | Shows |
|---|---|---|
| `cubes` | two quadtrees of two levels, three addresses each, four insertions; a quadtree and two flat trees, three insertions; destruction at any point. In a third schema, a quadtree and a flat tree, 150 queries after up to two insertions | exact answers of queries in any order of visits; no fault, no dangling pointer, one owner, no leak, only children shared, exact answers; the heap of the second schema implements `Cube` |
| `cube_third_quad` | a quadtree of two levels as the third dimension | **violation** of `NoFault` |
| `series` | times 0 to 3, values -1, 1, 3, five records | exact windows, no entry lost |
| `series_u2` | times 0 to 7, the upper half too large for the signed type | **violation** of `WindowExact` |
| `sliding` | nine records in five windows, any order | slots, windows and `TwoWindows` |
| `leaf` | sliding window one by one (records arbitrarily late), sliding window in batches of three (at most one window late), plain cube with a maximum of three | content, replies, maximum, and liveness |
| `leaf_late` | batches of two, records three windows late | **violation** of `ContentExact` |
| `leaf_shutdown` | one record | **violation** of `ShutdownEnds` |
| `masks` | three masks and a region, six computations, budget 4 | order of use, lookups, no double computation |
| `masks_budget` | the same | **violation** of `ReducedToBudget` |
| `viewer` | two shapes, four records in two places, four bins and two categories, nine plans | tools exclude each other, shapes and selections agree, timers stay in their tool, charts, total and tiles are in step with the page, one scale, values processed once, exact bounds, loading ends |
| `viewer_interval` | one brush | **violation** of `TotalExact` |

Bounds, and why they are enough. Sharing needs a second child to appear below a
shared node: with three addresses per quadtree, two with a common prefix, four
insertions reach every case of the walk (creation of a path, addition of a child with and
without a parallel node, a shared link that is up to date, replaced, or
copied), in a first and in a later dimension. In a series, five records over four times fill
the middle, the ends and the same entry twice. The queries combine six targets of the quadtree (the root, all tiles of a level, the
tiles below a base, a range across two parents, a range that holds all of one tile and half of the next, a mask
with leaves at two depths) with five of the flat tree (the whole, its labels, one label, a range, addresses with
a repetition), each anchored or not. Two records are enough for a node to be visited twice, for a branch that
stays empty next to one that does not, and for contents shared between the nodes visited; a third one gives
no new kind of step. Nine records of five windows reach each branch of `at` in
succession. Budget 4 is exceeded by the fifth of six masks, so the cache is also used
after it was emptied. `MaxAdds`, `MaxRecords`, `MaxItems` and the sets of records bound
every run; `MaxSteps`, 50, is more than an insertion takes there (`NoFault`); as the inputs end, and as the process does, the runs do not check for
deadlock. Liveness takes its place in `leaf`.

In `viewer` a plan (`MCViewer!MCPlans`) says how often each kind of gesture happens and which answers
may be lost; every plan leaves all orders of its gestures and answers open. They divide what would be too much
in one instance:

| Plan | Gestures | Answers |
|---|---|---|
| `Drawing` | any use of the tools, with a polygon and a rectangle, four changes of the selections | all in before each gesture |
| `Exploring` | two changes of the selections with a rectangle, two uses of the charts | all in before each gesture |
| `Hurrying` | two changes of the selections | any order, at any time |
| `Browsing` | two uses of the charts | any order, at any time |
| `Losing` | one use of a chart | one is lost |
| `Travelling` | two moves of the map, with its heat map | one is lost |
| `Colouring` | one use of a chart, with the heat map | any order |
| `Touring` | one of each, with the heat map | all in before each gesture |
| `Filling` | loading only, while records come in | |

A shape is created, edited, deleted and put back within four changes and any number of presses; two redraws are
what it takes for an old answer to come after a newer one, and the third kind of
query, the total, is asked for by each of them. The views have one tile, a second one beside it, and
another zoom, so tiles are added, kept and dropped. The records make one place have a bin the other one has too and
one it has not, so that empty answers occur. In the search, three buckets per request and a
horizon of 32 take four rounds, with bins at 1, 2, in the middle and at the horizon.

Fairness of the page (`Viewer!Spec`): weak fairness of an answer to each of the two searches. Nothing else is
assumed: charts and tiles need not be answered, nor need the user act. For that reason the properties of charts
and tiles are about the states in which the newest request was answered.

Fairness of the server (`LeafServer!Fairness`). Threads that can run do (weak fairness of
`Inserting`, `Serving`, `Ending`): they are system threads. That a waiting thread gets
`shared_mutex` although the inserting thread comes back for it time and again is
strong fairness of `LockBatch`, `LockQuery` and `LockShutdown`: this is an
assumption on `boost::shared_mutex` (an exclusive waiter blocks newcomers), on which
the code relies too: `nc.cc:1257`, "if there is a query it should wake up". No fairness
is assumed of `Read`, `CloseStdin`, `AskQuery`, `AskShutdown` (`Poll` may find nothing):
nobody has to send anything. `finish` and `keep_running` are plain booleans; the model
assumes the threads that poll them see them.

What the models found, each a run that expects a violation:

1. `cube_third_quad`: with a quadtree of more than one level as the third dimension, the
   second insertion can meet a shared link without a parallel structure, which
   `QuadTree.hh:764-767` asserts cannot be. `NanoCubeInsert.hh:297` passes a null parallel content
   for the deepest entry of a stack, although the content entered may be a lazy copy
   with shared links.
   In such schemas answers can also be wrong with no assert failing: `tlc -config MCNanoCube_wrong_share.cfg MCNanoCube.tla`,
   beside the runs, finds in seconds four records after which, with dimensions `c1`, `c1` and a quadtree,
   the bin of all records at `0` misses one. A link to a node in `replaced_nodes` is re-pointed to the parallel node, as the comment at `QuadTree.hh:782-784`
   takes the node replaced to be the parallel one before its update. But that list is one for all trees
   of an insertion, and the summary of a flat tree, once a lazy copy of another summary (4th record: of that of the records at `x`), is updated
   with the content of a *link* (those at `x`, `y`) as its parallel, which has a part of the records only.
2. `series_u2`: times above 32767 read as negative (`TimeSeriesEntryType.hh:216`), though
   the type is documented as unsigned.
   Such times also make too many entries: `tlc -config MCTimeSeries_full.cfg MCTimeSeries.tla`, beside the runs, has records at as many times as
   the size tag has values, 65536 in the code, all that a `u2` can name. The last one wraps the size of the vector to zero
   (`small_vector.hh:173`; the assert that would catch it is a comment, line 181), so the series forgets all it held. Times
   below 32768 cannot get there (`EntriesKept`: `series` checks it, `NoTimeLost` proves it).
3. `leaf_late`: a discarded record is not consumed from its batch (`nc.cc:1233`), so it is
   inserted into the cube of its successor and the last record of the batch is lost.
4. `leaf_shutdown`: an authorized shutdown waits for the end of stdin (`nc.cc:990`, `1201`).
5. `masks_budget`: enforcing the budget empties the cache (`nc.cc:1615`), including masks
   in use. For that reason `RecencyOrder` is stated for the time before that; after it the
   list holds a pointer to a deleted item.

6. `viewer_interval`: the viewer asks for `interval(base, base+bucket)` (`nanocube.js:131-132`) and the server takes both
   ends as inside (`nc.cc:1940`, `API.md:147`), so total, bars and heat map count one bin more than the dates
   beside the total say (`Model.js:443-461`).

Also, `--threads` (`nc.cc:258`) has no effect, as said above. Changes that are not saved are dropped by
the edit tool when the remove tool is opened and the other way round (`leaflet.draw-src.js:1983`, `2353`): shapes moved stay
moved and shapes clicked away stay off the map, with their selections left.

What properties of the viewer except. Three histories mark states in which the code does go wrong, and the properties say nothing of these:

- `abandoned` (`DrawControl`): shapes whose unsaved changes another tool dropped, as above, are excepted by `MapMatchesModel` until they are
  saved by a later tool. It shows that no other shape drifts from its selection.
- `outdated` (`Charts`, `TileLayer`): series and tiles reached by an older answer after the newest, or whose newest answer was
  lost or, for a series, empty, are excepted by `ChartsCurrent`, `TotalCurrent` and `TilesCurrent`; so is what still waits for
  its newest answer. While an older answer shows, the total and the dates beside it may belong to two selections (`Model.js:448`). Shown is that nothing else is ever behind, and
  that the answer to the newest request brings all in step.
- `late` (`TileLayer`): pictures of the time after a late answer, which paints all tiles with its own resolution, are excepted by
  `TilesCurrent` and not by `SameScale`: they are painted alike, with the wrong number of levels.

In the server, that a query waits for ever because the inserting thread takes the mutex again at once is excluded by assumption (strong fairness of
the lock), not shown. And a region's mask is computed for every query, as it is looked up by the literal `"key"` (`nc.cc:1882`): that is how the code
is, `ComputedOnce` excepts regions, and shown is only that a lookup finds the newest mask of its key (`FindsOwnMask`).

## 4. Proofs

`NanoCubeProofs` proves ownership, sharing and one half of the answers in the cube, for every number, kind and order of dimensions, every set of addresses and every
number of records: `TypeCorrect`, `PointersSafe`, `OwnedOnce`, `OnlyChildrenShared`, `NeverOvercounts`, `AllFreed`, and `DestroyedCleanly`, that a destruction leaves nothing and frees nothing
twice. `DimsAssumption` says what a schema is; TLC evaluates it for the schemas of `MCCubes`. Six of the theorems are stated until an assert has failed: one can, as `cube_third_quad` shows, and
the process is then gone. Nothing else is assumed, so the theorems hold in the schemas of that run, too, up to the failure.

The heap alone does not tell why a pointer is right. So the invariant, `Whole`, says that there is a
map `P` from addresses to *spots*: each node has a place, the bin of its tree and its path in it, and each content a bin.
No two objects have the same spot; a proper pointer leads to exactly the object of its place, and a shared one to the object of a bin within (`Within`); all but the root have an owner (`Sound`).
From this `OneOwner` follows as an object's spot tells who may own it, and from the order of spots that what is owned leads up to the root (`NoOrphans`).

Within an insertion that is not enough: a node replaced by a copy with one more child is freed at once, while coarser summaries still share it. `Going` therefore
allows pointers to what is in `replaced_nodes`, but only at places that are *ahead*: those the insertion is still to come to, by the
stacks of all its calls (`Comes`), on the path of its record (`Covers`). Each step is then shown to lead from `Going` to `Going`: a walk
that descends, stops, copies a shared node or makes a new path (`CubeWalkProofs`), the way up of either kind of tree, the entry of the next dimension, and the return (`StepGoes`).
Most of the work is in two questions. That a step takes a place off what is ahead only after the pointer there was made right: this is where the test of `replaced_nodes`
is needed, and that the parallel node is that of a bin strictly finer (`Finer`), hence not on the record's way
any more. And that nothing new gets a spot that is taken, and nothing replaced keeps an owner: a node or content is made only where none is, because what it would be is still shared there.
In the end nothing is ahead, so no such pointer is left (`Through`, `AddSound`).

`OnlyChildrenShared` is of the same kind: it holds between insertions and fails within one, for a node that got its first child
is without a content until the insertion comes back to it, and one whose only child was copied or got a content of its own still shares the old one. `Settled` therefore exempts what is *due* (`Due`):
the places some call comes by on its way up, among them all that it has made or changed below. Being due is not being ahead, for a call that still walks will come by at places that it has not reached yet.
A step of the walk adds and changes objects only at places due (`Leads`, `Kept`), and a step of the way up takes just one place off, whose
content it has set to that of the only child (`SharedBelow`), whose children are two, or which is of a content made there (`RiseSettled`); the record is then sent into that content, which makes
all in it due to the new call (`DueOrSent`, `LeadsSettled`). What is not due is not disturbed by what happens below it because with a node all that it may be a child of is due (`KeptShares`, `Upwards`). At the end nothing is due (`Settles`).

`NeverOvercounts` is the half of `AnswersExact` that holds in every schema: no bin answers with a record of another bin or with one more often than
it was inserted (`NoOvercount`; where the answers are wrong, as in the run of `MCNanoCube_wrong_share.cfg`, records are missing).
It needs what the time series hold in the invariant. Between insertions each has, of every record, no more than were
inserted, and none outside the bin of its spot (`Counts`). Within an insertion a time series may have one more of the record
under way, but only if it is in `updated_contents` and the insertion does not come to its bin again (`Tally`): `Coming` are the bins that some
call still has on its way up, and a bin is taken off it before the record is sent there (`Sending`, `LeafTally`), so none is sent it twice.
The test of `updated_contents` is needed for this, too: a time series copied to be owned (`OwnContent`) was not updated, so the copy does not start with the record (`OwnTally`).
A query follows shared pointers to objects of smaller bins only (`FoundNode`, `FoundContent`, `FoundLeaf`), and what is in these is in the bin asked for.

For the destruction (`DeletedIs`), what is left of the heap is owned or to be deleted, never both; every step frees an object, so
there are enough of them.

`TimeSeriesProofs` proves, for every width, every set of times and values and every number of
records, `TypeCorrect`: what `add` leaves is a vector of entries that the tag can count, also with times that read as negative
(`AddForms`: every case of `add` inserts somewhere or raises the sums from some entry on, and a search for a time before the last entry's ends at an entry).
From `TimesFit` (the times are below `HalfRange`, what the signed short holds; `series_u2` and `MCTimeSeries_full.cfg` show it is needed) it proves
`AlwaysSorted`, `WindowsExact`, `NoTimeLost` and the invariant they follow from (`Inductive`). `Sorted` and `WindowExact` are not inductive:
a window is exact because each entry's sum is the total of everything before it, so `IInv`
says that for every bound `b` the sum at the place where a search for `b` ends is the
history's total before `b` (`Cumulative`). Its other part, `Gaps`, says that entries are as far
apart in time as in position. It gives the order, and with `InRange` the bound on the
number of entries (`FewEntries`): without it an insertion could wrap the 16-bit size, and with it `EntriesKept` is proved.
The lemmas go from the search (`LowerBoundIs`: it exists and is unique) to what
`AccumFrom` and `InsertEntry` keep, to `AddKeepsIInv` with a step per case of `add`.

`SlidingCubeProofs` proves, for every set of records and every window size, that the five
invariants hold (`TypeCorrect`, `AppliesToCubes`, `CubesComplete`, `SlotsAdjacent`,
`JumpsDropNothing`), and `Refinement`: `SlidingCube` implements `TwoWindows`. The inductive invariant is their
conjunction: completeness of a slot needs that its window was never given up while records of it
could come, hence that the current window is the newest record's (`Adjacent`), and a
`NewPrevious` slot is complete only because no record of its window was received before (`NothingMissed`).
For the refinement, `ServedIs` and `ServedIsRecent` show that the served records are the recent ones of
those seen, in every state of `IInv`; a step of `Insert` is then the abstract one.

`LeafServerProofs` proves, for every set of options and every stream of records, `TypeCorrect`, `RepliesAreConsistent` and
`NeverAboveMaximum`. `ServerInv` says that who holds `shared_mutex` is told by where the two
threads are (`Exclusion`), that what a query has counted so far is what visiting the same cubes now would count (`AnswerSoFar`), and that
`insertedPoints` is at least the number of records held and below the maximum while the loop is not done (`PointsCounted`).
Its second part proves `ContentsExact` under `Aligned`: with a sliding window, records are inserted one by one or are late by one
window at most. `StreamInv` says that the time in a slot of the buffer is that of the record the stream is at, in spite
of the older times left behind a short read, and that `seen` is what was read up to the slot. Then a step of the loop is `SlidingCube!Insert` of
that record, or adds nothing for a time that is not new (`AddNothing`), so the invariant of the manager holds and
`ServedIsRecent` gives the content. Without `Aligned` the theorem is false: run `leaf_late`.

`ViewerProofs` proves of the drawing control, for every set of shapes and geometries, from `ShapesAssumption` (polygons are shapes,
"none" is no shape): `TypeCorrect`, `AlwaysOneTool`, `TimersNeedTool`, `ShapesSelect` and `MapsMatchModel`. The invariant
has two parts, as most steps disturb only one. `ToolInv` adds to `OneTool` that a rectangle being drawn and a
handle being dragged belong to an open tool (`GestureOfTool`). `ShapeInv` adds that what is put aside is put aside only while its
tool is active (`UnsavedOfTool`), and that the copies are right: of the shapes not edited in the backup, and of the
shapes clicked away (`CopiesRight`). Without it `PutBack` could bring back a shape in another place than its selection.

It proves of the search for the bounds `BoundsAreExact` and `FailsOnNothing` for every horizon and number of buckets above two
(`BoundAssumption`). The invariant `BInv` says that no record that was there at load
is on the wrong side of the interval of the next request (`NothingMissed`), and that, if there was one, some record is in it (`SomethingLeft`), so that
no answer is empty. The arithmetic is in the lemmas about `BinSize`: buckets cover the interval and its
end and are shorter than it.

`PageRefines` carries this over to the page: it shows that the page is a drawing control and
a search, whatever else happens between their steps, so their theorems hold there (`PageHasOneTool`, `PageShapesSelect`,
`PageMapMatchesModel`, `PageTimersNeedTool`, `PageBoundsExact`). `PageTotalCurrent` proves that the total, once answered, is that of the
selection of now, for all records, whatever answers were late or lost: by `TInv`, the newest
request for it, while there is one, asks for the total of now, since every redraw asks again. It needs `ChartsAssumption`
(no shape has the id "location", the key of the whole map).

`MaskCacheProofs` proves, for every set of keys and every budget, `TypeCorrect`, `OrderedByUse`, `LookupsFindTheirMask` and `MasksComputedOnce`.
The pointers of `list.hh` are not what a textbook list keeps: `remove` leaves the first item pointing back and the last one pointing on. So `IInv`
asks only for the pointers that are followed: `Linked(c, s)` says that the items `s`, in order of use, are linked both ways *between* neighbours,
whatever the first one's `prev` and the last one's `next` are; the one exception, an item alone in the list, is in `LastHasNoNext`. `UnlinkIs` and `PushFrontIs` say
that the two operations remove and prepend an element of `s`, in each position. After the budget was enforced, `Linked` fails for good
(the list keeps a pointer to a deleted item), and the invariant has a second half, `Dangling`: nothing is in the cache, and the next use of the list is a fault. That
a loop empties the list and walks reach all of it are statements about recursive functions: they are proved by
induction on a set of indices, which is well-founded (`SetInduction`), so that no theorem with an operator as a parameter is needed.

`ViewerProofs` also proves, on the page and for all records, views, shapes and categories, that the charts and the heat map are in step with it.

`PageChartsCurrent`: by `CInv`, the newest request for a series asks what the page would ask now, and a series without one shows the answer to
that with the dates of now, or is marked as outdated by an answer that was empty or lost. A redraw asks for all series of the charts it is about (`AsksOrShows`).
What makes the invariant hold is what the redraws leave out: the brush redraws the bars and not the time chart, whose query and dates follow the axis and not the
selection (`BarsRedraw`); clamping the axis a second time changes nothing (`ClampedQuery`); and the series of a shape that was deleted goes off the charts,
with its requests obsolete (`PrunedIs`).

`PageHasOneScale`, `PageTilesCurrent` and `PageProcessesOnce`: a redraw goes from tile to tile, and a tile found in the cache moves the scale and paints *all*
tiles, also those not yet drawn. So the invariant, `Drawing(h, D)`, is that of the loop: for the regions `D` that were drawn, or were right before and are left alone,
the newest request asks what the page would ask now, and a tile that waits for nothing has the right answer; all pictures have one scale and one size; all cached answers were processed once.
`DrawTileKeeps` adds a tile to `D`, `DrawTilesKeep` runs the loop (`D` is empty when all tiles are redrawn, and what was there when the map is panned, `TilesAddedKeep`),
and between handlers `HInv` has `D` as all regions. A request whose canvas went off the map is kept apart from one for a new canvas of the same region (`gone`).

The assumptions on constants are the widths of the code's types, as inequalities, that a window has a positive size, that a cube is not a null pointer, that a batch fits the maximum
(`RangesAssumption`, `ServerAssumption`, the one of `SlidingCube`) and that a view is a sequence of tiles (`TilesAssumption`); TLC evaluates them in the runs.

Only model-checked: of `NanoCube`, that in the schemas of `cubes` no assert fails (`NoFault`, which is false of others) and that the answers miss nothing (`AnswersExact`, in the run `QuadsExact`, with the
refinement of `Cube`; false of the schema of `MCNanoCube_wrong_share.cfg`, so a theorem has to be about fewer schemas): they need that each summary has all the records of what it is shared for, not only none too many; of `CubeQuery`, `QueriesExact`, whose queries are trees of targets; and all liveness: the ending of the search (`Loads`), that queries are answered and that the server ends with stdin.

## 5. Not modelled

`FlatTreeN`, targets on time, one query over both cubes of a sliding window, decoding and time bins of the server
are planned (below). Out of TLC's reach or without state of their own: polygon geometry and projections on
floating point, parsing of the query language and of headers, `ncdmp`, reports, the launcher,
registration, mongoose. Not built or not reached: `Master.cc`, `ncserve.cc`, `nanocube-sliding.cc`,
`nanocube-distribute.cc`, `nanocube-daemon.cc`, serialization, insertion over TCP (compiled
out at `nc.cc:1287`).

Of the viewer: tools of Leaflet.draw the page does not offer (polyline, circle, marker); tooltips, guide
lines and cursors; the number of corners in a popup (`updatePolygonCount`); the order of bars and the text of
labels; colours, panels, maps kept in step and the SDSS page, which are tables, arithmetic on floating point or
layout. Leaflet, D3 and jQuery are external: modelled is what the page's code hears from them.

## 6. Plan

Done, in this order: `Cube` and `NanoCube`, later `CubeQuery` and the proofs of ownership; `TimeSeries` and its proofs; `TwoWindows`, `SlidingCube` and
its proofs; `LeafServer` on top of it and its proofs; `MaskCache`; `DrawControl`, `TimeBound`, `Charts`, `TileLayer` and `Viewer`, and
their proofs.

Next, the most important first:

1. `TimeQuery`: series of windows over `TimeSeries`, with the arithmetic of bins. As a last
   dimension of `CubeQuery`, and over the two cubes of `SlidingCube`.
2. `FlatTreeN` as a third kind of tree in `NanoCube`.
3. Labeled trees of masks: `trim`, codes.
4. Theorems about `NanoCube`: that the answers miss nothing, from the invariant of `NeverOvercounts` with a lower bound beside the upper, for
   schemas without a quadtree of several levels after two other dimensions.
