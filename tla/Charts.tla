--------------------------------- MODULE Charts --------------------------------
(***************************************************************************)
(* The model of the web viewer, Model.js, with one temporal and one        *)
(* categorical variable (Variables.js, QueryConstraint.js), the queries it *)
(* builds (nanocube.js) and the charts that show the answers               *)
(* (Timeseries.js, GroupedBarChart.js).                                    *)
(*                                                                         *)
(* A chart has one series per selection on the map, or one for the whole   *)
(* map.  A redraw asks for the series of every chart but the caller's:     *)
(* from the cache at once, or from the server.  Requests are not numbered  *)
(* and none is cancelled: answers come in any order, and one that is lost  *)
(* is not asked for again.  The answer of the server (external) is counted *)
(* over Data, a set of records; colours, the order of bars and the text of *)
(* labels are left out.                                                    *)
(***************************************************************************)
EXTENDS DrawControl, Integers, Sequences

CONSTANTS
    Data,     \* the records of the server: [place, bin, cat]
    Cats,     \* addresses of the categories
    Width,    \* width of the time chart in pixels, which limits its buckets
    Spans     \* the time bins, first and last, that a brush or the axis can span

ASSUME ChartsAssumption == "location" \notin Shapes

VARIABLES
    timeVar,  \* TemporalConstraint: start, nbins, selStart, selBins
    cats,     \* CatConstraint: the selected addresses, in the order of the clicks
    brush,    \* extent of the brush of the time chart, or <<>>
    data      \* what the page shows and has asked for, see NoData

chartVars == <<timeVar, cats, brush, data>>

MaxOf(a, b) == IF a < b THEN b ELSE a
CeilDiv(a, b) == (a + b - 1) \div b
ElementsOf(s) == {s[i] : i \in DOMAIN s}

WholeMap == UNION Geoms   \* a query without a mask
Total == <<"total", "location">>

(***************************************************************************)
(* shown[<<v, k>>] is the series of key k on the chart of v, and           *)
(* shown[Total] the total.  cache is the set of queries whose answers are   *)
(* in query_cache.  A request records the series it is for and, as         *)
(* history, whether it is the newest one for it.  outdated, also history,  *)
(* has the series that do not show the answer to their newest request: it  *)
(* was lost, or it was empty and its handler threw, or an older answer     *)
(* came after it, or the key is gone.                                      *)
(***************************************************************************)
NoData == [shown |-> [s \in {} |-> {}], cache |-> {}, requests |-> {}, outdated |-> {}]
--------------------------------------------------------------------------------
(* Queries and answers. *)

\* Query.prototype.tseries: an interval for one bucket, else a sequence of them.
TSeries(base, bucket, count) ==
    LET from == MaxOf(base, 0)
        width == IF base < 0 THEN MaxOf(bucket + base, 0) ELSE bucket
    IN  IF count > 1 THEN [from |-> from, width |-> width, count |-> count]
                     ELSE [from |-> from, to |-> from + width]

\* TemporalConstraint.add and addSelf, the latter with the start it has clamped.
AddTime(tv) == TSeries(tv.selStart, tv.selBins, 1)
AddSelfTime(tv) ==
    LET binsize == MaxOf(CeilDiv(3 * tv.nbins, 2 * Width), 1)
    IN  TSeries(MaxOf(tv.start, 0), binsize, CeilDiv(tv.nbins, binsize))

\* The keys of res in queries: the selections, or "location" without any.
Keys(sel) == IF DOMAIN sel = {} THEN {"location"} ELSE DOMAIN sel
PlaceOf(sel, k) == IF k \in DOMAIN sel THEN sel[k] ELSE WholeMap

\* Model.prototype.queries for one key, and totalcount_query.  A variable does
\* not constrain its own chart.
Query(v, k, tv, cs, sel) ==
    [show |-> v, place |-> PlaceOf(sel, k),
     time |-> IF v = "time" THEN AddSelfTime(tv) ELSE AddTime(tv),
     cats |-> IF v = "cat" THEN <<>> ELSE cs]

Sequenced(t) == "count" \in DOMAIN t

\* The records a query is about.  The server takes both ends of an interval as
\* part of it (src/src/nc.cc:1939), and the ends of a sequence as those of its
\* buckets.
Covers(t, bin) ==
    IF Sequenced(t) THEN t.from <= bin /\ bin < t.from + t.width * t.count
                    ELSE t.from <= bin /\ bin <= t.to
Matching(q) == {p \in Data : /\ p.place \in q.place /\ Covers(q.time, p.bin)
                             /\ q.cats = <<>> \/ p.cat \in ElementsOf(q.cats)}

\* The child of the result that a record is counted in; a result without layers
\* has its value at the root.
Label(q, p) ==
    IF q.show = "cat" THEN p.cat
    ELSE IF q.show = "time" /\ Sequenced(q.time) THEN (p.bin - q.time.from) \div q.time.width
    ELSE IF q.show = "tile" THEN p.place
    ELSE 0
Answer(q) == {<<Label(q, p), Cardinality({r \in Matching(q) : Label(q, r) = Label(q, p)})>> :
                  p \in Matching(q)}

\* The total has beside it the dates of the selection at the time it comes.
TotalShown(q, tv) == [value |-> Answer(q), from |-> tv.selStart, bins |-> tv.selBins]

\* Buckets of time are dated from the start of the axis at the time they come; a
\* time chart of one bucket shows nothing.
TimeList(q, tv) ==
    IF Sequenced(q.time)
    THEN {<<c[1] * q.time.width + tv.start, c[2]>> : c \in Answer(q)} ELSE {}

\* Categories are no more than displaynumcat, so none is cut off.
CatList(q) == Answer(q)

\* What a series becomes when it is updated with the answer to q.
Series(s, q, tv) ==
    IF s = Total THEN TotalShown(q, tv)
    ELSE IF s[1] = "time" THEN TimeList(q, tv) ELSE CatList(q)
--------------------------------------------------------------------------------
(* Redrawing and answers. *)

\* Building the query of the time chart clamps the start of its axis.
Clamped(tv, vars) == IF "time" \in vars THEN [tv EXCEPT !.start = MaxOf(@, 0)] ELSE tv

\* jsonQuery for every key of the variables vars, and updateInfo, whose query is
\* never cached: what Model.prototype.redraw does but for the heat map.
Redraw(d, tv, cs, sel, vars) ==
    LET asked == vars \X Keys(sel)
        Q(s) == Query(s[1], s[2], tv, cs, sel)
        hits == {s \in asked : Q(s) \in d.cache}
        missed == {[series |-> s, query |-> Q(s), newest |-> TRUE] :
                       s \in (asked \ hits) \cup {Total}}
    IN  [d EXCEPT
            !.shown = Over(@, [s \in hits |-> Series(s, Q(s), Clamped(tv, vars))]),
            !.requests = {[r EXCEPT !.newest = @ /\ r.series \notin asked \cup {Total}] :
                              r \in @} \cup missed,
            !.outdated = @ \ hits]

Variables == {"time", "cat"}

\* The rest of the handlers that spatial_view runs on draw:created, draw:editing,
\* draw:edited and draw:deleted, once the selections are changed.
AfterSelection ==
    /\ timeVar' = Clamped(timeVar, Variables)
    /\ data' = Redraw(data, timeVar, cats, selection', Variables)
    /\ UNCHANGED <<cats, brush>>

\* removeObsolete of the deleted keys on every chart comes first.
AfterRemoval ==
    LET kept == {s \in DOMAIN data.shown : s[2] \notin DOMAIN deleted}
        pruned == [data EXCEPT !.shown = [s \in kept |-> @[s]],
                               !.outdated = {s \in @ : s[2] \notin DOMAIN deleted}]
    IN  /\ timeVar' = Clamped(timeVar, Variables)
        /\ data' = Redraw(pruned, timeVar, cats, selection', Variables)
        /\ UNCHANGED <<cats, brush>>

\* CatConstraint.toggle.
Toggled(cs, c, single) ==
    IF c \in ElementsOf(cs) THEN SelectSeq(cs, LAMBDA x : x # c)
    ELSE IF single THEN <<c>> ELSE Append(cs, c)

\* A click on a bar, with or without the shift key.
ClickBar(c, single) ==
    /\ cats' = Toggled(cats, c, single)
    /\ timeVar' = Clamped(timeVar, Variables)
    /\ data' = Redraw(data, timeVar, cats', selection, Variables)
    /\ UNCHANGED brush

\* TemporalConstraint.setSelection and setRange, with dates as bins.
SetSelection(tv, ext) ==
    IF ext = <<>> THEN [tv EXCEPT !.selStart = tv.start, !.selBins = tv.nbins]
    ELSE [tv EXCEPT !.selStart = ext[1], !.selBins = ext[2] - ext[1] + 1]
SetRange(tv, ext) ==
    [tv EXCEPT !.start = ext[1], !.nbins = ext[2] - ext[1] + 1,
               !.selStart = MaxOf(ext[1], @)]

\* Mutant: the chart that was brushed is redrawn, not the other one.
BrushEnd_Own(ext) ==
    /\ brush' = ext
    /\ timeVar' = SetSelection(timeVar, ext)
    /\ data' = Redraw(data, timeVar', cats, selection, {"time"})
    /\ UNCHANGED cats

\* The end of a brush on the time chart: the other chart is redrawn.
BrushEnd(ext) ==
    /\ brush' = ext
    /\ timeVar' = SetSelection(timeVar, ext)
    /\ data' = Redraw(data, timeVar', cats, selection, {"cat"})
    /\ UNCHANGED cats

\* Mutant: the charts are redrawn before the range is set.
ZoomEnd_Before(ext) ==
    LET selected == SetSelection(timeVar, brush)
    IN  /\ timeVar' = Clamped(SetRange(selected, ext), Variables)
        /\ data' = Redraw(data, selected, cats, selection, Variables)
        /\ UNCHANGED <<cats, brush>>

\* The end of a zoom or a drag of the time axis: brushended with the brush there
\* is, and a redraw, then the new range and another redraw.
ZoomEnd(ext) ==
    LET selected == SetSelection(timeVar, brush)
        ranged == SetRange(selected, ext)
    IN  /\ timeVar' = Clamped(ranged, Variables)
        /\ data' = Redraw(Redraw(data, selected, cats, selection, {"cat"}),
                          ranged, cats, selection, Variables)
        /\ UNCHANGED <<cats, brush>>

\* An answer comes: the handler of the request throws when there is nothing in
\* it to process, else it updates the series and puts the answer in the cache.
\* A total may be empty, and is not cached.
Receive(r) ==
    LET s == r.series
        live == s = Total \/ s[2] \in Keys(selection)
    IN  data' = IF Answer(r.query) = {} /\ s # Total
                THEN [data EXCEPT !.requests = @ \ {r},
                                  !.outdated = IF r.newest THEN @ \cup {s} ELSE @]
                ELSE [data EXCEPT !.requests = @ \ {r},
                                  !.shown = Over(@, One(s, Series(s, r.query, timeVar))),
                                  !.cache = IF s = Total THEN @ ELSE @ \cup {r.query},
                                  !.outdated = IF r.newest /\ live THEN @ \ {s} ELSE @ \cup {s}]

\* A request fails: there is no handler for that.
Lose(r) ==
    data' = [data EXCEPT !.requests = @ \ {r},
                         !.outdated = IF r.newest THEN @ \cup {r.series} ELSE @]

\* The page when the bounds of time are known: TimeVar and CatVar of initVars,
\* its updateInfo, and the first queries of initViews.
Build(first, last) ==
    LET tv == [start |-> first, nbins |-> last - first + 1,
               selStart |-> first, selBins |-> last - first + 1]
    IN  /\ timeVar' = tv
        /\ data' = Redraw(NoData, tv, cats, selection, Variables)
        /\ UNCHANGED <<cats, brush>>

ChartInit ==
    /\ timeVar = [start |-> 0, nbins |-> 0, selStart |-> 0, selBins |-> 0]
    /\ cats = <<>> /\ brush = <<>> /\ data = NoData
--------------------------------------------------------------------------------
Built == timeVar.nbins > 0

Answered(s) == Built /\ s \notin data.outdated /\ \A r \in data.requests : r.series = s => ~r.newest

\* A chart is in step with the page: once its newest request is answered, and no
\* older answer has come after that, a series shows the answer to the query the
\* page would ask now, dated from the axis of now, whatever the redraws of other
\* charts skipped; and the series of a shape goes with the shape.
ChartsCurrent ==
    /\ \A v \in Variables, k \in Keys(selection) : Answered(<<v, k>>) =>
        /\ <<v, k>> \in DOMAIN data.shown
        /\ data.shown[<<v, k>>] = Series(<<v, k>>, Query(v, k, timeVar, cats, selection), timeVar)
    /\ \A s \in DOMAIN data.shown :
        s[2] \in Keys(selection) \cup {"location"} \/ s \in data.outdated

\* The total is the number of the selected records between the dates shown beside
\* it, the start of the selection and its end, selected_bins later.  The interval
\* asked for is longer by a bin, as the server takes both of its ends.
TotalExact ==
    Answered(Total) =>
        LET t == data.shown[Total]
            between == {p \in Data : /\ t.from <= p.bin /\ p.bin < t.from + t.bins
                                     /\ cats = <<>> \/ p.cat \in ElementsOf(cats)}
        IN  t.value = {<<0, n>> : n \in {Cardinality(between)} \ {0}}

\* The total, asked for without a selection and read beside the dates of the
\* moment it is answered, agrees with those dates and with the categories.
TotalCurrent ==
    Answered(Total) =>
        /\ Total \in DOMAIN data.shown
        /\ data.shown[Total] = Series(Total, Query("total", "location", timeVar, cats, NoShapes), timeVar)
================================================================================
