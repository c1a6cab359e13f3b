--------------------------------- MODULE Viewer --------------------------------
(***************************************************************************)
(* The page of the web viewer: it finds the bounds of time, is built when  *)
(* both are there (main.js, init.js), and then follows the user, who draws *)
(* on the map, brushes and clicks on the charts and moves the map, while   *)
(* the answers to its requests come in.  Everything runs in one thread, so *)
(* a step is a whole handler; steps of the user and answers interleave.    *)
(***************************************************************************)
EXTENDS TileLayer, TimeBound

CONSTANTS
    FirstView, \* the one of Views that fitBounds sets, last in initViews
    Plans \* what may happen on a page, a bound: how often the selections are
          \* changed, the charts are used, the map is moved and an answer is
          \* lost, which shapes are drawn, whether there is a heat map, whether
          \* the user waits for all answers before each gesture, and whether
          \* records come in while the page loads

ASSUME ViewerAssumption == FirstView \in Views

VARIABLE left \* what is left of the plan

vars == <<drawVars, boundVars, chartVars, heat, left>>

Spend(what) == left[what] > 0 /\ left' = [left EXCEPT ![what] = @ - 1]

Init ==
    /\ left \in Plans
    /\ DrawInit /\ ChartInit /\ BoundInit
    /\ left.live \/ stored = {p.bin : p \in Data}
    /\ heat = NoLayer

--------------------------------------------------------------------------------
(* Loading. *)

\* An answer to one of the two searches; with the second bound the page is built.
Search(side) ==
    /\ Narrow(side)
    /\ IF Ready'
       THEN /\ Build(start'["min"], start'["max"])
            /\ heat' = IF left.heat THEN TilesAdded([NoLayer EXCEPT !.zoom = FirstView.zoom],
                                                    FirstView, timeVar', cats)
                       ELSE NoLayer
       ELSE UNCHANGED <<chartVars, heat>>
    /\ UNCHANGED <<drawVars, left>>

SearchFails(side) == Fail(side) /\ UNCHANGED <<drawVars, chartVars, heat, left>>

Arrival == left.live /\ (\E bin \in Bins : Insert(bin))
           /\ UNCHANGED <<drawVars, chartVars, heat, left>>
--------------------------------------------------------------------------------
(* The user: one gesture at a time. *)

Acting == Ready /\ (left.waits => data.requests \cup heat.requests = {})
HandsFree == Acting /\ dragging = "none" /\ rubber = "idle"

UseTool == Acting /\ left.select > 0 /\ Handling /\ UNCHANGED <<boundVars, chartVars, heat, left>>

Select ==
    /\ Acting /\ Selecting /\ used' \subseteq left.shapes /\ AfterSelection
    /\ heat' = TilesRedrawn(heat, timeVar', cats)
    /\ Spend("select") /\ UNCHANGED boundVars

Deselect ==
    /\ Acting /\ SaveRemovals /\ AfterRemoval
    /\ heat' = TilesRedrawn(heat, timeVar', cats)
    /\ Spend("select") /\ UNCHANGED boundVars

UseBars ==
    /\ HandsFree /\ \E c \in Cats, single \in BOOLEAN : ClickBar(c, single)
    /\ heat' = TilesRedrawn(heat, timeVar', cats')
    /\ Spend("chart") /\ UNCHANGED <<drawVars, boundVars>>

UseBrush ==
    /\ HandsFree /\ \E ext \in Spans \cup {<<>>} : BrushEnd(ext)
    /\ heat' = TilesRedrawn(heat, timeVar', cats)
    /\ Spend("chart") /\ UNCHANGED <<drawVars, boundVars>>

UseAxis ==
    /\ HandsFree /\ \E ext \in Spans : ZoomEnd(ext)
    /\ heat' = TilesRedrawn(TilesRedrawn(heat, SetSelection(timeVar, brush), cats), timeVar', cats)
    /\ Spend("chart") /\ UNCHANGED <<drawVars, boundVars>>

MoveMap ==
    /\ HandsFree
    /\ (\E view \in Views : Pan(view) \/ Zoom(view)) \/ (\E step \in {-1, 1} : Radius(step))
    /\ Spend("map") /\ UNCHANGED <<drawVars, boundVars, chartVars>>

User == UseTool \/ Select \/ Deselect \/ UseBars \/ UseBrush \/ UseAxis \/ MoveMap
--------------------------------------------------------------------------------
(* The server answers, or an answer is lost. *)

ChartReply ==
    /\ \E r \in data.requests : \/ Receive(r) /\ UNCHANGED left
                                \/ Lose(r) /\ Spend("loss")
    /\ UNCHANGED <<timeVar, cats, brush, heat, drawVars, boundVars>>

TileReply ==
    /\ \E r \in heat.requests : \/ TileReceive(r) /\ UNCHANGED left
                                \/ TileLose(r) /\ Spend("loss")
    /\ UNCHANGED <<chartVars, drawVars, boundVars>>

Reply == ChartReply \/ TileReply

Loading == (\E side \in Sides : Search(side) \/ SearchFails(side)) \/ Arrival

Next == Loading \/ User \/ Reply

\* An answer to a search comes in the end, and the browser runs its handler.
\* Nothing of the kind is assumed of the other answers, nor of the user.
Spec ==
    /\ Init /\ [][Next]_vars
    /\ \A side \in Sides : WF_vars(Search(side) \/ SearchFails(side))
--------------------------------------------------------------------------------
\* The search for the bounds ends, found or failed: the interval of the next
\* request is always shorter, although its buckets are rounded up to cover it,
\* and whatever comes in meanwhile.  Until then there is no page.
Loads == <>(\A side \in Sides : state[side] # "asking")
================================================================================
