------------------------------ MODULE DrawControl ------------------------------
(***************************************************************************)
(* The drawing and editing tools over the map of the web viewer, and the   *)
(* selections they make.  lib/leaflet.draw/leaflet.draw-src.js has two     *)
(* toolbars, each with two handlers; spatial_view.js listens to the events *)
(* of their handlers and keeps, in the spatial variable of the model, one  *)
(* constraint per shape: every chart is asked for once per constraint.     *)
(* The user clicks, drags and presses keys in any order; the one timer is  *)
(* the one that takes an error message away.                               *)
(*                                                                         *)
(* A geometry is a member of Geoms.  Whether the outline being drawn would *)
(* cross itself is up to the user, so it is a choice between two actions.  *)
(* Tooltips, markers, colours, guide lines and cursors are left out.       *)
(***************************************************************************)
EXTENDS Naturals, FiniteSets

CONSTANTS
    Shapes,   \* the ids of the shapes that are drawn
    Polygons, \* those that are drawn with the polygon tool
    Geoms     \* where a shape can be

ASSUME ShapesAssumption == Polygons \subseteq Shapes /\ "none" \notin Shapes

DrawTools == {"polygon", "rectangle"}
EditTools == {"edit", "remove"}
Tools == DrawTools \cup EditTools
Bars == {"draw", "edit"}
BarOf(tool) == IF tool \in DrawTools THEN "draw" ELSE "edit"

VARIABLES
    enabled,     \* the handlers that are enabled
    activeMode,  \* the active handler of each toolbar
    shape,       \* the shapes of drawnItems, the group on the map, and where they are
    backup,      \* _uneditedLayerProps: the shapes as they were when editing began
    edited,      \* the shapes whose flag "edited" is set
    deleted,     \* _deletedLayers: shapes taken off the map and not yet saved
    selection,   \* the constraints of the spatial variable: boundary of each key
    corners,     \* corners of the polygon being drawn, 3 for three or more
    errorShown, errorTimer, \* of the polygon tool
    rubber,      \* the rectangle being drawn: "idle", "pressed" or "drawn"
    escape,      \* the handler the Escape key of the map cancels, if any
    dragging,    \* the shape whose handle is being dragged, or "none"
    used,        \* history: every id given to a shape
    abandoned    \* history: shapes whose unsaved change was dropped, not undone

drawVars == <<enabled, activeMode, shape, backup, edited, deleted, selection, corners,
              errorShown, errorTimer, rubber, escape, dragging, used, abandoned>>

NoShapes == [id \in {} |-> CHOOSE g \in Geoms : TRUE]
Partial(D, R) == UNION {[d -> R] : d \in SUBSET D}
Over(f, g) == [id \in DOMAIN f \cup DOMAIN g |-> IF id \in DOMAIN g THEN g[id] ELSE f[id]]
One(id, g) == [i \in {id} |-> g]
Without(f, ids) == [id \in DOMAIN f \ ids |-> f[id]]

\* The control as addDraw leaves it: two toolbars, no tool open, no shape.
DrawInit ==
    /\ enabled = {} /\ activeMode = [bar \in Bars |-> "none"]
    /\ shape = NoShapes /\ backup = NoShapes /\ deleted = NoShapes
    /\ edited = {} /\ selection = NoShapes
    /\ corners = 0 /\ errorShown = FALSE /\ errorTimer = FALSE /\ rubber = "idle"
    /\ escape = {} /\ dragging = "none" /\ used = {} /\ abandoned = {}
--------------------------------------------------------------------------------
\* Mutant: a tool that is closed leaves the timer of its error message running.
Hooks_KeepsTimer(on, off) ==
    /\ enabled' = (enabled \cup on) \ off
    /\ corners' = IF "polygon" \in on \cup off THEN 0 ELSE corners
    /\ errorTimer' = errorTimer
    /\ rubber' = IF "rectangle" \in off THEN "idle" ELSE rubber
    /\ escape' = IF off \cap DrawTools # {} THEN {}
                 ELSE IF escape = {} THEN on \cap DrawTools ELSE escape

(***************************************************************************)
(* What enabling the handlers on and disabling the handlers off does to    *)
(* the tools themselves: addHooks and removeHooks.  The listener of the    *)
(* Escape key is one function of the prototype, and Leaflet keeps one      *)
(* listener per function and element: a tool opened while the other one is *)
(* open adds none, and loses the one there is when the other is closed.    *)
(***************************************************************************)
Hooks(on, off) ==
    /\ enabled' = (enabled \cup on) \ off
    /\ corners' = IF "polygon" \in on \cup off THEN 0 ELSE corners
    /\ errorTimer' = (errorTimer /\ "polygon" \notin off)
    /\ rubber' = IF "rectangle" \in off THEN "idle" ELSE rubber
    /\ escape' = IF off \cap DrawTools # {} THEN {}
                 ELSE IF escape = {} THEN on \cap DrawTools ELSE escape

\* Mutant: shapes that were clicked away are not put back.
PutBack_Edits == /\ shape' = IF activeMode["edit"] = "edit" THEN Over(shape, backup) ELSE shape
                 /\ backup' = NoShapes

\* What the press of a drawing tool does to the shapes: EditToolbar.disable puts
\* back what was not saved.
PutBack == /\ shape' = IF activeMode["edit"] = "edit" THEN Over(shape, backup)
                       ELSE IF activeMode["edit"] = "remove" THEN Over(shape, deleted)
                       ELSE shape
           /\ backup' = NoShapes

\* The press of an edit tool disables the other one without that.
BeginEditing == shape' = shape /\ backup' = Over(shape, backup)

BeginRemoving == shape' = shape /\ backup' = NoShapes

\* Mutant: the toolbars do not hear of each other.
Closed_OwnBar(tool) == {activeMode[BarOf(tool)]} \cap enabled

\* The handlers that are disabled when the tool is opened: _handlerActivated
\* disables the one of the same bar, _toolbarEnabled that of the other bar.
Closed(tool) == {activeMode[bar] : bar \in Bars} \cap enabled

\* A press of the button of a tool.
Press(tool) ==
    /\ dragging = "none" /\ tool \notin enabled
    /\ tool \in EditTools => DOMAIN shape # {}
    /\ Hooks({tool}, Closed(tool))
    /\ activeMode' = [bar \in Bars |-> IF bar = BarOf(tool) THEN tool ELSE "none"]
    /\ \/ tool \in DrawTools /\ PutBack
       \/ tool = "edit" /\ BeginEditing
       \/ tool = "remove" /\ BeginRemoving
    /\ edited' = {} /\ deleted' = NoShapes
    /\ abandoned' = abandoned \cup edited
                    \cup (IF tool = "edit" THEN DOMAIN deleted ELSE {})
    /\ UNCHANGED <<selection, errorShown, dragging, used>>

\* The handler is disabled and its toolbar has no active mode any more.
CloseDrawing(tool) ==
    /\ Hooks({}, {tool})
    /\ activeMode' = [activeMode EXCEPT !["draw"] = "none"]

\* The Cancel button of the drawing toolbar, DrawToolbar.disable.
Cancel ==
    /\ activeMode["draw"] # "none"
    /\ CloseDrawing(activeMode["draw"])
    /\ UNCHANGED <<shape, backup, edited, deleted, selection, errorShown, dragging,
                   used, abandoned>>

\* The Escape key, _cancelDrawing of the handler that has the listener.
Escape ==
    \E tool \in escape \cap enabled :
        /\ CloseDrawing(tool)
        /\ UNCHANGED <<shape, backup, edited, deleted, selection, errorShown, dragging,
                       used, abandoned>>
--------------------------------------------------------------------------------
(* The polygon tool. *)

sameShapes == <<shape, backup, edited, deleted, selection, dragging, used, abandoned>>
sameTools == <<enabled, activeMode, rubber, escape>>

\* A click on the map that adds a corner; an error message goes away.
PlaceCorner ==
    /\ "polygon" \in enabled
    /\ corners' = IF corners < 3 THEN corners + 1 ELSE 3
    /\ errorShown' = FALSE
    /\ errorTimer' = (errorTimer /\ ~errorShown)
    /\ UNCHANGED <<sameShapes, sameTools>>

ShowError == errorShown' = TRUE /\ errorTimer' = TRUE

\* A click where the new side would cross another one, which takes three corners
\* (the polygon is drawn with allowIntersection: false).
RefuseCorner ==
    /\ "polygon" \in enabled /\ corners = 3
    /\ ShowError /\ UNCHANGED <<sameShapes, sameTools, corners>>

\* A click on the first corner, or a double click on the last one, when the
\* polygon has too few corners or its last side would cross another one.
RefuseFinish ==
    /\ "polygon" \in enabled /\ corners > 0
    /\ ShowError /\ UNCHANGED <<sameShapes, sameTools, corners>>

\* The timer of the message, _hideErrorTooltip.
HideError ==
    /\ errorTimer
    /\ errorShown' = FALSE /\ errorTimer' = FALSE
    /\ UNCHANGED <<sameShapes, sameTools, corners>>

\* draw:created and drawCreated: the shape comes on the map and gets a selection,
\* and the tool is disabled.
Create(id, g, tool) ==
    /\ id \notin used /\ used' = used \cup {id}
    /\ shape' = Over(shape, One(id, g))
    /\ selection' = Over(selection, One(id, g))
    /\ CloseDrawing(tool)
    /\ UNCHANGED <<backup, edited, deleted, errorShown, dragging, abandoned>>

FinishPolygon(id, g) ==
    /\ "polygon" \in enabled /\ corners = 3 /\ id \in Polygons
    /\ Create(id, g, "polygon")
--------------------------------------------------------------------------------
(* The rectangle tool. *)

MouseDown ==
    /\ "rectangle" \in enabled /\ rubber = "idle" /\ rubber' = "pressed"
    /\ UNCHANGED <<sameShapes, enabled, activeMode, corners, errorShown, errorTimer, escape>>

MouseMove ==
    /\ "rectangle" \in enabled /\ rubber = "pressed" /\ rubber' = "drawn"
    /\ UNCHANGED <<sameShapes, enabled, activeMode, corners, errorShown, errorTimer, escape>>

\* The button is let go before the mouse has moved: no shape, and the tool closes.
MouseUp ==
    /\ rubber = "pressed"
    /\ CloseDrawing("rectangle")
    /\ UNCHANGED <<sameShapes, errorShown>>

FinishRectangle(id, g) ==
    /\ rubber = "drawn" /\ id \in Shapes \ Polygons
    /\ Create(id, g, "rectangle")
--------------------------------------------------------------------------------
(* The edit tools. *)

unchangedByEdit == <<enabled, activeMode, backup, deleted, corners, errorShown, errorTimer,
                     rubber, escape, used, abandoned>>

\* A handle moves: the shape follows, draw:editing is fired, and drawEditing
\* moves the boundary of the selection along.
Drag(id, g) ==
    /\ "edit" \in enabled /\ dragging \in {"none", id} /\ id \in DOMAIN shape
    /\ dragging' = id
    /\ shape' = [shape EXCEPT ![id] = g]
    /\ selection' = [selection EXCEPT ![id] = g]
    /\ UNCHANGED <<unchangedByEdit, edited>>

\* The handle is let go: only now the shape counts as edited.
Drop ==
    /\ dragging # "none" /\ dragging' = "none"
    /\ edited' = edited \cup {dragging}
    /\ UNCHANGED <<unchangedByEdit, shape, selection>>

\* A click on a handle of a polygon takes the corner away, and one on a handle
\* between two corners makes a corner there: the shape counts as edited, but no
\* draw:editing is fired and the selection stays as it was.
ClickHandle(id, g) ==
    /\ "edit" \in enabled /\ dragging = "none" /\ id \in DOMAIN shape \cap Polygons
    /\ shape' = [shape EXCEPT ![id] = g]
    /\ edited' = edited \cup {id}
    /\ UNCHANGED <<unchangedByEdit, selection, dragging>>

\* The Save button while the edit tool is active: draw:edited and drawEdited,
\* then disable.
SaveEdits ==
    /\ activeMode["edit"] = "edit" /\ dragging = "none"
    /\ selection' = [id \in DOMAIN selection |->
                        IF id \in DOMAIN shape \cap edited THEN shape[id] ELSE selection[id]]
    /\ edited' = {} /\ backup' = NoShapes
    /\ abandoned' = abandoned \ (DOMAIN shape \cap edited)
    /\ enabled' = enabled \ {"edit"} /\ activeMode' = [activeMode EXCEPT !["edit"] = "none"]
    /\ UNCHANGED <<shape, deleted, corners, errorShown, errorTimer, rubber, escape, dragging, used>>

\* Mutant: the selection goes with the click, not with the Save button.
ClickShape_Deselects(id) ==
    /\ "remove" \in enabled /\ id \in DOMAIN shape
    /\ shape' = Without(shape, {id})
    /\ deleted' = Over(deleted, One(id, shape[id]))
    /\ selection' = Without(selection, {id})
    /\ UNCHANGED <<enabled, activeMode, backup, edited, corners, errorShown,
                   errorTimer, rubber, escape, dragging, used, abandoned>>

\* A click on a shape while the remove tool is open, _removeLayer.
ClickShape(id) ==
    /\ "remove" \in enabled /\ id \in DOMAIN shape
    /\ shape' = Without(shape, {id})
    /\ deleted' = Over(deleted, One(id, shape[id]))
    /\ UNCHANGED <<enabled, activeMode, backup, edited, selection, corners, errorShown,
                   errorTimer, rubber, escape, dragging, used, abandoned>>

\* The Save button while the remove tool is active: draw:deleted and drawDeleted,
\* then disable.
SaveRemovals ==
    /\ activeMode["edit"] = "remove"
    /\ selection' = Without(selection, DOMAIN deleted)
    /\ abandoned' = abandoned \ DOMAIN deleted
    /\ deleted' = NoShapes
    /\ enabled' = enabled \ {"remove"} /\ activeMode' = [activeMode EXCEPT !["edit"] = "none"]
    /\ UNCHANGED <<shape, backup, edited, corners, errorShown, errorTimer, rubber, escape,
                   dragging, used>>
--------------------------------------------------------------------------------
\* The steps that leave the selections as they are, and the charts too.
Handling ==
    \/ \E tool \in Tools : Press(tool)
    \/ Cancel \/ Escape \/ PlaceCorner \/ RefuseCorner \/ RefuseFinish \/ HideError
    \/ MouseDown \/ MouseMove \/ MouseUp \/ Drop
    \/ \E id \in Shapes : ClickShape(id) \/ \E g \in Geoms : ClickHandle(id, g)

\* The steps at which the listeners of spatial_view change the selections.
Selecting ==
    \/ \E id \in Shapes, g \in Geoms :
        FinishPolygon(id, g) \/ FinishRectangle(id, g) \/ Drag(id, g)
    \/ SaveEdits

DrawNext == Handling \/ Selecting \/ SaveRemovals

DrawSpec == DrawInit /\ [][DrawNext]_drawVars
--------------------------------------------------------------------------------
DrawTypeOK ==
    /\ enabled \subseteq Tools
    /\ activeMode \in [Bars -> Tools \cup {"none"}]
    /\ shape \in Partial(Shapes, Geoms) /\ backup \in Partial(Shapes, Geoms)
    /\ deleted \in Partial(Shapes, Geoms) /\ selection \in Partial(Shapes, Geoms)
    /\ edited \subseteq Shapes /\ used \subseteq Shapes /\ abandoned \subseteq Shapes
    /\ corners \in 0..3 /\ errorShown \in BOOLEAN /\ errorTimer \in BOOLEAN
    /\ rubber \in {"idle", "pressed", "drawn"}
    /\ escape \subseteq DrawTools /\ dragging \in Shapes \cup {"none"}

\* One tool at a time: of the four handlers of the two toolbars at most one is
\* enabled, and it is the active mode of its own toolbar, although the new tool
\* is enabled before the old one is disabled and the bars call each other back.
OneTool ==
    /\ \A s, t \in enabled : s = t
    /\ \A bar \in Bars : \A tool \in Tools :
        activeMode[bar] = tool <=> tool \in enabled /\ BarOf(tool) = bar

\* Every shape that can be edited or deleted has a selection in the model: the
\* events of the edit toolbar name keys that spatial_view added and has not
\* deleted, so updateSelection never reads a constraint that is gone.
EveryShapeSelects == DOMAIN shape \cup DOMAIN deleted \subseteq DOMAIN selection

\* What the charts are asked for is what the map shows: the boundary of a
\* selection is where its shape is, and no selection is without a shape, except
\* for shapes with unsaved changes and those whose changes were dropped by
\* opening another tool.
MapMatchesModel ==
    /\ \A id \in DOMAIN shape : id \notin edited \cup abandoned => selection[id] = shape[id]
    /\ DOMAIN selection \subseteq DOMAIN shape \cup DOMAIN deleted \cup abandoned

\* A timer that takes an error message away runs only while the polygon tool is
\* open, for _hideErrorTooltip writes to the tooltip, which the tool disposes of.
TimerNeedsTool == errorTimer => "polygon" \in enabled /\ errorShown
================================================================================
