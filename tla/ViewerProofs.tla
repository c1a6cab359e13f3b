---------------------------- MODULE ViewerProofs ----------------------------
(***************************************************************************)
(* The theorems of the web viewer: the drawing control, the search for the *)
(* bounds of time, the charts and the heat map, and the page they make up. *)
(***************************************************************************)
EXTENDS Viewer, TLAPS, SequenceTheorems, WellFoundedInduction

-----------------------------------------------------------------------------
(***************************************************************************)
(* For every set of shapes and of places, and any number of gestures: one  *)
(* tool at a time, a selection for every shape, and what the charts are    *)
(* asked for is what the map shows.                                        *)
(***************************************************************************)

(* The functions on some of the shapes, and what is built from them.       *)
LEMMA PartialIs ==
  ASSUME NEW D, NEW R, NEW f
  PROVE  f \in Partial(D, R) <=> f \in [DOMAIN f -> R] /\ DOMAIN f \subseteq D
  BY DEF Partial

LEMMA NoShapesIs == NoShapes \in Partial(Shapes, Geoms) /\ DOMAIN NoShapes = {}
  BY PartialIs DEF NoShapes

LEMMA OverIs ==
  ASSUME NEW f \in Partial(Shapes, Geoms), NEW g \in Partial(Shapes, Geoms),
         NEW h, h = Over(f, g)
  PROVE  /\ h \in Partial(Shapes, Geoms)
         /\ \A id : id \in DOMAIN h <=> id \in DOMAIN f \/ id \in DOMAIN g
         /\ \A id \in DOMAIN g : h[id] = g[id]
         /\ \A id \in DOMAIN f : id \notin DOMAIN g => h[id] = f[id]
<1>1. /\ \A id : id \in DOMAIN h <=> id \in DOMAIN f \/ id \in DOMAIN g
      /\ \A id \in DOMAIN g : h[id] = g[id]
      /\ \A id \in DOMAIN f : id \notin DOMAIN g => h[id] = f[id]
      /\ h = [id \in DOMAIN h |-> h[id]]
  BY DEF Over
<1>2. \A id \in DOMAIN h : h[id] \in Geoms
  BY <1>1, PartialIs
<1>3. DOMAIN h \subseteq Shapes
  BY <1>1, PartialIs
<1>4. h \in [DOMAIN h -> Geoms]
  BY <1>1, <1>2
<1> QED
  BY <1>1, <1>3, <1>4, PartialIs

LEMMA WithoutIs ==
  ASSUME NEW f \in Partial(Shapes, Geoms), NEW ids, NEW h, h = Without(f, ids)
  PROVE  /\ h \in Partial(Shapes, Geoms)
         /\ \A id : id \in DOMAIN h <=> id \in DOMAIN f /\ id \notin ids
         /\ \A id \in DOMAIN h : h[id] = f[id]
<1>1. /\ \A id : id \in DOMAIN h <=> id \in DOMAIN f /\ id \notin ids
      /\ \A id \in DOMAIN h : h[id] = f[id]
      /\ h = [id \in DOMAIN h |-> h[id]]
  BY DEF Without
<1>2. h \in [DOMAIN h -> Geoms] /\ DOMAIN h \subseteq Shapes
  BY <1>1, PartialIs
<1> QED
  BY <1>1, <1>2, PartialIs

LEMMA WithOneIs ==
  ASSUME NEW f \in Partial(Shapes, Geoms), NEW id \in Shapes, NEW g \in Geoms,
         NEW h, h = Over(f, One(id, g))
  PROVE  /\ h \in Partial(Shapes, Geoms)
         /\ \A i : i \in DOMAIN h <=> i \in DOMAIN f \/ i = id
         /\ h[id] = g /\ \A i \in DOMAIN f : i # id => h[i] = f[i]
<1>1. h = [i \in DOMAIN f \cup {id} |-> IF i = id THEN g ELSE f[i]]
  BY DEF Over, One
<1>2. f \in [DOMAIN f -> Geoms] /\ DOMAIN f \subseteq Shapes
  BY PartialIs
<1>3. DOMAIN h = DOMAIN f \cup {id} /\ DOMAIN h \subseteq Shapes
  BY <1>1, <1>2
<1>4. h \in [DOMAIN h -> Geoms]
  BY <1>1, <1>2
<1>5. h \in Partial(Shapes, Geoms)
  BY <1>2, <1>3, <1>4, PartialIs
<1> QED
  BY <1>1, <1>3, <1>5

LEMMA ExceptIs ==
  ASSUME NEW f \in Partial(Shapes, Geoms), NEW id, NEW g \in Geoms
  PROVE  /\ [f EXCEPT ![id] = g] \in Partial(Shapes, Geoms)
         /\ DOMAIN [f EXCEPT ![id] = g] = DOMAIN f
         /\ id \in DOMAIN f => [f EXCEPT ![id] = g][id] = g
         /\ \A i \in DOMAIN f \ {id} : [f EXCEPT ![id] = g][i] = f[i]
<1>1. f \in [DOMAIN f -> Geoms] /\ DOMAIN f \subseteq Shapes
  BY PartialIs
<1>2. [f EXCEPT ![id] = g] \in [DOMAIN f -> Geoms] /\ DOMAIN [f EXCEPT ![id] = g] = DOMAIN f
  BY <1>1
<1> QED
  BY <1>1, <1>2, PartialIs
--------------------------------------------------------------------------------
(***************************************************************************)
(* The tools.  A handler that closes has to be the active mode of its bar, *)
(* so the rectangle that is being drawn and the Escape key must belong to  *)
(* an open tool.                                                           *)
(***************************************************************************)
ToolTypes ==
  /\ enabled \subseteq Tools
  /\ activeMode \in [Bars -> Tools \cup {"none"}]
  /\ corners \in 0 .. 3 /\ errorShown \in BOOLEAN /\ errorTimer \in BOOLEAN
  /\ rubber \in {"idle", "pressed", "drawn"}
  /\ escape \subseteq DrawTools /\ dragging \in Shapes \cup {"none"}

GestureOfTool ==
  /\ rubber # "idle" => "rectangle" \in enabled
  /\ dragging # "none" => "edit" \in enabled

ToolInv == ToolTypes /\ OneTool /\ GestureOfTool /\ TimerNeedsTool

(* What OneTool says of an open tool and of an active mode.                *)
LEMMA OpenTool ==
  ASSUME ToolInv, NEW tool \in enabled
  PROVE  /\ tool \in Tools /\ enabled = {tool} /\ activeMode[BarOf(tool)] = tool
         /\ \A bar \in Bars : bar # BarOf(tool) => activeMode[bar] = "none"
<1>1. tool \in Tools /\ enabled = {tool}
  BY DEF ToolInv, ToolTypes, OneTool
<1>2. BarOf(tool) \in Bars
  BY DEF BarOf, Bars
<1>3. activeMode[BarOf(tool)] = tool
  BY <1>1, <1>2 DEF ToolInv, OneTool
<1>4. ASSUME NEW bar \in Bars, bar # BarOf(tool) PROVE activeMode[bar] = "none"
  <2>1. activeMode[bar] \in Tools \cup {"none"}
    BY DEF ToolInv, ToolTypes
  <2>2. \A x \in Tools : activeMode[bar] # x
    BY <1>1, <1>4 DEF ToolInv, OneTool
  <2> QED
    BY <2>1, <2>2
<1> QED
  BY <1>1, <1>3, <1>4

LEMMA ActiveMode ==
  ASSUME ToolInv, NEW bar \in Bars, activeMode[bar] # "none"
  PROVE  activeMode[bar] \in enabled /\ BarOf(activeMode[bar]) = bar
  BY DEF ToolInv, ToolTypes, OneTool

(* Closing the one open tool leaves none.                                  *)
LEMMA DrawingCloses ==
  ASSUME ToolInv, NEW tool \in enabled \cap DrawTools, CloseDrawing(tool)
  PROVE  /\ enabled' = {} /\ activeMode' = [bar \in Bars |-> "none"] /\ escape' = {}
         /\ rubber' = "idle" /\ errorTimer' = FALSE
         /\ corners' \in 0 .. 3
<1>1. enabled = {tool} /\ activeMode[BarOf(tool)] = tool /\ BarOf(tool) = "draw"
      /\ activeMode["edit"] = "none"
  BY OpenTool DEF BarOf, Bars, DrawTools
<1>2. enabled' = {} /\ activeMode' = [bar \in Bars |-> "none"] /\ escape' = {}
  BY <1>1 DEF CloseDrawing, Hooks, ToolInv, ToolTypes, Bars
<1>3. rubber' = "idle"
  BY <1>1 DEF CloseDrawing, Hooks, ToolInv, GestureOfTool
<1>4. errorTimer' = FALSE
  BY <1>1 DEF CloseDrawing, Hooks, ToolInv, ToolTypes, TimerNeedsTool
<1>5. corners' \in 0 .. 3
  BY DEF CloseDrawing, Hooks, ToolInv, ToolTypes
<1> QED
  BY <1>2, <1>3, <1>4, <1>5

LEMMA ClosedKeepsToolInv ==
  ASSUME ToolInv, NEW tool \in enabled \cap DrawTools, CloseDrawing(tool),
         errorShown' = errorShown, dragging' = dragging
  PROVE  ToolInv'
<1>1. dragging = "none"
  BY OpenTool DEF ToolInv, GestureOfTool, DrawTools
<1>2. /\ enabled' = {} /\ activeMode' = [bar \in Bars |-> "none"] /\ escape' = {}
      /\ rubber' = "idle" /\ errorTimer' = FALSE /\ corners' \in 0 .. 3
  BY DrawingCloses
<1>3. "none" \notin Tools
  BY DEF Tools, DrawTools, EditTools
<1> QED
  BY <1>1, <1>2, <1>3 DEF ToolInv, ToolTypes, OneTool, GestureOfTool, TimerNeedsTool

LEMMA PressKeepsToolInv ==
  ASSUME ToolInv, NEW tool \in Tools, Press(tool)
  PROVE  ToolInv'
<1>1. Closed(tool) = enabled
  <2>1. enabled \subseteq Closed(tool)
    BY OpenTool DEF Closed, Bars, BarOf
  <2> QED
    BY <2>1 DEF Closed
<1>2. /\ enabled' = {tool} /\ dragging' = "none" /\ errorShown' = errorShown
      /\ activeMode' = [bar \in Bars |-> IF bar = BarOf(tool) THEN tool ELSE "none"]
  BY <1>1 DEF Press, Hooks
<1>3. rubber' = "idle"
  BY <1>1 DEF Press, Hooks, ToolInv, GestureOfTool
<1>4. errorTimer' = FALSE
  BY <1>1 DEF Press, Hooks, ToolInv, ToolTypes, TimerNeedsTool
<1>5. corners' \in 0 .. 3
  BY DEF Press, Hooks, ToolInv, ToolTypes
<1>6. escape' \subseteq DrawTools
  BY DEF Press, Hooks, ToolInv, ToolTypes
<1>7. ToolTypes'
  BY <1>2, <1>3, <1>4, <1>5, <1>6 DEF ToolInv, ToolTypes
<1>8. OneTool'
  BY <1>2 DEF OneTool, Tools, DrawTools, EditTools, Bars, BarOf
<1> QED
  BY <1>2, <1>3, <1>4, <1>7, <1>8 DEF ToolInv, GestureOfTool, TimerNeedsTool

(* Steps in which no tool is opened or closed.                             *)
LEMMA SteadyKeepsToolInv ==
  ASSUME ToolInv, UNCHANGED <<enabled, activeMode, escape>>,
         ToolTypes', GestureOfTool', TimerNeedsTool'
  PROVE  ToolInv'
  BY DEF ToolInv, OneTool

LEMMA SaveKeepsToolInv ==
  ASSUME ToolInv, NEW tool \in EditTools, activeMode["edit"] = tool,
         dragging = "none", enabled' = enabled \ {tool},
         activeMode' = [activeMode EXCEPT !["edit"] = "none"],
         UNCHANGED <<corners, errorShown, errorTimer, rubber, escape, dragging>>
  PROVE  ToolInv'
<1>1. tool \in enabled /\ BarOf(tool) = "edit"
  BY ActiveMode DEF Bars, EditTools
<1>2. enabled = {tool} /\ activeMode["draw"] = "none"
  BY <1>1, OpenTool DEF Bars
<1>3. enabled' = {} /\ activeMode' = [bar \in Bars |-> "none"]
  BY <1>2 DEF ToolInv, ToolTypes, Bars
<1>4. rubber = "idle" /\ errorTimer = FALSE
  BY <1>2 DEF ToolInv, ToolTypes, GestureOfTool, TimerNeedsTool, EditTools
<1> QED
  BY <1>3, <1>4 DEF ToolInv, ToolTypes, OneTool, GestureOfTool, TimerNeedsTool,
                    Tools, DrawTools, EditTools

(* Every gesture and the timer keep the invariant of the tools.            *)
LEMMA StepKeepsToolInv ==
  ASSUME ToolInv, DrawNext
  PROVE  ToolInv'
<1>1. CASE \E tool \in Tools : Press(tool)
  BY <1>1, PressKeepsToolInv
<1>2. CASE Cancel
  <2>1. activeMode["draw"] \in enabled \cap DrawTools
    BY <1>2, ActiveMode DEF Cancel, Bars, BarOf, DrawTools
  <2> QED
    BY <1>2, <2>1, ClosedKeepsToolInv DEF Cancel
<1>3. CASE Escape
  BY <1>3, ClosedKeepsToolInv DEF Escape, ToolInv, ToolTypes
<1>4. CASE PlaceCorner
  <2>1. UNCHANGED <<enabled, activeMode, rubber, escape, dragging>> /\ errorShown' = FALSE
    BY <1>4 DEF PlaceCorner, sameShapes, sameTools
  <2>2. corners' \in 0 .. 3
    BY <1>4 DEF PlaceCorner, ToolInv, ToolTypes
  <2>3. errorTimer' = FALSE
    BY <1>4, ZenonT(30) DEF PlaceCorner, ToolInv, ToolTypes, TimerNeedsTool
  <2>4. ToolTypes' /\ GestureOfTool' /\ TimerNeedsTool'
    BY <2>1, <2>2, <2>3 DEF ToolInv, ToolTypes, GestureOfTool, TimerNeedsTool
  <2> QED
    BY <2>1, <2>4, SteadyKeepsToolInv
<1>5. CASE RefuseCorner \/ RefuseFinish
  <2>1. ToolTypes' /\ GestureOfTool' /\ TimerNeedsTool'
    BY <1>5 DEF RefuseCorner, RefuseFinish, ShowError, sameShapes, sameTools,
                ToolInv, ToolTypes, GestureOfTool, TimerNeedsTool
  <2> QED
    BY <1>5, <2>1, SteadyKeepsToolInv DEF RefuseCorner, RefuseFinish, sameTools
<1>6. CASE HideError
  <2>1. ToolTypes' /\ GestureOfTool' /\ TimerNeedsTool'
    BY <1>6 DEF HideError, sameShapes, sameTools, ToolInv, ToolTypes, GestureOfTool, TimerNeedsTool
  <2> QED
    BY <1>6, <2>1, SteadyKeepsToolInv DEF HideError, sameTools
<1>7. CASE MouseDown \/ MouseMove
  <2>1. ToolTypes' /\ GestureOfTool' /\ TimerNeedsTool'
    BY <1>7 DEF MouseDown, MouseMove, sameShapes, ToolInv, ToolTypes, GestureOfTool, TimerNeedsTool
  <2> QED
    BY <1>7, <2>1, SteadyKeepsToolInv DEF MouseDown, MouseMove
<1>8. CASE MouseUp
  <2>1. "rectangle" \in enabled \cap DrawTools
    BY <1>8 DEF MouseUp, ToolInv, GestureOfTool, DrawTools
  <2> QED
    BY <1>8, <2>1, ClosedKeepsToolInv DEF MouseUp, sameShapes
<1>9. CASE \E id \in Shapes, g \in Geoms : FinishPolygon(id, g) \/ FinishRectangle(id, g)
  <2>1. PICK id \in Shapes, g \in Geoms : FinishPolygon(id, g) \/ FinishRectangle(id, g)
    BY <1>9
  <2>2. CASE FinishPolygon(id, g)
    BY <2>2, ClosedKeepsToolInv DEF FinishPolygon, Create, DrawTools
  <2>3. CASE FinishRectangle(id, g)
    BY <2>3, ClosedKeepsToolInv
       DEF FinishRectangle, Create, DrawTools, ToolInv, GestureOfTool
  <2> QED
    BY <2>1, <2>2, <2>3
<1>10. CASE Drop \/ \E id \in Shapes, g \in Geoms : Drag(id, g) \/ ClickHandle(id, g)
  <2>1. /\ dragging' \in Shapes \cup {"none"}
        /\ dragging' # "none" => "edit" \in enabled
    BY <1>10 DEF Drag, Drop, ClickHandle, unchangedByEdit, ToolInv, ToolTypes, GestureOfTool
  <2>2. UNCHANGED <<enabled, activeMode, corners, errorShown, errorTimer, rubber, escape>>
    BY <1>10 DEF Drag, Drop, ClickHandle, unchangedByEdit
  <2>3. ToolTypes' /\ GestureOfTool' /\ TimerNeedsTool'
    BY <2>1, <2>2 DEF ToolInv, ToolTypes, GestureOfTool, TimerNeedsTool
  <2> QED
    BY <2>2, <2>3, SteadyKeepsToolInv
<1>11. CASE \E id \in Shapes : ClickShape(id)
  <2>1. ToolTypes' /\ GestureOfTool' /\ TimerNeedsTool'
    BY <1>11 DEF ClickShape, ToolInv, ToolTypes, GestureOfTool, TimerNeedsTool
  <2> QED
    BY <1>11, <2>1, SteadyKeepsToolInv DEF ClickShape
<1>12. CASE SaveEdits
  BY <1>12, SaveKeepsToolInv DEF SaveEdits, EditTools
<1>13. CASE SaveRemovals
  <2>1. dragging = "none"
    <3>1. "remove" \in enabled
      BY <1>13, ActiveMode DEF SaveRemovals, Bars
    <3> QED
      BY <3>1, OpenTool DEF ToolInv, GestureOfTool
  <2> QED
    BY <1>13, <2>1, SaveKeepsToolInv DEF SaveRemovals, EditTools
<1> QED
  BY <1>1, <1>2, <1>3, <1>4, <1>5, <1>6, <1>7, <1>8, <1>9, <1>10, <1>11, <1>12, <1>13
     DEF DrawNext, Handling, Selecting
--------------------------------------------------------------------------------
(***************************************************************************)
(* The shapes and their selections.  Beside what MapMatchesModel says,     *)
(* the invariant tells what Cancel, Save and the other tools put back:     *)
(* the copies in backup are those of the shapes that were not changed, a   *)
(* shape that was clicked away is where its selection is, and both are     *)
(* kept only while their tool is open.                                     *)
(***************************************************************************)
ShapeTypes ==
  /\ shape \in Partial(Shapes, Geoms) /\ backup \in Partial(Shapes, Geoms)
  /\ deleted \in Partial(Shapes, Geoms) /\ selection \in Partial(Shapes, Geoms)
  /\ edited \subseteq Shapes /\ used \subseteq Shapes /\ abandoned \subseteq Shapes

UnsavedOfTool ==
  /\ DOMAIN backup = IF activeMode["edit"] = "edit" THEN DOMAIN shape ELSE {}
  /\ activeMode["edit"] # "edit" => edited = {}
  /\ activeMode["edit"] # "remove" => DOMAIN deleted = {}
  /\ DOMAIN shape \cap DOMAIN deleted = {}

CopiesRight ==
  /\ \A id \in DOMAIN backup : id \notin edited /\ id # dragging => backup[id] = shape[id]
  /\ \A id \in DOMAIN deleted : id \notin abandoned => deleted[id] = selection[id]

ShapeInv == ShapeTypes /\ UnsavedOfTool /\ CopiesRight /\ EveryShapeSelects /\ MapMatchesModel

(* Steps that leave the shapes, and the active mode of the edit toolbar.   *)
LEMMA SteadyKeepsShapeInv ==
  ASSUME ShapeInv, UNCHANGED <<sameShapes, activeMode["edit"]>>
  PROVE  ShapeInv'
  BY DEF ShapeInv, ShapeTypes, UnsavedOfTool, CopiesRight, EveryShapeSelects,
         MapMatchesModel, sameShapes

LEMMA CreateKeepsShapeInv ==
  ASSUME ToolInv, ShapeInv, NEW id \in Shapes, NEW g \in Geoms,
         NEW tool \in enabled \cap DrawTools, Create(id, g, tool)
  PROVE  ShapeInv'
<1>1. /\ activeMode["edit"] = "none" /\ activeMode'["edit"] = "none" /\ dragging = "none"
  BY OpenTool, DrawingCloses DEF Create, BarOf, Bars, DrawTools, ToolInv, GestureOfTool
<1>3. /\ UNCHANGED <<backup, edited, deleted, dragging, abandoned>>
      /\ used' = used \cup {id}
  BY DEF Create
<1>4. /\ shape' \in Partial(Shapes, Geoms) /\ selection' \in Partial(Shapes, Geoms)
      /\ \A i : i \in DOMAIN shape' <=> i \in DOMAIN shape \/ i = id
      /\ \A i : i \in DOMAIN selection' <=> i \in DOMAIN selection \/ i = id
      /\ shape'[id] = g /\ selection'[id] = g
      /\ \A i \in DOMAIN shape : i # id => shape'[i] = shape[i]
      /\ \A i \in DOMAIN selection : i # id => selection'[i] = selection[i]
  <2>1. shape \in Partial(Shapes, Geoms) /\ selection \in Partial(Shapes, Geoms)
    BY DEF ShapeInv, ShapeTypes
  <2>2. shape' = Over(shape, One(id, g)) /\ selection' = Over(selection, One(id, g))
    BY DEF Create
  <2>3. /\ shape' \in Partial(Shapes, Geoms)
        /\ \A i : i \in DOMAIN shape' <=> i \in DOMAIN shape \/ i = id
        /\ shape'[id] = g /\ \A i \in DOMAIN shape : i # id => shape'[i] = shape[i]
    BY <2>1, <2>2, WithOneIs
  <2>4. /\ selection' \in Partial(Shapes, Geoms)
        /\ \A i : i \in DOMAIN selection' <=> i \in DOMAIN selection \/ i = id
        /\ selection'[id] = g /\ \A i \in DOMAIN selection : i # id => selection'[i] = selection[i]
    BY <2>1, <2>2, WithOneIs
  <2> QED
    BY <2>3, <2>4
<1>5. edited = {} /\ DOMAIN deleted = {} /\ DOMAIN backup = {}
  BY <1>1 DEF ShapeInv, UnsavedOfTool
<1>6. ShapeTypes'
  BY <1>3, <1>4 DEF ShapeInv, ShapeTypes
<1>7. UnsavedOfTool' /\ CopiesRight'
  BY <1>1, <1>3, <1>5 DEF UnsavedOfTool, CopiesRight
<1>8. EveryShapeSelects'
  BY <1>3, <1>4 DEF ShapeInv, EveryShapeSelects
<1>9. MapMatchesModel'
  BY <1>3, <1>4 DEF ShapeInv, MapMatchesModel, EveryShapeSelects
<1> QED
  BY <1>6, <1>7, <1>8, <1>9 DEF ShapeInv

(* A handle that moves or is clicked: the selection follows or the shape   *)
(* counts as edited.                                                       *)
LEMMA EditKeepsShapeInv ==
  ASSUME ToolInv, ShapeInv, NEW id \in Shapes, NEW g \in Geoms,
         Drag(id, g) \/ ClickHandle(id, g)
  PROVE  ShapeInv'
<1>1. "edit" \in enabled /\ id \in DOMAIN shape /\ shape' = [shape EXCEPT ![id] = g]
      /\ UNCHANGED <<activeMode, backup, deleted, used, abandoned>>
  BY DEF Drag, ClickHandle, unchangedByEdit
<1>2. activeMode["edit"] = "edit" /\ DOMAIN deleted = {}
  BY <1>1, OpenTool DEF BarOf, DrawTools, ShapeInv, UnsavedOfTool
<1>3. /\ shape' \in Partial(Shapes, Geoms) /\ DOMAIN shape' = DOMAIN shape /\ shape'[id] = g
      /\ \A i \in DOMAIN shape \ {id} : shape'[i] = shape[i]
  BY <1>1, ExceptIs DEF ShapeInv, ShapeTypes
<1>4. id \in DOMAIN selection
  BY <1>1 DEF ShapeInv, EveryShapeSelects
<1>5. CASE Drag(id, g)
  <2>1. /\ selection' \in Partial(Shapes, Geoms) /\ DOMAIN selection' = DOMAIN selection
        /\ selection'[id] = g /\ \A i \in DOMAIN selection \ {id} : selection'[i] = selection[i]
        /\ edited' = edited /\ dragging' = id /\ dragging \in {"none", id}
    BY <1>4, <1>5, ExceptIs DEF Drag, unchangedByEdit, ShapeInv, ShapeTypes
  <2>2. ShapeTypes' /\ UnsavedOfTool'
    BY <1>1, <1>2, <1>3, <2>1 DEF ShapeInv, ShapeTypes, UnsavedOfTool
  <2>3. CopiesRight'
    BY <1>1, <1>2, <1>3, <2>1, ShapesAssumption, PartialIs
       DEF ShapesAssumption, ShapeInv, ShapeTypes, UnsavedOfTool, CopiesRight
  <2>4. EveryShapeSelects' /\ MapMatchesModel'
    BY <1>1, <1>3, <1>4, <2>1 DEF ShapeInv, EveryShapeSelects, MapMatchesModel
  <2> QED
    BY <2>2, <2>3, <2>4 DEF ShapeInv
<1>6. CASE ClickHandle(id, g)
  <2>1. /\ selection' = selection /\ edited' = edited \cup {id} /\ UNCHANGED dragging
    BY <1>6 DEF ClickHandle
  <2>2. ShapeTypes' /\ UnsavedOfTool'
    BY <1>1, <1>2, <1>3, <2>1 DEF ShapeInv, ShapeTypes, UnsavedOfTool
  <2>3. CopiesRight'
    BY <1>1, <1>2, <1>3, <2>1 DEF ShapeInv, ShapeTypes, UnsavedOfTool, CopiesRight
  <2>4. EveryShapeSelects' /\ MapMatchesModel'
    BY <1>1, <1>3, <1>4, <2>1 DEF ShapeInv, EveryShapeSelects, MapMatchesModel
  <2> QED
    BY <2>2, <2>3, <2>4 DEF ShapeInv
<1> QED
  BY <1>5, <1>6

(* Opening a tool: what was removed and not saved comes back if the tool   *)
(* is one to draw, and so do the places of before.                         *)
LEMMA PutBackKeepsShapeInv ==
  ASSUME ToolInv, ShapeInv, NEW tool \in DrawTools, Press(tool)
  PROVE  ShapeInv'
<1>1. /\ activeMode'["edit"] = "none" /\ dragging = "none" /\ dragging' = "none"
      /\ PutBack /\ edited' = {} /\ deleted' = NoShapes /\ used' = used /\ selection' = selection
      /\ abandoned' = abandoned \cup edited
  BY DEF Press, BarOf, Bars, DrawTools, EditTools
<1>2. /\ DOMAIN deleted' = {} /\ deleted' \in Partial(Shapes, Geoms)
      /\ DOMAIN backup' = {} /\ backup' \in Partial(Shapes, Geoms)
  BY <1>1, NoShapesIs DEF PutBack
<1>3. CASE activeMode["edit"] = "edit"
  <2>1. shape' = Over(shape, backup) /\ DOMAIN deleted = {} /\ DOMAIN backup = DOMAIN shape
    BY <1>1, <1>3 DEF PutBack, ShapeInv, UnsavedOfTool
  <2>2. /\ shape' \in Partial(Shapes, Geoms)
        /\ \A id : id \in DOMAIN shape' <=> id \in DOMAIN shape
        /\ \A id \in DOMAIN shape : shape'[id] = backup[id]
    BY <2>1, OverIs DEF ShapeInv, ShapeTypes
  <2>3. \A id \in DOMAIN shape : id \notin edited => backup[id] = shape[id]
    BY <1>1, <2>1, PartialIs, ShapesAssumption DEF ShapesAssumption, ShapeInv, ShapeTypes, CopiesRight
  <2>4. ShapeTypes' /\ UnsavedOfTool' /\ CopiesRight'
    BY <1>1, <1>2, <2>2 DEF ShapeInv, ShapeTypes, UnsavedOfTool, CopiesRight
  <2>5. EveryShapeSelects' /\ MapMatchesModel'
    BY <1>1, <1>2, <2>1, <2>2, <2>3 DEF ShapeInv, EveryShapeSelects, MapMatchesModel
  <2> QED
    BY <2>4, <2>5 DEF ShapeInv
<1>4. CASE activeMode["edit"] = "remove"
  <2>1. shape' = Over(shape, deleted) /\ edited = {}
    BY <1>1, <1>4 DEF PutBack, ShapeInv, UnsavedOfTool
  <2>2. /\ shape' \in Partial(Shapes, Geoms)
        /\ \A id : id \in DOMAIN shape' <=> id \in DOMAIN shape \/ id \in DOMAIN deleted
        /\ \A id \in DOMAIN deleted : shape'[id] = deleted[id]
        /\ \A id \in DOMAIN shape : id \notin DOMAIN deleted => shape'[id] = shape[id]
    BY <2>1, OverIs DEF ShapeInv, ShapeTypes
  <2>3. ShapeTypes' /\ UnsavedOfTool' /\ CopiesRight'
    BY <1>1, <1>2, <2>1, <2>2 DEF ShapeInv, ShapeTypes, UnsavedOfTool, CopiesRight
  <2>4. EveryShapeSelects' /\ MapMatchesModel'
    BY <1>1, <1>2, <2>1, <2>2 DEF ShapeInv, EveryShapeSelects, MapMatchesModel, CopiesRight
  <2> QED
    BY <2>3, <2>4 DEF ShapeInv
<1>5. CASE activeMode["edit"] \notin {"edit", "remove"}
  <2>1. shape' = shape /\ edited = {} /\ DOMAIN deleted = {}
    BY <1>1, <1>5 DEF PutBack, ShapeInv, UnsavedOfTool
  <2> QED
    BY <1>1, <1>2, <2>1 DEF ShapeInv, ShapeTypes, UnsavedOfTool, CopiesRight,
                            EveryShapeSelects, MapMatchesModel
<1> QED
  BY <1>3, <1>4, <1>5

(* An edit tool drops what the other one has not saved.                    *)
LEMMA DropKeepsShapeInv ==
  ASSUME ToolInv, ShapeInv, NEW tool \in EditTools, Press(tool)
  PROVE  ShapeInv'
<1>1. /\ activeMode'["edit"] = tool /\ dragging = "none" /\ dragging' = "none"
      /\ edited' = {} /\ deleted' = NoShapes /\ used' = used /\ selection' = selection
      /\ abandoned' = abandoned \cup edited \cup (IF tool = "edit" THEN DOMAIN deleted ELSE {})
  BY DEF Press, BarOf, Bars, DrawTools, EditTools
<1>0. (tool = "edit" /\ BeginEditing) \/ (tool = "remove" /\ BeginRemoving)
  BY DEF Press, DrawTools, EditTools
<1>2. activeMode["edit"] # tool
  BY ActiveMode DEF Press, Bars, EditTools
<1>3. DOMAIN deleted' = {} /\ deleted' \in Partial(Shapes, Geoms)
  BY <1>1, NoShapesIs
<1>4. shape' = shape
  BY <1>0 DEF BeginEditing, BeginRemoving
<1>5. CASE tool = "edit"
  <2>1. backup' = Over(shape, backup) /\ DOMAIN backup = {}
    BY <1>0, <1>2, <1>5 DEF BeginEditing, ShapeInv, UnsavedOfTool
  <2>2. /\ backup' \in Partial(Shapes, Geoms) /\ \A id \in DOMAIN shape : backup'[id] = shape[id]
        /\ \A id : id \in DOMAIN backup' <=> id \in DOMAIN shape
    BY <2>1, OverIs DEF ShapeInv, ShapeTypes
  <2>3. DOMAIN backup' = DOMAIN shape
    BY <2>2
  <2>4. abandoned' \subseteq Shapes
    BY <1>1, PartialIs DEF ShapeInv, ShapeTypes
  <2>5. ShapeTypes' /\ UnsavedOfTool' /\ CopiesRight'
    BY <1>1, <1>3, <1>4, <1>5, <2>2, <2>3, <2>4 DEF ShapeInv, ShapeTypes, UnsavedOfTool, CopiesRight
  <2>6. EveryShapeSelects' /\ MapMatchesModel'
    BY <1>1, <1>3, <1>4, <1>5 DEF ShapeInv, EveryShapeSelects, MapMatchesModel
  <2> QED
    BY <2>5, <2>6 DEF ShapeInv
<1>6. CASE tool = "remove"
  <2>1. DOMAIN backup' = {} /\ backup' \in Partial(Shapes, Geoms) /\ DOMAIN deleted = {}
    BY <1>0, <1>2, <1>6, NoShapesIs DEF BeginRemoving, ShapeInv, UnsavedOfTool
  <2>2. ShapeTypes' /\ UnsavedOfTool' /\ CopiesRight'
    BY <1>1, <1>3, <1>4, <1>6, <2>1 DEF ShapeInv, ShapeTypes, UnsavedOfTool, CopiesRight
  <2>3. EveryShapeSelects' /\ MapMatchesModel'
    BY <1>1, <1>3, <1>4, <1>6, <2>1 DEF ShapeInv, EveryShapeSelects, MapMatchesModel
  <2> QED
    BY <2>2, <2>3 DEF ShapeInv
<1> QED
  BY <1>5, <1>6 DEF EditTools

(* The two ways to save.                                                   *)
LEMMA SaveEditsKeepsShapeInv ==
  ASSUME ToolInv, ShapeInv, SaveEdits
  PROVE  ShapeInv'
<1>1. /\ activeMode["edit"] = "edit" /\ dragging = "none" /\ activeMode'["edit"] = "none"
      /\ edited' = {} /\ backup' = NoShapes /\ abandoned' = abandoned \ (DOMAIN shape \cap edited)
      /\ UNCHANGED <<shape, deleted, used, dragging>>
  BY DEF SaveEdits, ToolInv, ToolTypes, Bars
<1>2. /\ DOMAIN selection' = DOMAIN selection
      /\ \A id \in DOMAIN selection :
           selection'[id] = IF id \in DOMAIN shape \cap edited THEN shape[id] ELSE selection[id]
      /\ selection' = [id \in DOMAIN selection' |-> selection'[id]]
  BY DEF SaveEdits
<1>3. DOMAIN backup' = {} /\ backup' \in Partial(Shapes, Geoms) /\ DOMAIN deleted = {}
  BY <1>1, NoShapesIs DEF ShapeInv, UnsavedOfTool
<1>4. selection' \in Partial(Shapes, Geoms)
  <2>1. /\ shape \in [DOMAIN shape -> Geoms]
        /\ selection \in [DOMAIN selection -> Geoms] /\ DOMAIN selection \subseteq Shapes
    BY PartialIs DEF ShapeInv, ShapeTypes
  <2>2. \A id \in DOMAIN selection : selection'[id] \in Geoms
    BY <1>2, <2>1
  <2>3. selection' \in [DOMAIN selection' -> Geoms] /\ DOMAIN selection' \subseteq Shapes
    BY <1>2, <2>1, <2>2
  <2> QED
    BY <2>3, PartialIs
<1>5. ShapeTypes'
  BY <1>1, <1>3, <1>4 DEF ShapeInv, ShapeTypes
<1>6. UnsavedOfTool' /\ CopiesRight'
  BY <1>1, <1>3 DEF UnsavedOfTool, CopiesRight
<1>7. EveryShapeSelects' /\ MapMatchesModel'
  BY <1>1, <1>2, <1>3 DEF ShapeInv, EveryShapeSelects, MapMatchesModel
<1> QED
  BY <1>5, <1>6, <1>7 DEF ShapeInv

LEMMA SaveRemovalsKeepsShapeInv ==
  ASSUME ToolInv, ShapeInv, SaveRemovals
  PROVE  ShapeInv'
<1>1. /\ activeMode["edit"] = "remove" /\ activeMode'["edit"] = "none"
      /\ selection' = Without(selection, DOMAIN deleted) /\ deleted' = NoShapes
      /\ abandoned' = abandoned \ DOMAIN deleted
      /\ UNCHANGED <<shape, backup, edited, used, dragging>>
  BY DEF SaveRemovals, ToolInv, ToolTypes, Bars
<1>2. /\ selection' \in Partial(Shapes, Geoms)
      /\ \A id : id \in DOMAIN selection' <=> id \in DOMAIN selection /\ id \notin DOMAIN deleted
      /\ \A id \in DOMAIN selection' : selection'[id] = selection[id]
  BY <1>1, WithoutIs DEF ShapeInv, ShapeTypes
<1>3. DOMAIN deleted' = {} /\ deleted' \in Partial(Shapes, Geoms) /\ edited = {} /\ DOMAIN backup = {}
  BY <1>1, NoShapesIs DEF ShapeInv, UnsavedOfTool
<1>4. ShapeTypes' /\ UnsavedOfTool' /\ CopiesRight'
  BY <1>1, <1>2, <1>3 DEF ShapeInv, ShapeTypes, UnsavedOfTool, CopiesRight
<1>5. EveryShapeSelects' /\ MapMatchesModel'
  BY <1>1, <1>2, <1>3 DEF ShapeInv, UnsavedOfTool, EveryShapeSelects, MapMatchesModel
<1> QED
  BY <1>4, <1>5 DEF ShapeInv

(* A shape that is clicked away keeps its selection until it is saved.     *)
LEMMA ClickShapeKeepsShapeInv ==
  ASSUME ToolInv, ShapeInv, NEW id \in Shapes, ClickShape(id)
  PROVE  ShapeInv'
<1>1. /\ "remove" \in enabled /\ id \in DOMAIN shape
      /\ shape' = Without(shape, {id}) /\ deleted' = Over(deleted, One(id, shape[id]))
      /\ UNCHANGED <<activeMode, backup, edited, selection, dragging, used, abandoned>>
  BY DEF ClickShape
<1>2. activeMode["edit"] = "remove"
  BY <1>1, OpenTool DEF BarOf, DrawTools
<1>3. edited = {} /\ DOMAIN backup = {} /\ shape[id] \in Geoms
  BY <1>1, <1>2, PartialIs DEF ShapeInv, ShapeTypes, UnsavedOfTool
<1>4. /\ shape' \in Partial(Shapes, Geoms)
      /\ \A i : i \in DOMAIN shape' <=> i \in DOMAIN shape /\ i # id
      /\ \A i \in DOMAIN shape' : shape'[i] = shape[i]
  BY <1>1, WithoutIs DEF ShapeInv, ShapeTypes
<1>5. /\ deleted' \in Partial(Shapes, Geoms)
      /\ \A i : i \in DOMAIN deleted' <=> i \in DOMAIN deleted \/ i = id
      /\ deleted'[id] = shape[id] /\ \A i \in DOMAIN deleted : i # id => deleted'[i] = deleted[i]
  BY <1>1, <1>3, WithOneIs DEF ShapeInv, ShapeTypes
<1>6. ShapeTypes'
  BY <1>1, <1>4, <1>5 DEF ShapeInv, ShapeTypes
<1>7. UnsavedOfTool'
  BY <1>1, <1>2, <1>3, <1>4, <1>5 DEF ShapeInv, UnsavedOfTool
<1>8. CopiesRight'
  BY <1>1, <1>3, <1>5 DEF ShapeInv, CopiesRight, MapMatchesModel
<1>9. EveryShapeSelects' /\ MapMatchesModel'
  BY <1>1, <1>4, <1>5 DEF ShapeInv, EveryShapeSelects, MapMatchesModel
<1> QED
  BY <1>6, <1>7, <1>8, <1>9 DEF ShapeInv

(* The handle of a drag is let go: its shape counts as edited.             *)
LEMMA DropHandleKeepsShapeInv ==
  ASSUME ToolInv, ShapeInv, Drop
  PROVE  ShapeInv'
<1>1. /\ dragging # "none" /\ dragging' = "none" /\ edited' = edited \cup {dragging}
      /\ UNCHANGED <<activeMode, shape, selection, backup, deleted, used, abandoned>>
  BY DEF Drop, unchangedByEdit
<1>2. activeMode["edit"] = "edit" /\ dragging \in Shapes
  BY <1>1, OpenTool DEF ToolInv, ToolTypes, GestureOfTool, BarOf, DrawTools
<1> QED
  BY <1>1, <1>2 DEF ShapeInv, ShapeTypes, UnsavedOfTool, CopiesRight, EveryShapeSelects, MapMatchesModel

LEMMA StepKeepsShapeInv ==
  ASSUME ToolInv, ShapeInv, DrawNext
  PROVE  ShapeInv'
<1>1. CASE \E tool \in Tools : Press(tool)
  BY <1>1, PutBackKeepsShapeInv, DropKeepsShapeInv DEF Tools
<1>2. CASE Cancel \/ Escape \/ MouseUp
  <2>1. PICK tool \in enabled \cap DrawTools : CloseDrawing(tool) /\ UNCHANGED sameShapes
    <3>1. CASE Cancel
      <4>1. activeMode["draw"] \in enabled \cap DrawTools
        BY <3>1, ActiveMode DEF Cancel, Bars, BarOf, DrawTools
      <4> QED
        BY <3>1, <4>1 DEF Cancel, sameShapes
    <3>2. CASE Escape
      BY <3>2 DEF Escape, ToolInv, ToolTypes, sameShapes
    <3>3. CASE MouseUp
      BY <3>3 DEF MouseUp, ToolInv, GestureOfTool, DrawTools
    <3> QED
      BY <1>2, <3>1, <3>2, <3>3
  <2>2. activeMode["edit"] = "none" /\ activeMode'["edit"] = "none"
    BY <2>1, OpenTool, DrawingCloses DEF BarOf, Bars
  <2> QED
    BY <2>1, <2>2, SteadyKeepsShapeInv DEF sameShapes
<1>3. CASE PlaceCorner \/ RefuseCorner \/ RefuseFinish \/ HideError \/ MouseDown \/ MouseMove
  <2>1. UNCHANGED <<sameShapes, activeMode>>
    BY <1>3 DEF PlaceCorner, RefuseCorner, RefuseFinish, ShowError, HideError, MouseDown, MouseMove, sameTools
  <2> QED
    BY <2>1, SteadyKeepsShapeInv
<1>4. CASE \E id \in Shapes, g \in Geoms : FinishPolygon(id, g) \/ FinishRectangle(id, g)
  BY <1>4, CreateKeepsShapeInv
     DEF FinishPolygon, FinishRectangle, DrawTools, ToolInv, GestureOfTool
<1>5. CASE \E id \in Shapes, g \in Geoms : Drag(id, g) \/ ClickHandle(id, g)
  BY <1>5, EditKeepsShapeInv
<1> QED
  BY <1>1, <1>2, <1>3, <1>4, <1>5, DropHandleKeepsShapeInv, SaveEditsKeepsShapeInv,
     SaveRemovalsKeepsShapeInv, ClickShapeKeepsShapeInv
     DEF DrawNext, Handling, Selecting
--------------------------------------------------------------------------------
IInv == ToolInv /\ ShapeInv

LEMMA InitIInv == DrawInit => IInv
<1> SUFFICES ASSUME DrawInit PROVE IInv
  OBVIOUS
<1>1. ToolInv
  <2>1. ToolTypes
    <3>1. activeMode \in [Bars -> Tools \cup {"none"}]
      BY DEF DrawInit
    <3>2. errorShown \in BOOLEAN /\ errorTimer \in BOOLEAN
      BY DEF DrawInit
    <3>3. corners \in 0 .. 3 /\ rubber \in {"idle", "pressed", "drawn"}
      BY DEF DrawInit
    <3> QED
      BY <3>1, <3>2, <3>3 DEF DrawInit, ToolTypes
  <2>2. OneTool
    BY DEF DrawInit, OneTool, Tools, DrawTools, EditTools
  <2>3. GestureOfTool /\ TimerNeedsTool
    BY DEF DrawInit, GestureOfTool, TimerNeedsTool
  <2> QED
    BY <2>1, <2>2, <2>3 DEF ToolInv
<1>2. ShapeInv
  BY NoShapesIs DEF DrawInit, ShapeInv, ShapeTypes, UnsavedOfTool, CopiesRight,
                    EveryShapeSelects, MapMatchesModel, Bars
<1> QED
  BY <1>1, <1>2 DEF IInv

LEMMA NextIInv == IInv /\ [DrawNext]_drawVars => IInv'
<1> SUFFICES ASSUME IInv, [DrawNext]_drawVars PROVE IInv'
  OBVIOUS
<1>1. CASE DrawNext
  BY <1>1, StepKeepsToolInv, StepKeepsShapeInv DEF IInv
<1>2. CASE UNCHANGED drawVars
  BY <1>2 DEF drawVars, IInv, ToolInv, ToolTypes, OneTool, GestureOfTool, TimerNeedsTool,
              ShapeInv, ShapeTypes, UnsavedOfTool, CopiesRight, EveryShapeSelects, MapMatchesModel
<1> QED
  BY <1>1, <1>2

LEMMA Inductive == DrawSpec => []IInv
  BY InitIInv, NextIInv, PTL DEF DrawSpec

(* The tools and the shapes have their types.                              *)
THEOREM TypeCorrect == DrawSpec => []DrawTypeOK
<1>1. IInv => DrawTypeOK
  BY DEF IInv, ToolInv, ToolTypes, ShapeInv, ShapeTypes, DrawTypeOK
<1> QED
  BY <1>1, Inductive, PTL

(* At most one of the four tools is enabled, and it is the active one.     *)
THEOREM AlwaysOneTool == DrawSpec => []OneTool
<1>1. IInv => OneTool
  BY DEF IInv, ToolInv
<1> QED
  BY <1>1, Inductive, PTL

(* The timer of the error message never outlives the polygon tool.         *)
THEOREM TimersNeedTool == DrawSpec => []TimerNeedsTool
<1>1. IInv => TimerNeedsTool
  BY DEF IInv, ToolInv
<1> QED
  BY <1>1, Inductive, PTL

(* Every shape on the map or clicked away has its selection.               *)
THEOREM ShapesSelect == DrawSpec => []EveryShapeSelects
<1>1. IInv => EveryShapeSelects
  BY DEF IInv, ShapeInv
<1> QED
  BY <1>1, Inductive, PTL

(* What the charts are asked for is what the map shows.                    *)
THEOREM MapsMatchModel == DrawSpec => []MapMatchesModel
<1>1. IInv => MapMatchesModel
  BY DEF IInv, ShapeInv
<1> QED
  BY <1>1, Inductive, PTL

-----------------------------------------------------------------------------
(***************************************************************************)
(* For every number of buckets, every horizon and every set of bins, and   *)
(* whatever comes in meanwhile: the bounds of time that are found are      *)
(* exact, and a search fails only if there was nothing to find.            *)
(***************************************************************************)

(* The buckets of a request cover its interval and the end of it.          *)
LEMMA BucketsCover ==
  ASSUME NEW len \in Nat
  PROVE  BinSize(len) \in Nat /\ BinSize(len) > 0 /\ len < Elem * BinSize(len)
<1> DEFINE q == len \div Elem
<1>1. Elem \in Nat /\ Elem > 2
  BY BoundAssumption DEF BoundAssumption
<1>2. q \in Nat /\ len < Elem * q + Elem
  BY <1>1
<1> HIDE DEF q
<1>3. Elem * (q + 1) = Elem * q + Elem
  BY <1>1, <1>2
<1> QED
  BY <1>2, <1>3 DEF BinSize, q

(* The bucket of a distance from the start.                                *)
LEMMA BucketOf ==
  ASSUME NEW d \in Nat, NEW width \in Nat, width > 0
  PROVE  \E j \in Nat : j * width <= d /\ d < (j + 1) * width
<1> DEFINE j == d \div width
<1>1. j \in Nat /\ j * width <= d /\ d < j * width + width
  OBVIOUS
<1> HIDE DEF j
<1>2. (j + 1) * width = j * width + width
  BY <1>1
<1> QED
  BY <1>1, <1>2

LEMMA MoreBuckets ==
  ASSUME NEW i \in Int, NEW j \in Int, NEW width \in Nat, i <= j
  PROVE  i * width <= j * width
<1>1. (j - i) * width >= 0
  OBVIOUS
<1>2. (j - i) * width = j * width - i * width
  OBVIOUS
<1> QED
  BY <1>1, <1>2

(* A record in the interval of a request is in one of its buckets.         *)
LEMMA InSomeBucket ==
  ASSUME NEW from \in Nat, NEW width \in Nat, width > 0, stored \subseteq Nat,
         NEW b \in stored, from <= b, b < from + Elem * width
  PROVE  \E j \in Hits(from, width) : from + j * width <= b /\ b < from + (j + 1) * width
<1>1. Elem \in Nat
  BY BoundAssumption DEF BoundAssumption
<1>2. b - from \in Nat
  OBVIOUS
<1>3. PICK j \in Nat : j * width <= b - from /\ b - from < (j + 1) * width
  BY <1>2, BucketOf
<1>4. j * width \in Nat /\ (j + 1) * width \in Nat /\ Elem * width \in Nat
  BY <1>1
<1>5. j < Elem
  <2> SUFFICES ASSUME Elem <= j PROVE FALSE
    BY <1>1
  <2> QED
    BY <1>1, <1>3, <1>4, MoreBuckets
<1>6. from + j * width <= b /\ b < from + (j + 1) * width
  BY <1>3, <1>4
<1>7. j \in Hits(from, width)
  BY <1>1, <1>5, <1>6 DEF Hits
<1> QED
  BY <1>6, <1>7
--------------------------------------------------------------------------------
(***************************************************************************)
(* The invariant: no record of atLoad is on the wrong side of the interval *)
(* that is searched, and while there is a record at all there is one in    *)
(* the interval, as the bucket a search goes on in was not empty.          *)
(***************************************************************************)
End(side) == start[side] + Elem * BinSize(length[side])

NothingMissed ==
  /\ \A b \in atLoad : start["min"] <= b
  /\ state["max"] = "asking" => \A b \in atLoad : b < End("max")

SomethingLeft ==
  \A side \in Sides : state[side] = "asking" /\ atLoad # {} =>
    \E b \in stored : start[side] <= b /\ b < End(side)

BInv == BoundTypeOK /\ NothingMissed /\ SomethingLeft /\ BoundsExact /\ FailsOnlyEmpty

LEMMA StoredNat ==
  ASSUME BoundTypeOK
  PROVE  stored \subseteq Nat /\ atLoad \subseteq stored
  BY BoundAssumption DEF BoundAssumption, BoundTypeOK

LEMMA InitBInv == BoundInit => BInv
<1> SUFFICES ASSUME BoundInit PROVE BInv
  OBVIOUS
<1>1. BoundTypeOK
  BY BoundAssumption DEF BoundAssumption, BoundInit, BoundTypeOK
<1>2. \A side \in Sides : start[side] = 0 /\ length[side] = Horizon /\ state[side] = "asking"
  BY DEF BoundInit
<1>3. \A b \in atLoad : b \in stored /\ 0 <= b /\ b <= Horizon /\ b \in Nat
  BY BoundAssumption DEF BoundAssumption, BoundInit
<1>4. Horizon < Elem * BinSize(Horizon) /\ BinSize(Horizon) \in Nat /\ Horizon \in Nat /\ Elem \in Nat
  BY BucketsCover, BoundAssumption DEF BoundAssumption
<1>5. \A b \in atLoad, side \in Sides : start[side] <= b /\ b < End(side)
  BY <1>2, <1>3, <1>4 DEF End
<1> QED
  BY <1>1, <1>2, <1>3, <1>5 DEF BInv, NothingMissed, SomethingLeft, BoundsExact, FailsOnlyEmpty, Sides

(* A search goes on in a bucket, or ends there.                            *)
LEMMA NarrowKeepsBInv ==
  ASSUME BInv, NEW side \in Sides, Narrow(side)
  PROVE  BInv'
<1> DEFINE width == BinSize(length[side])
<1>1. /\ stored \subseteq Nat /\ atLoad \subseteq stored
      /\ start \in [Sides -> Nat] /\ length \in [Sides -> Nat]
      /\ state \in [Sides -> {"asking", "found", "failed"}]
      /\ Elem \in Nat /\ state[side] = "asking"
  BY StoredNat, BoundAssumption DEF BoundAssumption, BInv, BoundTypeOK, Narrow
<1>2. width \in Nat /\ width > 0
  BY <1>1, BucketsCover
<1>3. PICK i \in Hits(start[side], width) :
        /\ IsBound(side, i, Hits(start[side], width))
        /\ start' = [start EXCEPT ![side] = @ + i * width]
        /\ IF width > 1
           THEN length' = [length EXCEPT ![side] = width] /\ state' = state
           ELSE length' = length /\ state' = [state EXCEPT ![side] = "found"]
  BY DEF Narrow
<1>4. stored' = stored /\ atLoad' = atLoad
  BY DEF Narrow
<1> HIDE DEF width
<1>5. PICK hit \in stored : start[side] + i * width <= hit /\ hit < start[side] + (i + 1) * width
  BY DEF Hits
<1>6. i \in Nat /\ i * width \in Nat /\ (i + 1) * width = i * width + width
  BY <1>1, <1>2 DEF Hits
<1>7. start'[side] = start[side] + i * width /\ start'[side] \in Nat
  BY <1>1, <1>3, <1>6
<1>8. \A other \in Sides : other # side =>
        start'[other] = start[other] /\ length'[other] = length[other] /\ state'[other] = state[other]
  BY <1>1, <1>3
<1>9. BoundTypeOK'
  BY <1>1, <1>2, <1>3, <1>4, <1>6 DEF BInv, BoundTypeOK
<1>10. side = "min" => \A b \in atLoad : start'[side] <= b
  <2> SUFFICES ASSUME side = "min", NEW b \in atLoad, b < start'[side] PROVE FALSE
    BY <1>1, <1>7
  <2>1. start[side] <= b /\ b \in stored /\ b \in Nat
    BY <1>1 DEF BInv, NothingMissed
  <2>2. b < start[side] + Elem * width
    <3>1. i <= Elem /\ i * width <= Elem * width /\ Elem * width \in Nat
      BY <1>1, <1>2, <1>6, MoreBuckets DEF Hits
    <3> QED
      BY <1>1, <1>6, <1>7, <2>1, <3>1
  <2>3. PICK j \in Hits(start[side], width) : start[side] + j * width <= b
    BY <1>1, <1>2, <2>1, <2>2, InSomeBucket
  <2>4. j \in Nat /\ i <= j
    BY <1>1, <1>3, <2>3 DEF IsBound, Hits
  <2> QED
    BY <1>1, <1>2, <1>6, <1>7, <2>1, <2>3, <2>4, MoreBuckets
<1>11. side = "max" => \A b \in atLoad : b < start'[side] + width
  <2> SUFFICES ASSUME side = "max", NEW b \in atLoad, start'[side] + width <= b PROVE FALSE
    BY <1>1, <1>2, <1>7
  <2>1. b < start[side] + Elem * width /\ b \in stored /\ b \in Nat
    BY <1>1 DEF BInv, NothingMissed, End, width
  <2>2. start[side] <= b
    BY <1>1, <1>2, <1>6, <1>7, <2>1
  <2>3. PICK j \in Hits(start[side], width) : b < start[side] + (j + 1) * width
    BY <1>1, <1>2, <2>1, <2>2, InSomeBucket
  <2>4. j \in Nat /\ j <= i
    BY <1>1, <1>3, <2>3 DEF IsBound, Hits
  <2>5. j + 1 <= i + 1 /\ (j + 1) * width <= (i + 1) * width /\ (j + 1) * width \in Nat
    BY <1>2, <1>6, <2>4, MoreBuckets
  <2> QED
    BY <1>1, <1>2, <1>6, <1>7, <2>1, <2>3, <2>5
<1>12. CASE width > 1
  <2>1. length'[side] = width /\ state' = state
    BY <1>1, <1>3, <1>12
  <2>2. width < Elem * BinSize(width) /\ Elem * BinSize(width) \in Nat
    BY <1>1, <1>2, BucketsCover
  <2>3. End(side)' = start'[side] + Elem * BinSize(width)
    BY <2>1 DEF End, BinSize
  <2>4. \A other \in Sides : other # side => End(other)' = End(other)
    BY <1>8 DEF End, BinSize
  <2>5. NothingMissed'
    <3>1. CASE side = "min"
      BY <1>4, <1>8, <1>10, <2>1, <2>4, <3>1 DEF BInv, NothingMissed, Sides
    <3>2. CASE side = "max"
      <4>1. \A b \in atLoad : b < End(side)'
        BY <1>1, <1>2, <1>7, <1>11, <2>2, <2>3, <3>2
      <4> QED
        BY <1>4, <1>8, <3>2, <4>1 DEF BInv, NothingMissed, Sides
    <3> QED
      BY <3>1, <3>2 DEF Sides
  <2>6. SomethingLeft'
    <3>1. hit \in stored' /\ start'[side] <= hit /\ hit < End(side)'
      BY <1>1, <1>2, <1>4, <1>5, <1>6, <1>7, <2>2, <2>3
    <3>2. \A other \in Sides : other # side =>
            (state'[other] = "asking" /\ atLoad' # {} =>
               \E b \in stored' : start'[other] <= b /\ b < End(other)')
      BY <1>4, <1>8, <2>4 DEF BInv, SomethingLeft
    <3> QED
      BY <3>1, <3>2 DEF SomethingLeft
  <2>7. BoundsExact' /\ FailsOnlyEmpty'
    BY <1>1, <1>4, <1>8, <2>1 DEF BInv, BoundsExact, FailsOnlyEmpty, Sides
  <2> QED
    BY <1>9, <2>5, <2>6, <2>7 DEF BInv
<1>13. CASE ~(width > 1)
  <2>1. width = 1 /\ state'[side] = "found" /\ length' = length
    BY <1>1, <1>2, <1>3, <1>13
  <2>2. start'[side] = hit
    BY <1>1, <1>5, <1>6, <1>7, <2>1
  <2>3. \A other \in Sides : other # side => End(other)' = End(other)
    BY <1>8 DEF End, BinSize
  <2>4. NothingMissed'
    <3>1. CASE side = "min"
      BY <1>4, <1>8, <1>10, <2>3, <3>1 DEF BInv, NothingMissed, Sides
    <3>2. CASE side = "max"
      BY <1>4, <1>8, <2>1, <3>2 DEF BInv, NothingMissed, Sides
    <3> QED
      BY <3>1, <3>2 DEF Sides
  <2>5. SomethingLeft'
    BY <1>4, <1>8, <2>1, <2>3 DEF BInv, SomethingLeft
  <2>6. BoundsExact'
    <3>1. CASE side = "min"
      BY <1>4, <1>8, <1>10, <2>2, <3>1 DEF BInv, BoundsExact, Sides
    <3>2. CASE side = "max"
      <4>1. \A b \in atLoad : b <= start'[side]
        BY <1>1, <1>7, <1>11, <2>1, <3>2
      <4> QED
        BY <1>4, <1>8, <2>2, <3>2, <4>1 DEF BInv, BoundsExact, Sides
    <3> QED
      BY <3>1, <3>2 DEF Sides
  <2>7. FailsOnlyEmpty'
    BY <1>4, <1>8, <2>1 DEF BInv, FailsOnlyEmpty
  <2> QED
    BY <1>9, <2>4, <2>5, <2>6, <2>7 DEF BInv
<1> QED
  BY <1>12, <1>13

(* A search fails only when the server holds nothing in its interval.      *)
LEMMA FailKeepsBInv ==
  ASSUME BInv, NEW side \in Sides, Fail(side)
  PROVE  BInv'
<1>1. /\ stored \subseteq Nat /\ start \in [Sides -> Nat] /\ length \in [Sides -> Nat]
      /\ state \in [Sides -> {"asking", "found", "failed"}]
      /\ state[side] = "asking" /\ state' = [state EXCEPT ![side] = "failed"]
      /\ UNCHANGED <<stored, atLoad, start, length>>
      /\ Hits(start[side], BinSize(length[side])) = {}
  BY StoredNat DEF BInv, BoundTypeOK, Fail
<1>2. BinSize(length[side]) \in Nat /\ BinSize(length[side]) > 0
  BY <1>1, BucketsCover
<1>3. atLoad = {}
  BY <1>1, <1>2, InSomeBucket DEF BInv, SomethingLeft, End
<1>4. \A other \in Sides : other # side => state'[other] = state[other]
  BY <1>1
<1>5. BoundTypeOK'
  BY <1>1 DEF BInv, BoundTypeOK
<1>6. NothingMissed' /\ SomethingLeft' /\ BoundsExact' /\ FailsOnlyEmpty'
  BY <1>1, <1>3, <1>4 DEF BInv, NothingMissed, SomethingLeft, BoundsExact, FailsOnlyEmpty, Sides
<1> QED
  BY <1>5, <1>6 DEF BInv

LEMMA InsertKeepsBInv ==
  ASSUME BInv, NEW bin \in Bins, Insert(bin)
  PROVE  BInv'
<1>1. stored' = stored \cup {bin} /\ UNCHANGED <<atLoad, start, length, state>>
  BY DEF Insert
<1>2. \A side \in Sides : End(side)' = End(side)
  BY <1>1 DEF End, BinSize
<1>3. BoundTypeOK'
  BY <1>1 DEF BInv, BoundTypeOK
<1>4. NothingMissed' /\ SomethingLeft'
  BY <1>1, <1>2 DEF BInv, NothingMissed, SomethingLeft, Sides
<1>5. BoundsExact' /\ FailsOnlyEmpty'
  BY <1>1 DEF BInv, BoundsExact, FailsOnlyEmpty
<1> QED
  BY <1>3, <1>4, <1>5 DEF BInv

LEMMA NextBInv == BInv /\ [BoundNext]_boundVars => BInv'
<1> SUFFICES ASSUME BInv, [BoundNext]_boundVars PROVE BInv'
  OBVIOUS
<1>1. CASE BoundNext
  BY <1>1, NarrowKeepsBInv, FailKeepsBInv, InsertKeepsBInv DEF BoundNext
<1>2. CASE UNCHANGED boundVars
  BY <1>2 DEF boundVars, BInv, BoundTypeOK, NothingMissed, SomethingLeft, End, BinSize,
              BoundsExact, FailsOnlyEmpty
<1> QED
  BY <1>1, <1>2

LEMMA BoundInductive == BoundSpec => []BInv
  BY InitBInv, NextBInv, PTL DEF BoundSpec

(* The bounds that are found are exact.                                    *)
THEOREM BoundsAreExact == BoundSpec => []BoundsExact
<1>1. BInv => BoundsExact
  BY DEF BInv
<1> QED
  BY <1>1, BoundInductive, PTL

(* A search fails only if there was nothing when the page was loaded.      *)
THEOREM FailsOnNothing == BoundSpec => []FailsOnlyEmpty
<1>1. BInv => FailsOnlyEmpty
  BY DEF BInv
<1> QED
  BY <1>1, BoundInductive, PTL

-----------------------------------------------------------------------------
(***************************************************************************)
(* What a redraw, an answer and a failure do to the requests, to what the  *)
(* charts show and to the tiles of the heat map, for every set of records, *)
(* of shapes, of categories and of views.                                  *)
(***************************************************************************)

(***************************************************************************)
(* The total.  Every step that changes what the total depends on asks for  *)
(* it again, and makes all older requests for it count as such; so the     *)
(* newest request, while there is one, asks for the total of now.          *)
(***************************************************************************)
TotalQuery(tv, cs) == Query("total", "location", tv, cs, NoShapes)

DataShape(d) ==
  /\ d = [shown |-> d.shown, cache |-> d.cache, requests |-> d.requests, outdated |-> d.outdated]
  /\ \A r \in d.requests : /\ r = [series |-> r.series, query |-> r.query, newest |-> r.newest]
                           /\ r.newest \in BOOLEAN

AsksFor(d, s, query) == \A r \in d.requests : r.series = s /\ r.newest => r.query = query
Awaits(d, s) == \E r \in d.requests : r.series = s /\ r.newest

TInv == /\ DataShape(data)
        /\ AsksFor(data, Total, TotalQuery(timeVar, cats))
        /\ TotalCurrent

LEMMA TotalQueryIs ==
  ASSUME NEW sel, "location" \notin DOMAIN sel, NEW tv, NEW cs
  PROVE  Query("total", "location", tv, cs, sel) = TotalQuery(tv, cs)
<1>1. "location" \notin DOMAIN NoShapes
  BY NoShapesIs
<1> QED
  BY <1>1 DEF TotalQuery, Query, PlaceOf

(* What a redraw does to the requests for the total.                       *)
LEMMA RedrawAsks ==
  ASSUME NEW d, DataShape(d), NEW tv, NEW cs, NEW sel, "location" \notin DOMAIN sel,
         NEW vs, vs \subseteq Variables, NEW e, e = Redraw(d, tv, cs, sel, vs)
  PROVE  DataShape(e) /\ AsksFor(e, Total, TotalQuery(tv, cs)) /\ Awaits(e, Total)
<1> DEFINE asked == vs \X Keys(sel)
           Q(s) == Query(s[1], s[2], tv, cs, sel)
           hits == {s \in asked : Q(s) \in d.cache}
           Request(s) == [series |-> s, query |-> Q(s), newest |-> TRUE]
           missed == {Request(s) : s \in (asked \ hits) \cup {Total}}
           older == {[r EXCEPT !.newest = @ /\ r.series \notin asked \cup {Total}] : r \in d.requests}
<1>1. /\ e.requests = older \cup missed
      /\ e = [shown |-> e.shown, cache |-> e.cache, requests |-> e.requests, outdated |-> e.outdated]
  BY DEF Redraw, DataShape
<1>2. \A r \in older : /\ r = [series |-> r.series, query |-> r.query, newest |-> r.newest]
                       /\ r.newest \in BOOLEAN
                       /\ r.series = Total => ~r.newest
  <2> SUFFICES ASSUME NEW r \in older
               PROVE  /\ r = [series |-> r.series, query |-> r.query, newest |-> r.newest]
                      /\ r.newest \in BOOLEAN
                      /\ r.series = Total => ~r.newest
    OBVIOUS
  <2>1. PICK o \in d.requests : r = [o EXCEPT !.newest = @ /\ o.series \notin asked \cup {Total}]
    OBVIOUS
  <2>2. o = [series |-> o.series, query |-> o.query, newest |-> o.newest] /\ o.newest \in BOOLEAN
    BY DEF DataShape
  <2> HIDE DEF asked, older
  <2>3. r = [series |-> o.series, query |-> o.query,
             newest |-> o.newest /\ o.series \notin asked \cup {Total}]
    BY <2>1, <2>2
  <2> QED
    BY <2>3
<1>3. Total \notin asked
  BY DEF Total, Variables
<1>4. Q(Total) = TotalQuery(tv, cs)
  <2>1. Total[1] = "total" /\ Total[2] = "location"
    BY DEF Total
  <2>2. Q(Total) = Query("total", "location", tv, cs, sel)
    BY <2>1
  <2> QED
    BY <2>2, TotalQueryIs
<1>5. \A r \in missed : /\ r = [series |-> r.series, query |-> r.query, newest |-> r.newest]
                        /\ r.newest \in BOOLEAN
                        /\ r.series = Total => r.query = TotalQuery(tv, cs)
  <2> SUFFICES ASSUME NEW r \in missed
               PROVE  /\ r = [series |-> r.series, query |-> r.query, newest |-> r.newest]
                      /\ r.newest \in BOOLEAN
                      /\ r.series = Total => r.query = TotalQuery(tv, cs)
    OBVIOUS
  <2>1. PICK s : r = Request(s)
    OBVIOUS
  <2>2. r = [series |-> s, query |-> Q(s), newest |-> TRUE]
    BY <2>1
  <2> HIDE DEF missed, Q
  <2> QED
    BY <1>4, <2>2
<1>6. Request(Total) \in missed /\ Request(Total).series = Total /\ Request(Total).newest
  OBVIOUS
<1> HIDE DEF older, missed, Request
<1> QED
  BY <1>1, <1>2, <1>5, <1>6 DEF DataShape, AsksFor, Awaits
--------------------------------------------------------------------------------
\* After a redraw with the selections of now the total is awaited.
LEMMA RedrawnKeepsTInv ==
  ASSUME NEW d, DataShape(d), NEW tv, NEW sel, "location" \notin DOMAIN sel,
         NEW vs, vs \subseteq Variables, data' = Redraw(d, tv, cats', sel, vs),
         timeVar'.selStart = tv.selStart, timeVar'.selBins = tv.selBins
  PROVE  TInv'
<1>1. DataShape(data') /\ AsksFor(data', Total, TotalQuery(tv, cats')) /\ Awaits(data', Total)
  BY RedrawAsks
<1>2. TotalQuery(timeVar', cats') = TotalQuery(tv, cats')
  BY DEF TotalQuery, Query, AddTime
<1>3. TotalCurrent'
  BY <1>1 DEF Awaits, TotalCurrent, Answered
<1> QED
  BY <1>1, <1>2, <1>3 DEF TInv

LEMMA ClampedIs ==
  ASSUME NEW tv, NEW vs
  PROVE  Clamped(tv, vs).selStart = tv.selStart /\ Clamped(tv, vs).selBins = tv.selBins
  BY DEF Clamped

\* An answer or a failure settles one request.
LEMMA ReceiveKeepsTInv ==
  ASSUME TInv, NEW r \in data.requests, Receive(r), UNCHANGED <<timeVar, cats>>
  PROVE  TInv'
<1>1. DataShape(data) /\ AsksFor(data, Total, TotalQuery(timeVar, cats)) /\ TotalCurrent
  BY DEF TInv
<1>2. /\ data'.requests = data.requests \ {r}
      /\ data' = [shown |-> data'.shown, cache |-> data'.cache, requests |-> data'.requests,
                  outdated |-> data'.outdated]
  BY <1>1 DEF Receive, DataShape
<1>3. DataShape(data') /\ AsksFor(data', Total, TotalQuery(timeVar, cats))
  BY <1>1, <1>2 DEF DataShape, AsksFor
<1>4. CASE r.series = Total
  <2>1. data'.shown = Over(data.shown, One(Total, Series(Total, r.query, timeVar)))
    BY <1>1, <1>4 DEF Receive, DataShape
  <2>2. Total \in DOMAIN data'.shown /\ data'.shown[Total] = Series(Total, r.query, timeVar)
    BY <2>1 DEF Over, One
  <2>3. CASE r.newest
    <3>1. r.query = TotalQuery(timeVar, cats)
      BY <1>1, <1>4, <2>3 DEF AsksFor
    <3> QED
      BY <1>3, <2>2, <3>1 DEF TInv, TotalCurrent, TotalQuery
  <2>4. CASE ~r.newest
    <3>1. Total \in data'.outdated
      BY <1>1, <1>4, <2>4 DEF Receive, DataShape
    <3> QED
      BY <1>3, <3>1 DEF TInv, TotalCurrent, Answered
  <2> QED
    BY <2>3, <2>4
<1>5. CASE r.series # Total
  <2>1. Total \in data.outdated => Total \in data'.outdated
    BY <1>1, <1>5 DEF Receive, DataShape
  <2>2. \/ data'.shown = data.shown
        \/ data'.shown = Over(data.shown, One(r.series, Series(r.series, r.query, timeVar)))
    BY <1>1, <1>5 DEF Receive, DataShape
  <2>3. Total \in DOMAIN data.shown =>
          Total \in DOMAIN data'.shown /\ data'.shown[Total] = data.shown[Total]
    BY <1>5, <2>2 DEF Over, One
  <2>4. Answered(Total)' => Answered(Total)
    BY <1>2, <1>5, <2>1 DEF Answered, Built
  <2> QED
    BY <1>1, <1>3, <2>3, <2>4 DEF TInv, TotalCurrent, TotalQuery
<1> QED
  BY <1>4, <1>5

LEMMA LoseKeepsTInv ==
  ASSUME TInv, NEW r \in data.requests, Lose(r), UNCHANGED <<timeVar, cats>>
  PROVE  TInv'
<1>1. DataShape(data) /\ AsksFor(data, Total, TotalQuery(timeVar, cats)) /\ TotalCurrent
  BY DEF TInv
<1>2. /\ data'.requests = data.requests \ {r} /\ data'.shown = data.shown
      /\ data'.outdated = IF r.newest THEN data.outdated \cup {r.series} ELSE data.outdated
      /\ data' = [shown |-> data'.shown, cache |-> data'.cache, requests |-> data'.requests,
                  outdated |-> data'.outdated]
  BY <1>1 DEF Lose, DataShape
<1>3. DataShape(data') /\ AsksFor(data', Total, TotalQuery(timeVar, cats))
  BY <1>1, <1>2 DEF DataShape, AsksFor
<1>4. Answered(Total)' => Answered(Total)
  BY <1>2 DEF Answered, Built
<1> QED
  BY <1>1, <1>2, <1>3, <1>4 DEF TInv, TotalCurrent, TotalQuery
--------------------------------------------------------------------------------
(***************************************************************************)
(* The series of the charts.  For every chart and every selection, the     *)
(* newest request, while there is one, asks what the page would ask now;   *)
(* and the series shows the answer to that, or waits for it, or is known   *)
(* to be outdated.  A redraw of one chart may leave the other alone: what  *)
(* its query and its dates depend on is then unchanged.                    *)
(***************************************************************************)
IsShown(d, s, query, tv) == s \in DOMAIN d.shown /\ d.shown[s] = Series(s, query, tv)

SeriesInv(d, tv, cs, sel) ==
  \A v \in Variables, k \in Keys(sel) :
    /\ AsksFor(d, <<v, k>>, Query(v, k, tv, cs, sel))
    /\ tv.nbins > 0 => \/ Awaits(d, <<v, k>>) \/ <<v, k>> \in d.outdated
                       \/ IsShown(d, <<v, k>>, Query(v, k, tv, cs, sel), tv)

ShownLive(d, sel) ==
  \A s \in DOMAIN d.shown : s[2] \in DOMAIN sel \cup {"location"} \/ s \in d.outdated

TimeShape(tv) == DOMAIN tv = {"start", "nbins", "selStart", "selBins"}

CInv == /\ DataShape(data) /\ TimeShape(timeVar)
        /\ SeriesInv(data, timeVar, cats, selection)
        /\ ShownLive(data, selection)

LEMMA CInvCurrent == CInv => ChartsCurrent
<1> SUFFICES ASSUME CInv PROVE ChartsCurrent
  OBVIOUS
<1>1. SeriesInv(data, timeVar, cats, selection) /\ ShownLive(data, selection)
  BY DEF CInv
<1>2. ASSUME NEW v \in Variables, NEW k \in Keys(selection), Answered(<<v, k>>)
      PROVE  IsShown(data, <<v, k>>, Query(v, k, timeVar, cats, selection), timeVar)
  <2>1. timeVar.nbins > 0 /\ <<v, k>> \notin data.outdated /\ ~Awaits(data, <<v, k>>)
    BY <1>2 DEF Answered, Built, Awaits
  <2> QED
    BY <1>1, <2>1 DEF SeriesInv
<1>3. DOMAIN selection \subseteq Keys(selection)
  BY DEF Keys
<1> QED
  BY <1>1, <1>2, <1>3 DEF ChartsCurrent, IsShown, ShownLive

AsksOrShows(d, e, tv, cs, sel, vs) ==
  \A v \in vs : \A k \in Keys(sel) :
    /\ AsksFor(e, <<v, k>>, Query(v, k, tv, cs, sel))
    /\ \/ Awaits(e, <<v, k>>)
       \/ /\ Query(v, k, tv, cs, sel) \in d.cache
          /\ IsShown(e, <<v, k>>, Query(v, k, tv, cs, sel), Clamped(tv, vs))

(* A redraw asks for the series of the charts vs, or shows them from the   *)
(* cache, and leaves the others as they were.                              *)
LEMMA RedrawDoes ==
  ASSUME NEW d, DataShape(d), NEW tv, NEW cs, NEW sel,
         NEW vs, vs \subseteq Variables, NEW e, e = Redraw(d, tv, cs, sel, vs)
  PROVE  /\ AsksOrShows(d, e, tv, cs, sel, vs)
         /\ \A s : s \notin vs \X Keys(sel) /\ s # Total =>
              /\ s \in DOMAIN e.shown <=> s \in DOMAIN d.shown
              /\ s \in DOMAIN d.shown => e.shown[s] = d.shown[s]
              /\ s \in e.outdated <=> s \in d.outdated
              /\ Awaits(d, s) => Awaits(e, s)
              /\ \A q : AsksFor(d, s, q) => AsksFor(e, s, q)
         /\ \A s \in DOMAIN e.shown : s \in vs \X Keys(sel) \/ s \in DOMAIN d.shown
         /\ \A s \in d.outdated : s \in vs \X Keys(sel) \/ s \in e.outdated
<1> DEFINE asked == vs \X Keys(sel)
           Q(s) == Query(s[1], s[2], tv, cs, sel)
           hits == {s \in asked : Q(s) \in d.cache}
           Request(s) == [series |-> s, query |-> Q(s), newest |-> TRUE]
           missed == {Request(s) : s \in (asked \ hits) \cup {Total}}
           Older(r) == [r EXCEPT !.newest = @ /\ r.series \notin asked \cup {Total}]
           older == {Older(r) : r \in d.requests}
           fresh == [s \in hits |-> Series(s, Q(s), Clamped(tv, vs))]
<1>1. /\ e.requests = older \cup missed /\ e.shown = Over(d.shown, fresh)
      /\ e.outdated = d.outdated \ hits
  BY DEF Redraw, DataShape
<1>2. \A r \in d.requests :
        /\ Older(r).series = r.series /\ Older(r).query = r.query
        /\ Older(r).newest <=> r.newest /\ r.series \notin asked \cup {Total}
  <2> SUFFICES ASSUME NEW r \in d.requests
               PROVE  /\ Older(r).series = r.series /\ Older(r).query = r.query
                      /\ Older(r).newest <=> r.newest /\ r.series \notin asked \cup {Total}
    OBVIOUS
  <2>1. r = [series |-> r.series, query |-> r.query, newest |-> r.newest] /\ r.newest \in BOOLEAN
    BY DEF DataShape
  <2> DEFINE still == r.newest /\ r.series \notin asked \cup {Total}
  <2> HIDE DEF asked
  <2>2. Older(r) = [series |-> r.series, query |-> r.query, newest |-> still]
    BY <2>1
  <2> HIDE DEF Older, still
  <2>3. Older(r).series = r.series /\ Older(r).query = r.query /\ Older(r).newest = still
    BY <2>2
  <2> QED
    BY <2>3 DEF still
<1>3. \A s : Request(s).series = s /\ Request(s).query = Q(s) /\ Request(s).newest
  OBVIOUS
<1>4. /\ \A s \in hits : s \in DOMAIN e.shown /\ e.shown[s] = Series(s, Q(s), Clamped(tv, vs))
      /\ \A s : s \in DOMAIN e.shown <=> s \in hits \/ s \in DOMAIN d.shown
      /\ \A s \in DOMAIN d.shown : s \notin hits => e.shown[s] = d.shown[s]
  <2> HIDE DEF hits, Q
  <2> QED
    BY <1>1 DEF Over
<1>5. Total \notin asked
  BY DEF Total, Variables
<1>6. /\ \A s : s \in hits <=> s \in asked /\ Q(s) \in d.cache
      /\ \A r : r \in older <=> \E o \in d.requests : r = Older(o)
      /\ \A r : r \in missed <=> \E s \in (asked \ hits) \cup {Total} : r = Request(s)
  OBVIOUS
<1>7. \A v \in vs, k \in Keys(sel) : <<v, k>> \in asked /\ Q(<<v, k>>) = Query(v, k, tv, cs, sel)
  OBVIOUS
<1> HIDE DEF asked, Q, hits, Request, missed, Older, older, fresh
<1>8. ASSUME NEW v \in vs, NEW k \in Keys(sel)
      PROVE  /\ AsksFor(e, <<v, k>>, Query(v, k, tv, cs, sel))
             /\ \/ Awaits(e, <<v, k>>)
                \/ /\ Query(v, k, tv, cs, sel) \in d.cache
                   /\ IsShown(e, <<v, k>>, Query(v, k, tv, cs, sel), Clamped(tv, vs))
  <2> DEFINE s == <<v, k>>
  <2>1. s \in asked /\ Q(s) = Query(v, k, tv, cs, sel)
    BY <1>7
  <2> HIDE DEF s
  <2>2. AsksFor(e, s, Q(s))
    BY <1>1, <1>2, <1>3, <1>6, <2>1 DEF AsksFor
  <2>3. CASE s \in hits
    BY <1>4, <1>6, <2>1, <2>2, <2>3 DEF IsShown, s
  <2>4. CASE s \notin hits
    <3>1. Request(s) \in e.requests
      BY <1>1, <1>6, <2>1, <2>4
    <3>2. Awaits(e, s)
      BY <1>3, <3>1 DEF Awaits
    <3> QED
      BY <2>1, <2>2, <3>2 DEF s
  <2> QED
    BY <2>3, <2>4
<1>9. ASSUME NEW s, s \notin asked, s # Total
      PROVE  /\ s \in DOMAIN e.shown <=> s \in DOMAIN d.shown
             /\ s \in DOMAIN d.shown => e.shown[s] = d.shown[s]
             /\ s \in e.outdated <=> s \in d.outdated
             /\ Awaits(d, s) => Awaits(e, s)
             /\ \A q : AsksFor(d, s, q) => AsksFor(e, s, q)
  <2>1. s \notin hits
    BY <1>6, <1>9
  <2>2. Awaits(d, s) => Awaits(e, s)
    <3> SUFFICES ASSUME NEW r \in d.requests, r.series = s, r.newest PROVE Awaits(e, s)
      BY DEF Awaits
    <3>1. Older(r) \in e.requests /\ Older(r).series = s /\ Older(r).newest
      BY <1>1, <1>2, <1>6, <1>9
    <3> QED
      BY <3>1 DEF Awaits
  <2>3. \A q : AsksFor(d, s, q) => AsksFor(e, s, q)
    <3> SUFFICES ASSUME NEW q, AsksFor(d, s, q), NEW r \in e.requests, r.series = s, r.newest
                 PROVE  r.query = q
      BY DEF AsksFor
    <3>1. r \notin missed
      BY <1>3, <1>6, <1>9
    <3>2. PICK o \in d.requests : r = Older(o)
      BY <1>1, <1>6, <3>1
    <3> QED
      BY <1>2, <3>2 DEF AsksFor
  <2> QED
    BY <1>1, <1>4, <2>1, <2>2, <2>3
<1>10. \A s \in DOMAIN e.shown : s \in asked \/ s \in DOMAIN d.shown
  BY <1>4, <1>6
<1>11. \A s \in d.outdated : s \in asked \/ s \in e.outdated
  BY <1>1, <1>6
<1> QED
  BY <1>8, <1>9, <1>10, <1>11 DEF asked, AsksOrShows

\* Clamping the start of the axis changes neither a query nor the size of the axis.
LEMMA ClampedQuery ==
  ASSUME NEW tv, TimeShape(tv), NEW vs, NEW c, c = Clamped(tv, vs)
  PROVE  /\ TimeShape(c) /\ c.nbins = tv.nbins
         /\ \A v, k, cs, sel : Query(v, k, c, cs, sel) = Query(v, k, tv, cs, sel)
<1>1. /\ TimeShape(c) /\ c.nbins = tv.nbins /\ c.selStart = tv.selStart /\ c.selBins = tv.selBins
      /\ c.start = tv.start \/ c.start = MaxOf(tv.start, 0)
  BY DEF Clamped, TimeShape
<1>2. MaxOf(c.start, 0) = MaxOf(tv.start, 0)
  BY <1>1 DEF MaxOf
<1>3. AddTime(c) = AddTime(tv) /\ AddSelfTime(c) = AddSelfTime(tv)
  BY <1>1, <1>2 DEF AddTime, AddSelfTime
<1> QED
  BY <1>1, <1>3 DEF Query

\* A redraw of all charts, after selections were added or moved.
LEMMA FullRedraw ==
  ASSUME NEW d, DataShape(d), NEW tv, TimeShape(tv), NEW cs, NEW old, NEW sel,
         ShownLive(d, old), DOMAIN old \subseteq DOMAIN sel, "location" \notin DOMAIN sel,
         NEW e, e = Redraw(d, tv, cs, sel, Variables), NEW c, c = Clamped(tv, Variables)
  PROVE  DataShape(e) /\ TimeShape(c) /\ SeriesInv(e, c, cs, sel) /\ ShownLive(e, sel)
<1>1. DataShape(e)
  BY RedrawAsks
<1>2. /\ TimeShape(c) /\ c.nbins = tv.nbins
      /\ \A v, k : Query(v, k, c, cs, sel) = Query(v, k, tv, cs, sel)
  BY ClampedQuery
<1>3. AsksOrShows(d, e, tv, cs, sel, Variables)
  BY RedrawDoes
<1>4. SeriesInv(e, c, cs, sel)
  BY <1>2, <1>3 DEF SeriesInv, AsksOrShows
<1>5. /\ \A s \in DOMAIN e.shown : s \in Variables \X Keys(sel) \/ s \in DOMAIN d.shown
      /\ \A s \in d.outdated : s \in Variables \X Keys(sel) \/ s \in e.outdated
  BY RedrawDoes
<1>6. \A s \in Variables \X Keys(sel) : s[2] \in DOMAIN sel \cup {"location"}
  BY DEF Keys
<1>7. ShownLive(e, sel)
  BY <1>5, <1>6 DEF ShownLive
<1> QED
  BY <1>1, <1>2, <1>4, <1>7

(* A redraw of the bars alone, after another interval of time was selected, *)
(* leaves the time chart right: its query and its dates follow the axis.    *)
LEMMA BarsRedraw ==
  ASSUME NEW d, DataShape(d), NEW tv, TimeShape(tv), NEW cs, NEW sel,
         SeriesInv(d, tv, cs, sel), ShownLive(d, sel), "location" \notin DOMAIN sel,
         NEW c, TimeShape(c), c.start = tv.start, c.nbins = tv.nbins,
         NEW e, e = Redraw(d, c, cs, sel, {"cat"})
  PROVE  DataShape(e) /\ SeriesInv(e, c, cs, sel) /\ ShownLive(e, sel)
<1>1. DataShape(e)
  BY RedrawAsks DEF Variables
<1>2. Clamped(c, {"cat"}) = c
  BY DEF Clamped
<1>3. AsksOrShows(d, e, c, cs, sel, {"cat"})
  BY RedrawDoes DEF Variables
<1>4. AddSelfTime(c) = AddSelfTime(tv)
  BY DEF AddSelfTime
<1>5. ASSUME NEW k \in Keys(sel)
      PROVE  /\ AsksFor(e, <<"time", k>>, Query("time", k, c, cs, sel))
             /\ c.nbins > 0 => \/ Awaits(e, <<"time", k>>) \/ <<"time", k>> \in e.outdated
                               \/ IsShown(e, <<"time", k>>, Query("time", k, c, cs, sel), c)
  <2> DEFINE s == <<"time", k>>
             q == Query("time", k, tv, cs, sel)
  <2>1. Query("time", k, c, cs, sel) = q
    BY <1>4 DEF Query
  <2>2. s \notin {"cat"} \X Keys(sel) /\ s # Total /\ s[1] = "time"
    BY DEF Total
  <2>3. /\ AsksFor(d, s, q)
        /\ tv.nbins > 0 => Awaits(d, s) \/ s \in d.outdated \/ IsShown(d, s, q, tv)
    BY DEF SeriesInv, Variables
  <2> HIDE DEF s, q
  <2>4. /\ s \in DOMAIN e.shown <=> s \in DOMAIN d.shown
        /\ s \in DOMAIN d.shown => e.shown[s] = d.shown[s]
        /\ s \in e.outdated <=> s \in d.outdated
        /\ Awaits(d, s) => Awaits(e, s)
        /\ AsksFor(d, s, q) => AsksFor(e, s, q)
    BY <2>2, RedrawDoes DEF Variables
  <2>5. Series(s, q, c) = Series(s, q, tv)
    BY <2>2 DEF Series, TimeList
  <2>6. IsShown(d, s, q, tv) => IsShown(e, s, q, c)
    BY <2>4, <2>5 DEF IsShown
  <2>7. /\ AsksFor(e, s, q)
        /\ c.nbins > 0 => Awaits(e, s) \/ s \in e.outdated \/ IsShown(e, s, q, c)
    BY <2>3, <2>4, <2>6
  <2> QED
    BY <2>1, <2>7 DEF s
<1>6. SeriesInv(e, c, cs, sel)
  BY <1>2, <1>3, <1>5 DEF SeriesInv, AsksOrShows, Variables
<1>7. /\ \A s \in DOMAIN e.shown : s \in {"cat"} \X Keys(sel) \/ s \in DOMAIN d.shown
      /\ \A s \in d.outdated : s \in {"cat"} \X Keys(sel) \/ s \in e.outdated
  BY RedrawDoes DEF Variables
<1>8. \A s \in {"cat"} \X Keys(sel) : s[2] \in DOMAIN sel \cup {"location"}
  BY DEF Keys
<1>9. ShownLive(e, sel)
  BY <1>7, <1>8 DEF ShownLive
<1> QED
  BY <1>1, <1>6, <1>9

(* The series of deleted selections are taken off the charts.              *)
Pruned(d, gone) ==
  [d EXCEPT !.shown = [s \in {x \in DOMAIN d.shown : x[2] \notin gone} |-> @[s]],
            !.outdated = {s \in @ : s[2] \notin gone}]

LEMMA PrunedIs ==
  ASSUME NEW d, DataShape(d), NEW old, ShownLive(d, old), NEW gone, NEW sel,
         \A k : k \in DOMAIN sel <=> k \in DOMAIN old /\ k \notin gone
  PROVE  DataShape(Pruned(d, gone)) /\ ShownLive(Pruned(d, gone), sel)
<1>0. PICK e : e = Pruned(d, gone)
  OBVIOUS
<1> DEFINE kept == {x \in DOMAIN d.shown : x[2] \notin gone}
<1>1. /\ DataShape(e)
      /\ e.shown = [s \in kept |-> d.shown[s]]
      /\ e.outdated = {s \in d.outdated : s[2] \notin gone}
  BY <1>0 DEF DataShape, Pruned
<1>2. DOMAIN e.shown = kept
  BY <1>1
<1>3. ShownLive(e, sel)
  BY <1>1, <1>2 DEF ShownLive
<1> QED
  BY <1>0, <1>1, <1>3

LEMMA ReceiveKeepsCInv ==
  ASSUME CInv, NEW r \in data.requests, Receive(r), UNCHANGED <<timeVar, cats, selection>>
  PROVE  CInv'
<1> DEFINE s == r.series
           live == s = Total \/ s[2] \in Keys(selection)
           empty == Answer(r.query) = {} /\ s # Total
<1>1. /\ DataShape(data) /\ TimeShape(timeVar)
      /\ SeriesInv(data, timeVar, cats, selection) /\ ShownLive(data, selection)
  BY DEF CInv
<1> HIDE DEF empty, live
<1>2. /\ data'.requests = data.requests \ {r}
      /\ data' = [shown |-> data'.shown, cache |-> data'.cache, requests |-> data'.requests,
                  outdated |-> data'.outdated]
      /\ data'.shown = IF empty THEN data.shown
                       ELSE Over(data.shown, One(s, Series(s, r.query, timeVar)))
      /\ data'.outdated = IF empty THEN IF r.newest THEN data.outdated \cup {s} ELSE data.outdated
                          ELSE IF r.newest /\ live THEN data.outdated \ {s}
                          ELSE data.outdated \cup {s}
  BY <1>1 DEF Receive, DataShape, live, empty
<1>3. DataShape(data')
  BY <1>1, <1>2 DEF DataShape
<1>4. /\ ~empty => s \in DOMAIN data'.shown /\ data'.shown[s] = Series(s, r.query, timeVar)
      /\ \A x : x # s =>
           /\ x \in DOMAIN data'.shown <=> x \in DOMAIN data.shown
           /\ x \in DOMAIN data.shown => data'.shown[x] = data.shown[x]
           /\ x \in data.outdated => x \in data'.outdated
      /\ empty => data'.shown = data.shown
  BY <1>2 DEF Over, One
<1>5. \A x, q : AsksFor(data, x, q) => AsksFor(data', x, q)
  BY <1>2 DEF AsksFor
<1>6. \A x : x # s \/ ~r.newest => (Awaits(data, x) => Awaits(data', x))
  BY <1>2 DEF Awaits
<1>7. ASSUME NEW v \in Variables, NEW k \in Keys(selection), timeVar.nbins > 0
      PROVE  LET q == Query(v, k, timeVar, cats, selection)
             IN  Awaits(data', <<v, k>>) \/ <<v, k>> \in data'.outdated
                   \/ IsShown(data', <<v, k>>, q, timeVar)
  <2> DEFINE q == Query(v, k, timeVar, cats, selection)
             t == <<v, k>>
  <2>1. /\ AsksFor(data, t, q)
        /\ Awaits(data, t) \/ t \in data.outdated \/ IsShown(data, t, q, timeVar)
    BY <1>1, <1>7 DEF SeriesInv
  <2>2. t[2] \in Keys(selection)
    OBVIOUS
  <2> HIDE DEF q, t
  <2>3. CASE s # t
    <3>1. IsShown(data, t, q, timeVar) => IsShown(data', t, q, timeVar)
      BY <1>4, <2>3 DEF IsShown
    <3> QED
      BY <1>4, <1>6, <2>1, <2>3, <3>1 DEF q, t
  <2>4. CASE s = t /\ r.newest
    <3>1. r.query = q
      BY <2>1, <2>4 DEF AsksFor
    <3>2. CASE empty
      BY <1>2, <2>4, <3>2 DEF t
    <3>3. CASE ~empty
      BY <1>4, <2>4, <3>1, <3>3 DEF IsShown, q, t
    <3> QED
      BY <3>2, <3>3
  <2>5. CASE s = t /\ ~r.newest
    <3>1. CASE empty
      BY <1>2, <1>4, <1>6, <2>1, <2>5, <3>1 DEF IsShown, q, t
    <3>2. CASE ~empty
      BY <1>2, <2>5, <3>2 DEF t
    <3> QED
      BY <3>1, <3>2
  <2> QED
    BY <2>3, <2>4, <2>5
<1>8. SeriesInv(data', timeVar, cats, selection)
  BY <1>1, <1>5, <1>7 DEF SeriesInv
<1>9. ShownLive(data', selection)
  <2> SUFFICES ASSUME NEW x \in DOMAIN data'.shown, x \notin data'.outdated
               PROVE  x[2] \in DOMAIN selection \cup {"location"}
    BY DEF ShownLive
  <2>1. CASE x # s
    BY <1>1, <1>4, <2>1 DEF ShownLive
  <2>2. CASE x = s /\ empty
    <3>1. x \in DOMAIN data.shown /\ x \notin data.outdated
      BY <1>2, <2>2
    <3> QED
      BY <1>1, <3>1 DEF ShownLive
  <2>3. CASE x = s /\ ~empty
    <3>1. live
      BY <1>2, <2>3
    <3> QED
      BY <2>3, <3>1 DEF live, Keys, Total
  <2> QED
    BY <2>1, <2>2, <2>3
<1> QED
  BY <1>1, <1>3, <1>8, <1>9 DEF CInv

LEMMA LoseKeepsCInv ==
  ASSUME CInv, NEW r \in data.requests, Lose(r), UNCHANGED <<timeVar, cats, selection>>
  PROVE  CInv'
<1>1. /\ DataShape(data) /\ TimeShape(timeVar)
      /\ SeriesInv(data, timeVar, cats, selection) /\ ShownLive(data, selection)
  BY DEF CInv
<1>2. /\ data'.requests = data.requests \ {r} /\ data'.shown = data.shown
      /\ data'.outdated = IF r.newest THEN data.outdated \cup {r.series} ELSE data.outdated
      /\ data' = [shown |-> data'.shown, cache |-> data'.cache, requests |-> data'.requests,
                  outdated |-> data'.outdated]
  BY <1>1 DEF Lose, DataShape
<1>3. DataShape(data')
  BY <1>1, <1>2 DEF DataShape
<1>4. /\ \A x, q : AsksFor(data, x, q) => AsksFor(data', x, q)
      /\ \A x, q : IsShown(data, x, q, timeVar) => IsShown(data', x, q, timeVar)
      /\ \A x : Awaits(data, x) => Awaits(data', x) \/ x \in data'.outdated
      /\ \A x \in data.outdated : x \in data'.outdated
  BY <1>2 DEF AsksFor, IsShown, Awaits
<1>5. SeriesInv(data', timeVar, cats, selection)
  BY <1>1, <1>4 DEF SeriesInv
<1>6. ShownLive(data', selection)
  BY <1>1, <1>2, <1>4 DEF ShownLive
<1> QED
  BY <1>1, <1>3, <1>5, <1>6 DEF CInv
--------------------------------------------------------------------------------
(***************************************************************************)
(* The heat map.  A redraw goes from tile to tile; in the middle of it, D  *)
(* are the regions of the tiles that were drawn, or that were right before *)
(* and are left alone.  For these, the newest request asks what the page   *)
(* would ask now, and a tile that waits for nothing has the right answer.  *)
(***************************************************************************)
RequestShape(r) ==
  /\ DOMAIN r = {"region", "query", "gone", "newest"}
  /\ r.gone \in BOOLEAN /\ r.newest \in BOOLEAN /\ r.query # <<>>

Whole(h) ==
  /\ DOMAIN h = {"zoom", "coarse", "tiles", "extents", "requests", "cache", "outdated", "late"}
  /\ h.late \in BOOLEAN

IsSequence(s) == s \in Seq({s[i] : i \in DOMAIN s})

Tiled(h) ==
  /\ IsSequence(h.tiles)
  /\ \A i \in DOMAIN h.tiles : DOMAIN h.tiles[i] = {"region", "data", "picture"}

Asked(h) == \A r \in h.requests : RequestShape(r) /\ (r.gone \/ r.region \in RegionsOf(h))

Alike(h) ==
  \A i, j \in DOMAIN h.tiles :
    LET p == h.tiles[i].picture  q == h.tiles[j].picture
    IN  p # <<>> /\ q # <<>> => p.scale = q.scale /\ p.size = q.size

Once(h) == \A q \in DOMAIN h.cache : h.cache[q] = IF Answer(q) = {} THEN 0 ELSE 1

Base(h) == Whole(h) /\ Tiled(h) /\ Asked(h) /\ Alike(h) /\ Once(h)

Awaited(h, region) == \E r \in h.requests : r.region = region /\ ~r.gone /\ r.newest
Settled(h, region) == region \notin h.outdated /\ ~Awaited(h, region)

Filled(q) == IF Answer(q) = {} THEN <<>> ELSE q

Asks(h, D, tv, cs) ==
  \A r \in h.requests :
    ~r.gone /\ r.newest /\ r.region \in D => r.query = TileQuery(h, r.region, tv, cs)

Right(h, i, tv, cs) ==
  LET t == h.tiles[i]
      q == TileQuery(h, t.region, tv, cs)
  IN  /\ t.data = Filled(q)
      /\ t.data # <<>> /\ ~h.late =>
           t.picture.shows = q /\ t.picture.size = Drill(h.zoom, h.coarse)

Shows(h, D, tv, cs) ==
  \A i \in DOMAIN h.tiles :
    h.tiles[i].region \in D /\ Settled(h, h.tiles[i].region) => Right(h, i, tv, cs)

Drawing(h, D, tv, cs) == Base(h) /\ Asks(h, D, tv, cs) /\ Shows(h, D, tv, cs)

HInv == Drawing(heat, RegionsOf(heat), timeVar, cats)

LEMMA HInvShows == HInv => SameScale /\ TilesCurrent /\ ProcessedOnce
<1> SUFFICES ASSUME HInv PROVE SameScale /\ TilesCurrent /\ ProcessedOnce
  OBVIOUS
<1>1. /\ Alike(heat) /\ Once(heat) /\ Asked(heat)
      /\ Shows(heat, RegionsOf(heat), timeVar, cats)
  BY DEF HInv, Drawing, Base
<1>2. \A i \in DOMAIN heat.tiles : heat.tiles[i].region \in RegionsOf(heat)
  BY DEF RegionsOf
<1>3. TilesCurrent
  <2> SUFFICES ASSUME NEW i \in DOMAIN heat.tiles, heat.tiles[i].region \notin heat.outdated,
                      \A r \in heat.requests :
                        r.region = heat.tiles[i].region => r.gone \/ ~r.newest
               PROVE  Right(heat, i, timeVar, cats)
    BY DEF TilesCurrent, Right, Filled
  <2>1. Settled(heat, heat.tiles[i].region)
    BY DEF Settled, Awaited
  <2> QED
    BY <1>1, <1>2, <2>1 DEF Shows
<1> QED
  BY <1>1, <1>3 DEF Alike, Once, SameScale, ProcessedOnce

LEMMA SequenceIs ==
  ASSUME NEW n \in Nat, NEW s, s = [i \in 1 .. n |-> s[i]]
  PROVE  IsSequence(s) /\ Len(s) = n
<1> DEFINE S == {s[i] : i \in DOMAIN s}
<1>1. DOMAIN s = 1 .. n
  OBVIOUS
<1>2. \A i \in 1 .. n : s[i] \in S
  BY <1>1
<1> HIDE DEF S
<1>3. s \in [1 .. n -> S]
  BY <1>1, <1>2
<1>4. s \in Seq(S)
  BY <1>3
<1>5. Len(s) = n
  BY <1>1, <1>4, LenProperties
<1> QED
  BY <1>4, <1>5 DEF S, IsSequence

LEMMA LengthIs ==
  ASSUME NEW s, IsSequence(s)
  PROVE  Len(s) \in Nat /\ DOMAIN s = 1 .. Len(s) /\ s = [i \in 1 .. Len(s) |-> s[i]]
  BY LenProperties DEF IsSequence

(* What the answer to q does to the tiles when it is drawn.                *)
DrawnAs(h, e, region, gone, q) ==
  /\ Whole(e) /\ Tiled(e)
  /\ e.zoom = h.zoom /\ e.coarse = h.coarse /\ e.requests = h.requests
  /\ e.cache = h.cache /\ e.outdated = h.outdated /\ e.late = h.late
  /\ DOMAIN e.tiles = DOMAIN h.tiles
  /\ \A i \in DOMAIN h.tiles :
       /\ e.tiles[i].region = h.tiles[i].region
       /\ e.tiles[i].data = IF ~gone /\ h.tiles[i].region = region THEN Filled(q)
                            ELSE h.tiles[i].data
       /\ e.tiles[i].picture =
            IF Answer(q) = {} THEN h.tiles[i].picture
            ELSE IF e.tiles[i].data = <<>> THEN <<>>
            ELSE [shows |-> e.tiles[i].data, scale |-> e.extents, size |-> q.drill]

LEMMA DrawnIs ==
  ASSUME NEW h, Whole(h), Tiled(h), NEW region, NEW gone \in BOOLEAN, NEW q, q # <<>>,
         NEW e, e = Drawn(h, region, gone, q)
  PROVE  DrawnAs(h, e, region, gone, q)
<1> DEFINE n == Len(h.tiles)
           values == Filled(q)
           filled == IF gone THEN h
                     ELSE [h EXCEPT !.tiles = [i \in DOMAIN @ |->
                               IF @[i].region = region THEN [@[i] EXCEPT !.data = values] ELSE @[i]]]
           scaled == [filled EXCEPT !.extents = @ \cup {q}]
<1>1. n \in Nat /\ DOMAIN h.tiles = 1 .. n /\ h.tiles = [i \in 1 .. n |-> h.tiles[i]]
  BY LengthIs DEF Tiled
<1>2. /\ Whole(filled) /\ filled.zoom = h.zoom /\ filled.coarse = h.coarse
      /\ filled.requests = h.requests /\ filled.cache = h.cache /\ filled.outdated = h.outdated
      /\ filled.late = h.late
      /\ DOMAIN filled.tiles = 1 .. n /\ filled.tiles = [i \in 1 .. n |-> filled.tiles[i]]
  BY <1>1 DEF Whole
<1>3. \A i \in 1 .. n :
        /\ DOMAIN filled.tiles[i] = {"region", "data", "picture"}
        /\ filled.tiles[i].region = h.tiles[i].region
        /\ filled.tiles[i].picture = h.tiles[i].picture
        /\ filled.tiles[i].data = IF ~gone /\ h.tiles[i].region = region THEN values
                                  ELSE h.tiles[i].data
  BY <1>1 DEF Whole, Tiled
<1>4. CASE Answer(q) = {}
  <2>1. e = filled
    BY <1>4 DEF Drawn, Filled
  <2> HIDE DEF filled, n
  <2>2. IsSequence(filled.tiles)
    BY <1>1, <1>2, SequenceIs
  <2>3. Tiled(e)
    BY <1>2, <1>3, <2>1, <2>2 DEF Tiled
  <2> QED
    BY <1>1, <1>2, <1>3, <1>4, <2>1, <2>3 DEF DrawnAs
<1>5. CASE Answer(q) # {}
  <2>1. e = Painted(scaled, q.drill, RegionsOf(h))
    BY <1>5 DEF Drawn, UpdateBounds, Filled
  <2> HIDE DEF filled, n
  <2>2. /\ Whole(scaled) /\ scaled.zoom = h.zoom /\ scaled.coarse = h.coarse
        /\ scaled.requests = h.requests /\ scaled.cache = h.cache /\ scaled.outdated = h.outdated
        /\ scaled.late = h.late /\ scaled.tiles = filled.tiles
    BY <1>2 DEF Whole
  <2> HIDE DEF scaled
  <2>3. \A i \in 1 .. n : scaled.tiles[i].region \in RegionsOf(h)
    BY <1>1, <1>3, <2>2 DEF RegionsOf
  <2> DEFINE Picture(shown) == IF shown = <<>> THEN <<>>
                              ELSE [shows |-> shown, scale |-> scaled.extents, size |-> q.drill]
             painted == [i \in 1 .. n |-> [scaled.tiles[i] EXCEPT !.picture = Picture(scaled.tiles[i].data)]]
  <2>4. painted = [i \in DOMAIN scaled.tiles |->
                      IF scaled.tiles[i].region \in RegionsOf(h)
                      THEN [scaled.tiles[i] EXCEPT !.picture = Picture(scaled.tiles[i].data)]
                      ELSE scaled.tiles[i]]
    BY <1>2, <2>2, <2>3
  <2>5. e = [scaled EXCEPT !.tiles = painted]
    BY <2>1, <2>4 DEF Painted
  <2> HIDE DEF painted
  <2>6. /\ Whole(e) /\ e.zoom = h.zoom /\ e.coarse = h.coarse
        /\ e.requests = h.requests /\ e.cache = h.cache /\ e.outdated = h.outdated
        /\ e.late = h.late /\ e.tiles = painted /\ e.extents = scaled.extents
    BY <2>2, <2>5 DEF Whole
  <2>7. DOMAIN painted = 1 .. n /\ painted = [i \in 1 .. n |-> painted[i]]
    BY DEF painted
  <2>8. \A i \in 1 .. n :
          /\ DOMAIN painted[i] = {"region", "data", "picture"}
          /\ painted[i].region = filled.tiles[i].region
          /\ painted[i].data = filled.tiles[i].data
          /\ painted[i].picture = Picture(filled.tiles[i].data)
    BY <1>3, <2>2 DEF painted
  <2>9. Tiled(e)
    <3>1. IsSequence(painted)
      BY <1>1, <2>7, SequenceIs
    <3> QED
      BY <2>6, <2>7, <2>8, <3>1 DEF Tiled
  <2>10. \A i \in DOMAIN h.tiles :
           /\ e.tiles[i].region = h.tiles[i].region
           /\ e.tiles[i].data = IF ~gone /\ h.tiles[i].region = region THEN Filled(q)
                                ELSE h.tiles[i].data
           /\ e.tiles[i].picture = IF e.tiles[i].data = <<>> THEN <<>>
                ELSE [shows |-> e.tiles[i].data, scale |-> e.extents, size |-> q.drill]
    <3> SUFFICES ASSUME NEW i \in 1 .. n
                 PROVE  /\ painted[i].region = h.tiles[i].region
                        /\ painted[i].data = IF ~gone /\ h.tiles[i].region = region THEN values
                                             ELSE h.tiles[i].data
                        /\ painted[i].picture = Picture(painted[i].data)
      BY <1>1, <2>6
    <3> HIDE DEF Picture, values
    <3> QED
      BY <1>3, <2>8
  <2> QED
    BY <1>1, <1>5, <2>6, <2>7, <2>9, <2>10 DEF DrawnAs
<1> QED
  BY <1>4, <1>5

\* A tile that is drawn takes the place of its older requests.
SupersededBy(old, region, m) ==
  \E o \in old : /\ m.region = o.region /\ m.query = o.query /\ m.gone = o.gone
                 /\ m.newest <=> o.newest /\ (o.gone \/ o.region # region)

Superseded(old, region, new) ==
  /\ \A m \in new : RequestShape(m) /\ SupersededBy(old, region, m)
  /\ \A o \in old : \E m \in new :
       /\ m.region = o.region /\ m.query = o.query /\ m.gone = o.gone
       /\ m.newest <=> o.newest /\ (o.gone \/ o.region # region)

LEMMA SupersededIs ==
  ASSUME NEW old, \A r \in old : RequestShape(r), NEW region, NEW new,
         new = {[r EXCEPT !.newest = @ /\ (r.gone \/ r.region # region)] : r \in old}
  PROVE  Superseded(old, region, new)
<1> DEFINE Older(r) == [r EXCEPT !.newest = @ /\ (r.gone \/ r.region # region)]
<1>1. ASSUME NEW r \in old
      PROVE  /\ RequestShape(Older(r))
             /\ Older(r).region = r.region /\ Older(r).query = r.query /\ Older(r).gone = r.gone
             /\ Older(r).newest <=> r.newest /\ (r.gone \/ r.region # region)
  <2>1. /\ DOMAIN r = {"region", "query", "gone", "newest"}
        /\ r.gone \in BOOLEAN /\ r.newest \in BOOLEAN /\ r.query # <<>>
    BY DEF RequestShape
  <2> DEFINE still == r.newest /\ (r.gone \/ r.region # region)
  <2>2. still \in BOOLEAN
    OBVIOUS
  <2>3. Older(r) = [r EXCEPT !.newest = still]
    OBVIOUS
  <2> HIDE DEF still, Older
  <2>4. /\ DOMAIN Older(r) = {"region", "query", "gone", "newest"}
        /\ Older(r).region = r.region /\ Older(r).query = r.query /\ Older(r).gone = r.gone
        /\ Older(r).newest = still
    BY <2>1, <2>3
  <2> QED
    BY <2>1, <2>2, <2>4 DEF RequestShape, still
<1>2. \A m : m \in new <=> \E r \in old : m = Older(r)
  OBVIOUS
<1> HIDE DEF Older
<1> QED
  BY <1>1, <1>2 DEF Superseded, SupersededBy

(* Drawing a tile makes it right, or asks for what it needs, and leaves    *)
(* the others as right as they were, although it may paint them anew.      *)
SameTiles(h, e) ==
  /\ e.zoom = h.zoom /\ e.coarse = h.coarse
  /\ DOMAIN e.tiles = DOMAIN h.tiles
  /\ \A i \in DOMAIN h.tiles : e.tiles[i].region = h.tiles[i].region

LEMMA SameTilesAre ==
  ASSUME NEW h, NEW e, SameTiles(h, e)
  PROVE  /\ RegionsOf(e) = RegionsOf(h)
         /\ \A region, tv, cs : TileQuery(e, region, tv, cs) = TileQuery(h, region, tv, cs)
<1>1. RegionsOf(e) = RegionsOf(h)
  BY DEF RegionsOf, SameTiles
<1> QED
  BY <1>1 DEF TileQuery, SameTiles

LEMMA QueryIs ==
  ASSUME NEW h, NEW region, NEW tv, NEW cs, NEW q, q = TileQuery(h, region, tv, cs)
  PROVE  q # <<>> /\ q.drill = Drill(h.zoom, h.coarse)
<1>1. q.drill = Drill(h.zoom, h.coarse) /\ "show" \in DOMAIN q
  BY DEF TileQuery
<1>2. DOMAIN <<>> = {}
  OBVIOUS
<1> QED
  BY <1>1, <1>2

PaintedWith(e, q) ==
  \A i \in DOMAIN e.tiles :
    e.tiles[i].data # <<>> =>
      e.tiles[i].picture.shows = e.tiles[i].data /\ e.tiles[i].picture.size = q.drill

\* A painting makes all tiles alike, and right where their data are.
LEMMA PaintingIs ==
  ASSUME NEW h, Whole(h), Tiled(h), Alike(h), NEW e, NEW region, NEW gone \in BOOLEAN, NEW q,
         DrawnAs(h, e, region, gone, q)
  PROVE  /\ Alike(e) /\ SameTiles(h, e)
         /\ Answer(q) # {} => PaintedWith(e, q)
<1>1. SameTiles(h, e)
  BY DEF SameTiles, DrawnAs
<1>2. CASE Answer(q) = {}
  <2>1. /\ DOMAIN e.tiles = DOMAIN h.tiles
        /\ \A i \in DOMAIN h.tiles : e.tiles[i].picture = h.tiles[i].picture
    BY <1>2 DEF DrawnAs
  <2> QED
    BY <1>1, <1>2, <2>1 DEF Alike
<1>3. CASE Answer(q) # {}
  <2>1. DOMAIN e.tiles = DOMAIN h.tiles
    BY DEF DrawnAs
  <2>2. ASSUME NEW i \in DOMAIN h.tiles, e.tiles[i].data # <<>>
        PROVE  /\ e.tiles[i].picture.shows = e.tiles[i].data
               /\ e.tiles[i].picture.size = q.drill /\ e.tiles[i].picture.scale = e.extents
    <3>1. e.tiles[i].picture =
            [shows |-> e.tiles[i].data, scale |-> e.extents, size |-> q.drill]
      BY <1>3, <2>2 DEF DrawnAs
    <3> QED
      BY <3>1
  <2>3. \A i \in DOMAIN h.tiles : e.tiles[i].data = <<>> => e.tiles[i].picture = <<>>
    BY <1>3 DEF DrawnAs
  <2>4. Alike(e)
    <3> SUFFICES ASSUME NEW i \in DOMAIN h.tiles, NEW j \in DOMAIN h.tiles,
                        e.tiles[i].picture # <<>>, e.tiles[j].picture # <<>>
                 PROVE  /\ e.tiles[i].picture.scale = e.tiles[j].picture.scale
                        /\ e.tiles[i].picture.size = e.tiles[j].picture.size
      BY <2>1 DEF Alike
    <3>1. e.tiles[i].data # <<>> /\ e.tiles[j].data # <<>>
      BY <2>3
    <3> QED
      BY <2>2, <3>1
  <2> QED
    BY <1>1, <2>1, <2>2, <2>4 DEF PaintedWith
<1> QED
  BY <1>2, <1>3

LEMMA DrawTileKeeps ==
  ASSUME NEW h, NEW D, NEW tv, NEW cs, Drawing(h, D, tv, cs), NEW region \in RegionsOf(h),
         NEW e, e = DrawTile(h, region, tv, cs)
  PROVE  SameTiles(h, e) /\ Drawing(e, D \cup {region}, tv, cs)
<1> DEFINE q == TileQuery(h, region, tv, cs)
           older == {[r EXCEPT !.newest = @ /\ (r.gone \/ r.region # region)] : r \in h.requests}
           request == [region |-> region, query |-> q, gone |-> FALSE, newest |-> TRUE]
           d == Drawn(h, region, FALSE, q)
<1>1. /\ Whole(h) /\ Tiled(h) /\ Asked(h) /\ Alike(h) /\ Once(h)
      /\ Asks(h, D, tv, cs) /\ Shows(h, D, tv, cs)
  BY DEF Drawing, Base
<1>2. Superseded(h.requests, region, older)
  BY <1>1, SupersededIs DEF Asked
<1>3. q # <<>> /\ q.drill = Drill(h.zoom, h.coarse)
  BY QueryIs
<1>4. \A m \in older : m.gone \/ m.region \in RegionsOf(h)
  BY <1>1, <1>2 DEF Asked, Superseded, SupersededBy
<1> HIDE DEF q, older
<1>5. CASE q \in DOMAIN h.cache
  <2>1. DrawnAs(h, d, region, FALSE, q)
    BY <1>1, <1>3, DrawnIs
  <2>2. e = [d EXCEPT !.cache[q] = ProcessedJSON(q, @),
                      !.late = IF Answer(q) = {} THEN @ ELSE FALSE,
                      !.requests = {[r EXCEPT !.newest = @ /\ (r.gone \/ r.region # region)] : r \in @},
                      !.outdated = @ \ {region}]
    BY <1>5 DEF DrawTile, q
  <2>3. d.requests = h.requests /\ d.cache = h.cache /\ d.outdated = h.outdated /\ d.late = h.late
        /\ Whole(d) /\ Tiled(d) /\ d.zoom = h.zoom /\ d.coarse = h.coarse
    BY <2>1 DEF DrawnAs
  <2> HIDE DEF d
  <2>4. /\ Whole(e) /\ e.zoom = h.zoom /\ e.coarse = h.coarse /\ e.tiles = d.tiles
        /\ e.cache = [h.cache EXCEPT ![q] = ProcessedJSON(q, @)]
        /\ e.late = (IF Answer(q) = {} THEN h.late ELSE FALSE)
        /\ e.requests = older /\ e.outdated = h.outdated \ {region}
    BY <1>1, <2>2, <2>3 DEF Whole, older
  <2>5. Alike(d) /\ SameTiles(h, d) /\ (Answer(q) # {} => PaintedWith(d, q))
    BY <1>1, <2>1, PaintingIs
  <2>6. SameTiles(h, e)
    BY <2>4, <2>5 DEF SameTiles
  <2>7. /\ RegionsOf(e) = RegionsOf(h)
        /\ \A x : TileQuery(e, x, tv, cs) = TileQuery(h, x, tv, cs)
    BY <2>6, SameTilesAre
  <2>8. Asked(e)
    BY <1>2, <1>4, <2>4, <2>7 DEF Asked, Superseded
  <2>9. Alike(e) /\ Tiled(e)
    BY <2>3, <2>4, <2>5 DEF Alike, Tiled
  <2>10. Once(e)
    <3>1. ProcessedJSON(q, h.cache[q]) = IF Answer(q) = {} THEN 0 ELSE 1
      BY <1>1, <1>5 DEF Once, ProcessedJSON, Processed
    <3> QED
      BY <1>1, <2>4, <3>1 DEF Once
  <2>11. Base(e)
    BY <2>4, <2>8, <2>9, <2>10 DEF Base
  <2>12. Asks(e, D \cup {region}, tv, cs)
    BY <1>1, <1>2, <2>4, <2>7 DEF Asks, Superseded, SupersededBy
  <2>13. \A x : x # region => (Settled(e, x) => Settled(h, x))
    BY <1>2, <2>4 DEF Settled, Awaited, Superseded
  <2>14. ASSUME NEW i \in DOMAIN e.tiles, e.tiles[i].region \in D \cup {region},
                Settled(e, e.tiles[i].region)
         PROVE  Right(e, i, tv, cs)
    <3>1. i \in DOMAIN h.tiles /\ e.tiles[i] = d.tiles[i] /\ e.tiles[i].region = h.tiles[i].region
      BY <2>4, <2>6, <2>14 DEF SameTiles
    <3> DEFINE t == h.tiles[i]
               p == TileQuery(h, t.region, tv, cs)
    <3>2. e.tiles[i].data = Filled(p)
      <4>1. CASE t.region = region
        BY <2>1, <3>1, <4>1 DEF DrawnAs, q
      <4>2. CASE t.region # region
        <5>1. t.region \in D /\ Settled(h, t.region)
          BY <2>13, <2>14, <3>1, <4>2
        <5>2. Right(h, i, tv, cs)
          BY <1>1, <3>1, <5>1 DEF Shows
        <5>3. e.tiles[i].data = t.data
          BY <2>1, <3>1, <4>2 DEF DrawnAs
        <5> QED
          BY <5>2, <5>3 DEF Right
      <4> QED
        BY <4>1, <4>2
    <3>3. ASSUME e.tiles[i].data # <<>>, ~e.late
          PROVE  e.tiles[i].picture.shows = p /\ e.tiles[i].picture.size = Drill(h.zoom, h.coarse)
      <4>1. e.tiles[i].data = p
        BY <3>2, <3>3 DEF Filled
      <4>2. CASE Answer(q) # {}
        BY <1>3, <2>4, <2>5, <2>14, <3>1, <3>3, <4>1, <4>2 DEF PaintedWith
      <4>3. CASE Answer(q) = {}
        <5>1. t.region # region
          BY <3>2, <3>3, <4>3 DEF Filled, q
        <5>2. t.region \in D /\ Settled(h, t.region)
          BY <2>13, <2>14, <3>1, <5>1
        <5>3. Right(h, i, tv, cs)
          BY <1>1, <3>1, <5>2 DEF Shows
        <5>4. e.tiles[i].data = t.data /\ e.tiles[i].picture = t.picture /\ e.late = h.late
          BY <2>1, <2>4, <3>1, <4>3, <5>1 DEF DrawnAs
        <5> QED
          BY <3>3, <5>3, <5>4 DEF Right
      <4> QED
        BY <4>2, <4>3
    <3> QED
      BY <2>4, <2>7, <3>1, <3>2, <3>3 DEF Right
  <2>15. Shows(e, D \cup {region}, tv, cs)
    BY <2>14 DEF Shows
  <2> QED
    BY <2>6, <2>11, <2>12, <2>15 DEF Drawing
<1>6. CASE q \notin DOMAIN h.cache
  <2>1. e = [h EXCEPT !.requests = older \cup {request}]
    BY <1>6 DEF DrawTile, q, older
  <2>2. /\ Whole(e) /\ e.zoom = h.zoom /\ e.coarse = h.coarse /\ e.tiles = h.tiles
        /\ e.cache = h.cache /\ e.late = h.late /\ e.outdated = h.outdated
        /\ e.requests = older \cup {request}
    BY <1>1, <2>1 DEF Whole
  <2>3. RequestShape(request) /\ request.region = region /\ request.query = q
        /\ ~request.gone /\ request.newest
    BY <1>3 DEF RequestShape
  <2> HIDE DEF request
  <2>4. SameTiles(h, e)
    BY <2>2 DEF SameTiles
  <2>5. /\ RegionsOf(e) = RegionsOf(h)
        /\ \A x : TileQuery(e, x, tv, cs) = TileQuery(h, x, tv, cs)
    BY <2>4, SameTilesAre
  <2>6. Asked(e)
    BY <1>2, <1>4, <2>2, <2>3, <2>5 DEF Asked, Superseded
  <2>7. Alike(e) /\ Tiled(e) /\ Once(e)
    BY <1>1, <2>2 DEF Alike, Tiled, Once
  <2>8. Base(e)
    BY <2>2, <2>6, <2>7 DEF Base
  <2>9. Asks(e, D \cup {region}, tv, cs)
    BY <1>1, <1>2, <2>2, <2>3, <2>5 DEF Asks, Superseded, SupersededBy, q
  <2>10. /\ ~Settled(e, region)
         /\ \A x : x # region => (Settled(e, x) => Settled(h, x))
    BY <1>2, <2>2, <2>3 DEF Settled, Awaited, Superseded
  <2>11. Shows(e, D \cup {region}, tv, cs)
    <3> SUFFICES ASSUME NEW i \in DOMAIN e.tiles, e.tiles[i].region \in D \cup {region},
                        Settled(e, e.tiles[i].region)
                 PROVE  Right(e, i, tv, cs)
      BY DEF Shows
    <3>1. Right(h, i, tv, cs)
      BY <1>1, <2>2, <2>10 DEF Shows
    <3> QED
      BY <2>2, <2>5, <3>1 DEF Right
  <2> QED
    BY <2>4, <2>8, <2>9, <2>11 DEF Drawing
<1> QED
  BY <1>5, <1>6

(* Recursive functions: one that is defined for every length of the loop.  *)
LEMMA SetInduction ==
  ASSUME NEW S, 0 \in S, \A n \in Nat : n \in S => n + 1 \in S
  PROVE  Nat \subseteq S
<1> SUFFICES ASSUME Nat \ S # {} PROVE FALSE
  OBVIOUS
<1> DEFINE R == OpToRel(<, Nat)
<1>1. PICK x \in Nat \ S : \A y \in Nat \ S : ~ (<<y, x>> \in R)
  <2>1. IsWellFoundedOn(R, Nat)
    BY NatLessThanWellFounded
  <2> HIDE DEF R
  <2> QED BY <2>1, WFMin
<1>2. \A y \in Nat \ S : ~ (y < x)
  BY <1>1 DEF OpToRel
<1>3. x # 0 /\ x - 1 \in Nat /\ x - 1 \in S
  BY <1>2
<1>4. x - 1 + 1 = x
  OBVIOUS
<1> QED
  BY <1>3, <1>4

SameTo(h, e, D, tv, cs) == SameTiles(h, e) /\ Drawing(e, D, tv, cs)

LEMMA SameTilesCompose ==
  ASSUME NEW f, NEW g, NEW h, SameTiles(f, g), SameTiles(g, h)
  PROVE  SameTiles(f, h)
  BY DEF SameTiles

(* Drawing the tiles from the n-th one on, when those before are right.    *)
LEMMA DrawTilesKeep ==
  ASSUME NEW h, NEW D, NEW tv, NEW cs, Drawing(h, D, tv, cs),
         NEW n \in Nat \ {0}, n <= Len(h.tiles) + 1,
         \A i \in DOMAIN h.tiles : i < n => h.tiles[i].region \in D,
         NEW e, e = DrawTiles(h, n, tv, cs)
  PROVE  SameTiles(h, e) /\ Drawing(e, RegionsOf(e), tv, cs)
<1> DEFINE L == Len(h.tiles)
           Step(g, i) == IF i < n THEN h ELSE DrawTile(g[i - 1], h.tiles[i].region, tv, cs)
           S == {m \in Nat : \E g : g = [i \in 0 .. m |-> Step(g, i)]}
<1>1. L \in Nat /\ DOMAIN h.tiles = 1 .. L
  BY LengthIs DEF Drawing, Base, Tiled
<1>2. Nat \subseteq S
  <2>1. 0 \in S
    <3>1. [i \in 0 .. 0 |-> h] = [i \in 0 .. 0 |-> Step([k \in 0 .. 0 |-> h], i)]
      OBVIOUS
    <3> QED
      BY <3>1
  <2>2. ASSUME NEW m \in Nat, m \in S PROVE m + 1 \in S
    <3>1. PICK g : g = [i \in 0 .. m |-> Step(g, i)]
      BY <2>2
    <3> DEFINE next == IF m + 1 < n THEN h ELSE DrawTile(g[m], h.tiles[m + 1].region, tv, cs)
               f == [i \in 0 .. m + 1 |-> IF i = m + 1 THEN next ELSE g[i]]
    <3>2. ASSUME NEW i \in 0 .. m + 1 PROVE f[i] = Step(f, i)
      <4>1. CASE i < n
        <5>1. i \in 0 .. m => g[i] = h
          BY <3>1, <4>1
        <5> QED
          BY <4>1, <5>1
      <4>2. CASE ~(i < n) /\ i # m + 1
        <5>1. f[i] = g[i] /\ f[i - 1] = g[i - 1] /\ i \in 0 .. m
          BY <4>2
        <5>2. g[i] = DrawTile(g[i - 1], h.tiles[i].region, tv, cs)
          BY <3>1, <4>2, <5>1
        <5> QED
          BY <4>2, <5>1, <5>2
      <4>3. CASE ~(i < n) /\ i = m + 1
        <5>1. f[i] = DrawTile(g[m], h.tiles[i].region, tv, cs) /\ f[i - 1] = g[m]
          BY <4>3
        <5> QED
          BY <4>3, <5>1
      <4> QED
        BY <4>1, <4>2, <4>3
    <3>3. f = [i \in 0 .. m + 1 |-> Step(f, i)]
      BY <3>2
    <3> HIDE DEF f
    <3>4. \E x : x = [i \in 0 .. m + 1 |-> Step(x, i)]
      BY <3>3, Zenon
    <3>5. m + 1 \in Nat
      OBVIOUS
    <3> QED
      BY <3>4, <3>5, Zenon
  <2> HIDE DEF S
  <2> QED
    BY <2>1, <2>2, SetInduction
<1> DEFINE after == CHOOSE g : g = [i \in 0 .. L |-> Step(g, i)]
<1>3. after = [i \in 0 .. L |-> Step(after, i)]
  BY <1>1, <1>2
<1>4. e = after[L]
  BY <1>1 DEF DrawTiles
<1> HIDE DEF after
<1>5. \A i \in 0 .. L : after[i] = Step(after, i)
  BY <1>3, Zenon
<1> DEFINE Done(i) == D \cup {h.tiles[k].region : k \in 1 .. i}
           Reached(i) == SameTo(h, after[i], Done(i), tv, cs)
           T == {i \in Nat : i <= L => Reached(i)}
<1>6. \A i \in 0 .. L : i < n => Reached(i)
  <2> SUFFICES ASSUME NEW i \in 0 .. L, i < n PROVE SameTo(h, after[i], Done(i), tv, cs)
    OBVIOUS
  <2>1. after[i] = h
    BY <1>5
  <2>2. Done(i) = D
    BY <1>1
  <2> HIDE DEF Done
  <2> QED
    BY <2>1, <2>2 DEF SameTo, SameTiles
<1> HIDE DEF Reached
<1>7. Nat \subseteq T
  <2>1. 0 \in T
    BY <1>1, <1>6
  <2>2. ASSUME NEW i \in Nat, i \in T PROVE i + 1 \in T
    <3> SUFFICES ASSUME i + 1 <= L, ~(i + 1 < n)
                 PROVE  Reached(i + 1)
      BY <1>1, <1>6
    <3> DEFINE region == h.tiles[i + 1].region
    <3>1. SameTo(h, after[i], Done(i), tv, cs)
      BY <1>1, <2>2 DEF Reached
    <3>2. i + 1 \in 0 .. L /\ i + 1 \in DOMAIN h.tiles /\ (i + 1) - 1 = i
      BY <1>1
    <3>3. after[i + 1] = DrawTile(after[i], region, tv, cs)
      BY <1>5, <3>2
    <3>4. Done(i + 1) = Done(i) \cup {region}
      <4>1. \A k \in 1 .. (i + 1) : k \in 1 .. i \/ k = i + 1
        OBVIOUS
      <4>2. \A k \in 1 .. i : k \in 1 .. (i + 1)
        OBVIOUS
      <4>3. i + 1 \in 1 .. (i + 1)
        OBVIOUS
      <4> QED
        BY <4>1, <4>2, <4>3
    <3> HIDE DEF Done
    <3>5. region \in RegionsOf(after[i])
      BY <3>1, <3>2 DEF SameTo, SameTiles, RegionsOf
    <3> HIDE DEF region
    <3>6. /\ SameTiles(after[i], after[i + 1])
          /\ Drawing(after[i + 1], Done(i) \cup {region}, tv, cs)
      BY <3>1, <3>3, <3>5, DrawTileKeeps DEF SameTo
    <3> QED
      BY <3>1, <3>4, <3>6, SameTilesCompose DEF SameTo, Reached
  <2> HIDE DEF T
  <2> QED
    BY <2>1, <2>2, SetInduction
<1>8. SameTo(h, e, Done(L), tv, cs)
  <2>1. Reached(L)
    BY <1>1, <1>7
  <2> QED
    BY <1>4, <2>1 DEF Reached
<1>9. RegionsOf(e) \subseteq Done(L)
  BY <1>1, <1>8 DEF SameTo, SameTiles, RegionsOf
<1>10. Drawing(e, RegionsOf(e), tv, cs)
  <2> HIDE DEF Done
  <2> QED
    BY <1>8, <1>9 DEF SameTo, Drawing, Asks, Shows
<1> QED
  BY <1>8, <1>10 DEF SameTo

(* A redraw of all tiles needs nothing of what was asked or shown before.  *)
LEMMA TilesRedrawnKeep ==
  ASSUME NEW h, Base(h), NEW tv, NEW cs, NEW e, e = TilesRedrawn(h, tv, cs)
  PROVE  Drawing(e, RegionsOf(e), tv, cs)
<1> DEFINE g == [h EXCEPT !.extents = {}]
<1>1. /\ Whole(g) /\ g.tiles = h.tiles /\ g.requests = h.requests /\ g.cache = h.cache
  BY DEF Base, Whole
<1>2. e = DrawTiles(g, 1, tv, cs)
  BY DEF TilesRedrawn
<1> HIDE DEF g
<1>3. Base(g)
  BY <1>1 DEF Base, Tiled, Asked, RegionsOf, Alike, Once
<1>4. Drawing(g, {}, tv, cs)
  BY <1>3 DEF Drawing, Asks, Shows
<1>5. Len(g.tiles) \in Nat /\ \A i \in DOMAIN g.tiles : ~(i < 1)
  <2>1. Len(g.tiles) \in Nat /\ DOMAIN g.tiles = 1 .. Len(g.tiles)
    BY <1>3, LengthIs DEF Base, Tiled
  <2> QED
    BY <2>1
<1>6. 1 \in Nat \ {0} /\ 1 <= Len(g.tiles) + 1
  BY <1>5
<1> QED
  BY <1>2, <1>4, <1>5, <1>6, DrawTilesKeep

\* The queue has the regions that are not there.
LEMMA NotYetIs ==
  ASSUME NEW regions, Len(regions) \in Nat, NEW there, NEW new, new = NotYet(regions, there)
  PROVE  \E X : new \in Seq(X) /\ \A x \in X : x \notin there
<1> DEFINE L == Len(regions)
           X == {regions[i] : i \in 1 .. L} \ there
           Step(g, i) == IF i = 0 THEN <<>>
                         ELSE IF regions[i] \in there THEN g[i - 1]
                         ELSE Append(g[i - 1], regions[i])
           S == {m \in Nat : \E g : g = [i \in 0 .. m |-> Step(g, i)]}
<1>1. Nat \subseteq S
  <2>1. 0 \in S
    <3>1. [i \in 0 .. 0 |-> <<>>] = [i \in 0 .. 0 |-> Step([k \in 0 .. 0 |-> <<>>], i)]
      OBVIOUS
    <3> QED
      BY <3>1
  <2>2. ASSUME NEW m \in Nat, m \in S PROVE m + 1 \in S
    <3>1. PICK g : g = [i \in 0 .. m |-> Step(g, i)]
      BY <2>2
    <3> DEFINE next == IF regions[m + 1] \in there THEN g[m] ELSE Append(g[m], regions[m + 1])
               f == [i \in 0 .. m + 1 |-> IF i = m + 1 THEN next ELSE g[i]]
    <3>2. ASSUME NEW i \in 0 .. m + 1 PROVE f[i] = Step(f, i)
      <4>1. CASE i = 0
        <5>1. f[i] = g[0] /\ g[0] = <<>>
          BY <3>1, <4>1
        <5> QED
          BY <4>1, <5>1
      <4>2. CASE i \in 1 .. m
        <5>1. f[i] = g[i] /\ f[i - 1] = g[i - 1] /\ i \in 0 .. m /\ i # 0
          BY <4>2
        <5>2. g[i] = IF regions[i] \in there THEN g[i - 1] ELSE Append(g[i - 1], regions[i])
          BY <3>1, <5>1
        <5> QED
          BY <5>1, <5>2
      <4>3. CASE i = m + 1
        <5>1. f[i] = next /\ f[i - 1] = g[m] /\ i # 0
          BY <4>3
        <5> QED
          BY <4>3, <5>1
      <4> QED
        BY <4>1, <4>2, <4>3
    <3>3. f = [i \in 0 .. m + 1 |-> Step(f, i)]
      BY <3>2
    <3> HIDE DEF f
    <3>4. \E x : x = [i \in 0 .. m + 1 |-> Step(x, i)]
      BY <3>3, Zenon
    <3>5. m + 1 \in Nat
      OBVIOUS
    <3> QED
      BY <3>4, <3>5, Zenon
  <2> HIDE DEF S
  <2> QED
    BY <2>1, <2>2, SetInduction
<1> DEFINE queue == CHOOSE g : g = [i \in 0 .. L |-> Step(g, i)]
<1>2. queue = [i \in 0 .. L |-> Step(queue, i)]
  BY <1>1
<1>3. new = queue[L]
  BY DEF NotYet
<1> HIDE DEF queue
<1>4. \A i \in 0 .. L : queue[i] = Step(queue, i)
  BY <1>2, Zenon
<1> DEFINE Reached(i) == queue[i] \in Seq(X)
           T == {i \in Nat : i <= L => Reached(i)}
<1>5. Nat \subseteq T
  <2>1. 0 \in T
    <3>1. queue[0] = <<>>
      BY <1>4
    <3>2. <<>> \in Seq(X)
      OBVIOUS
    <3> QED
      BY <3>1, <3>2
  <2>2. ASSUME NEW i \in Nat, i \in T PROVE i + 1 \in T
    <3> SUFFICES ASSUME i + 1 <= L PROVE Reached(i + 1)
      OBVIOUS
    <3>1. queue[i] \in Seq(X)
      BY <2>2
    <3>2. i + 1 \in 0 .. L /\ i + 1 \in 1 .. L /\ i + 1 # 0 /\ (i + 1) - 1 = i
      OBVIOUS
    <3>3. queue[i + 1] = IF regions[i + 1] \in there THEN queue[i]
                         ELSE Append(queue[i], regions[i + 1])
      BY <1>4, <3>2
    <3>4. regions[i + 1] \notin there => regions[i + 1] \in X
      BY <3>2
    <3> HIDE DEF X
    <3>5. \A x \in X : Append(queue[i], x) \in Seq(X)
      BY <3>1
    <3> QED
      BY <3>1, <3>3, <3>4, <3>5
  <2> HIDE DEF T
  <2> QED
    BY <2>1, <2>2, SetInduction
<1>6. Reached(L)
  BY <1>5
<1>7. \A x \in X : x \notin there
  OBVIOUS
<1> HIDE DEF X
<1> QED
  BY <1>3, <1>6, <1>7

(* The tiles that come into view are drawn; those that are there are left. *)
LEMMA TilesAddedKeep ==
  ASSUME NEW h, NEW tv, NEW cs, Drawing(h, RegionsOf(h), tv, cs), NEW view \in Views,
         NEW e, e = TilesAdded(h, view, tv, cs)
  PROVE  Drawing(e, RegionsOf(e), tv, cs)
<1> DEFINE new == NotYet(view.tiles, RegionsOf(h))
           added == NewTiles(new)
           g == [h EXCEPT !.extents = {}, !.tiles = @ \o added]
           m == Len(h.tiles)
           k == Len(new)
<1>1. PICK X : new \in Seq(X) /\ \A x \in X : x \notin RegionsOf(h)
  BY TilesAssumption, NotYetIs DEF TilesAssumption
<1>2. k \in Nat /\ DOMAIN new = 1 .. k /\ \A i \in 1 .. k : new[i] \notin RegionsOf(h)
  BY <1>1, LenProperties
<1>3. /\ Whole(h) /\ Tiled(h) /\ Asked(h) /\ Alike(h) /\ Once(h)
      /\ Asks(h, RegionsOf(h), tv, cs) /\ Shows(h, RegionsOf(h), tv, cs)
  BY DEF Drawing, Base
<1>4. m \in Nat /\ DOMAIN h.tiles = 1 .. m /\ h.tiles = [i \in 1 .. m |-> h.tiles[i]]
  BY <1>3, LengthIs DEF Tiled
<1>5. e = DrawTiles(g, m + 1, tv, cs)
  BY DEF TilesAdded
<1>6. /\ Whole(g) /\ g.tiles = h.tiles \o added /\ g.requests = h.requests /\ g.cache = h.cache
      /\ g.zoom = h.zoom /\ g.coarse = h.coarse /\ g.outdated = h.outdated /\ g.late = h.late
  BY <1>3 DEF Whole
<1>7. /\ added = [i \in 1 .. k |-> [region |-> new[i], data |-> <<>>, picture |-> <<>>]]
      /\ DOMAIN added = 1 .. k
  BY <1>2 DEF NewTiles
<1> HIDE DEF g, new
<1>8. \A i \in 1 .. k :
        /\ DOMAIN added[i] = {"region", "data", "picture"}
        /\ added[i].region = new[i] /\ added[i].picture = <<>>
  BY <1>7
<1>9. added = [i \in 1 .. k |-> added[i]]
  BY <1>7
<1> HIDE DEF added
<1>10. /\ Len(g.tiles) = m + k /\ DOMAIN g.tiles = 1 .. (m + k) /\ IsSequence(g.tiles)
       /\ \A i \in 1 .. m : g.tiles[i] = h.tiles[i]
       /\ \A i \in 1 .. (m + k) : i > m => i - m \in 1 .. k /\ g.tiles[i] = added[i - m]
  <2> DEFINE Y == {h.tiles[i] : i \in 1 .. m} \cup {added[i] : i \in 1 .. k}
  <2>1. \A i \in 1 .. m : h.tiles[i] \in Y
    OBVIOUS
  <2>2. \A i \in 1 .. k : added[i] \in Y
    OBVIOUS
  <2> HIDE DEF Y, m, k
  <2>3. h.tiles \in [1 .. m -> Y] /\ added \in [1 .. k -> Y]
    BY <1>4, <1>9, <2>1, <2>2
  <2>4. h.tiles \in Seq(Y) /\ added \in Seq(Y)
    BY <1>2, <1>4, <2>3
  <2>5. Len(h.tiles) = m /\ Len(added) = k
    BY <1>2, <1>4, <1>7, <2>4, LenProperties
  <2>6. /\ h.tiles \o added \in Seq(Y) /\ Len(h.tiles \o added) = m + k
        /\ \A i \in 1 .. (m + k) : (h.tiles \o added)[i] = IF i <= m THEN h.tiles[i] ELSE added[i - m]
    BY <2>4, <2>5, ConcatProperties
  <2>7. m + k \in Nat /\ (\A i \in 1 .. m : i \in 1 .. (m + k) /\ i <= m)
        /\ \A i \in 1 .. (m + k) : i > m => i - m \in 1 .. k /\ ~(i <= m)
    BY <1>2, <1>4
  <2>8. DOMAIN g.tiles = 1 .. (m + k) /\ g.tiles = [i \in 1 .. (m + k) |-> g.tiles[i]]
    BY <1>6, <2>6, LenProperties
  <2>9. IsSequence(g.tiles) /\ Len(g.tiles) = m + k
    BY <2>7, <2>8, SequenceIs
  <2> QED
    BY <1>6, <2>6, <2>7, <2>8, <2>9
<1> HIDE DEF m, k
<1>11. \A i \in DOMAIN g.tiles : i \in 1 .. m \/ (i > m /\ i - m \in 1 .. k /\ g.tiles[i] = added[i - m])
  <2> SUFFICES ASSUME NEW i \in DOMAIN g.tiles, i \notin 1 .. m
               PROVE  i > m /\ i - m \in 1 .. k /\ g.tiles[i] = added[i - m]
    OBVIOUS
  <2>1. i \in 1 .. (m + k)
    BY <1>10
  <2>2. i > m
    BY <2>1, <1>2, <1>4
  <2> QED
    BY <2>1, <2>2, <1>10
<1>12. \A i \in 1 .. m : i \in DOMAIN g.tiles /\ i \in DOMAIN h.tiles /\ g.tiles[i] = h.tiles[i]
  <2> SUFFICES ASSUME NEW i \in 1 .. m PROVE i \in DOMAIN g.tiles /\ g.tiles[i] = h.tiles[i]
    BY <1>4
  <2>1. i \in 1 .. (m + k)
    BY <1>2, <1>4
  <2> QED
    BY <2>1, <1>10
<1>13. \A i \in DOMAIN g.tiles :
         \/ i \in DOMAIN h.tiles /\ g.tiles[i] = h.tiles[i]
         \/ g.tiles[i].picture = <<>> /\ g.tiles[i].region \notin RegionsOf(h)
  BY <1>2, <1>8, <1>11, <1>12
<1>14. Tiled(g)
  <2>1. \A i \in DOMAIN g.tiles : DOMAIN g.tiles[i] = {"region", "data", "picture"}
    BY <1>3, <1>8, <1>11, <1>12 DEF Tiled
  <2> QED
    BY <1>10, <2>1 DEF Tiled
<1>15. RegionsOf(h) \subseteq RegionsOf(g)
  BY <1>4, <1>12 DEF RegionsOf
<1>16. Asked(g)
  BY <1>3, <1>6, <1>15 DEF Asked
<1>17. Alike(g)
  BY <1>3, <1>13 DEF Alike
<1>18. Base(g)
  BY <1>3, <1>6, <1>14, <1>16, <1>17 DEF Base, Once
<1>19. \A x :
         /\ TileQuery(g, x, tv, cs) = TileQuery(h, x, tv, cs)
         /\ Settled(g, x) <=> Settled(h, x)
  BY <1>6 DEF TileQuery, Settled, Awaited
<1>20. Asks(g, RegionsOf(h), tv, cs)
  BY <1>3, <1>6, <1>19 DEF Asks
<1>21. Shows(g, RegionsOf(h), tv, cs)
  <2> SUFFICES ASSUME NEW i \in DOMAIN g.tiles, g.tiles[i].region \in RegionsOf(h),
                      Settled(g, g.tiles[i].region)
               PROVE  Right(g, i, tv, cs)
    BY DEF Shows
  <2>1. i \in DOMAIN h.tiles /\ g.tiles[i] = h.tiles[i]
    BY <1>13
  <2>2. Right(h, i, tv, cs)
    BY <1>3, <1>19, <2>1 DEF Shows
  <2> QED
    BY <1>6, <1>19, <2>1, <2>2 DEF Right
<1>22. Drawing(g, RegionsOf(h), tv, cs)
  BY <1>18, <1>20, <1>21 DEF Drawing
<1>23. \A i \in DOMAIN g.tiles : i < m + 1 => g.tiles[i].region \in RegionsOf(h)
  <2>1. \A i \in 1 .. m : g.tiles[i].region \in RegionsOf(h)
    BY <1>4, <1>12 DEF RegionsOf
  <2>2. \A i \in DOMAIN g.tiles : i < m + 1 => i \in 1 .. m
    BY <1>2, <1>4, <1>10
  <2> QED
    BY <2>1, <2>2
<1>24. m + 1 \in Nat \ {0} /\ m + 1 <= Len(g.tiles) + 1
  BY <1>2, <1>4, <1>10
<1> QED
  BY <1>5, <1>22, <1>23, <1>24, DrawTilesKeep

\* A layer without tiles, whose requests are for canvases that are gone.
LEMMA EmptyIs ==
  ASSUME NEW h, Whole(h), h.tiles = <<>>, \A r \in h.requests : RequestShape(r) /\ r.gone, Once(h),
         NEW tv, NEW cs
  PROVE  Drawing(h, RegionsOf(h), tv, cs)
<1>1. DOMAIN h.tiles = {}
  OBVIOUS
<1>2. IsSequence(h.tiles)
  BY DEF IsSequence
<1>3. Base(h)
  BY <1>1, <1>2 DEF Base, Tiled, Asked, Alike
<1> QED
  BY <1>1, <1>3 DEF Drawing, Asks, Shows

LEMMA ResetKeeps ==
  ASSUME NEW h, Base(h), NEW zoom, NEW e, e = Reset(h, zoom), NEW tv, NEW cs
  PROVE  Drawing(e, RegionsOf(e), tv, cs)
<1>1. /\ Whole(e) /\ e.tiles = <<>> /\ e.cache = h.cache
      /\ e.requests = {[r EXCEPT !.gone = TRUE] : r \in h.requests}
  BY DEF Reset, Base, Whole
<1>2. ASSUME NEW r \in e.requests PROVE RequestShape(r) /\ r.gone
  <2>1. PICK o \in h.requests : r = [o EXCEPT !.gone = TRUE]
    BY <1>1
  <2>2. RequestShape(o)
    BY DEF Base, Asked
  <2> QED
    BY <2>1, <2>2 DEF RequestShape
<1>3. Once(e)
  BY <1>1 DEF Base, Once
<1> QED
  BY <1>1, <1>2, <1>3, EmptyIs

(* An answer fills its tile, if that is still there, and paints all.       *)
LEMMA TileReceiveKeepsHInv ==
  ASSUME HInv, NEW r \in heat.requests, TileReceive(r), UNCHANGED <<timeVar, cats>>
  PROVE  HInv'
<1> DEFINE q == r.query
           d == Drawn(heat, r.region, r.gone, q)
           Q(x) == TileQuery(heat, x, timeVar, cats)
<1>1. /\ Whole(heat) /\ Tiled(heat) /\ Asked(heat) /\ Alike(heat) /\ Once(heat)
      /\ Asks(heat, RegionsOf(heat), timeVar, cats) /\ Shows(heat, RegionsOf(heat), timeVar, cats)
  BY DEF HInv, Drawing, Base
<1>2. RequestShape(r) /\ (r.gone \/ r.region \in RegionsOf(heat))
  BY <1>1 DEF Asked
<1>3. q # <<>> /\ r.gone \in BOOLEAN /\ r.newest \in BOOLEAN
  BY <1>2 DEF RequestShape
<1>4. DrawnAs(heat, d, r.region, r.gone, q)
  BY <1>1, <1>3, DrawnIs
<1>5. /\ Alike(d) /\ SameTiles(heat, d) /\ (Answer(q) # {} => PaintedWith(d, q))
  BY <1>1, <1>3, <1>4, PaintingIs
<1>6. /\ d.requests = heat.requests /\ d.cache = heat.cache /\ d.outdated = heat.outdated
      /\ d.late = heat.late /\ Whole(d) /\ Tiled(d) /\ d.zoom = heat.zoom /\ d.coarse = heat.coarse
  BY <1>4 DEF DrawnAs
<1>7. heat' = [d EXCEPT
            !.requests = @ \ {r},
            !.cache = Over(@, One(q, ProcessedJSON(q, 0))),
            !.late = IF Answer(q) = {} THEN @ ELSE ~(r.newest /\ ~r.gone),
            !.outdated = IF r.gone THEN @ ELSE IF r.newest THEN @ \ {r.region}
                         ELSE @ \cup {r.region}]
  BY DEF TileReceive
<1> HIDE DEF d, q
<1>8. /\ Whole(heat') /\ heat'.zoom = heat.zoom /\ heat'.coarse = heat.coarse
      /\ heat'.tiles = d.tiles /\ heat'.requests = heat.requests \ {r}
      /\ heat'.cache = Over(heat.cache, One(q, ProcessedJSON(q, 0)))
      /\ heat'.late = (IF Answer(q) = {} THEN heat.late ELSE ~(r.newest /\ ~r.gone))
      /\ heat'.outdated = (IF r.gone THEN heat.outdated
                           ELSE IF r.newest THEN heat.outdated \ {r.region}
                           ELSE heat.outdated \cup {r.region})
  BY <1>1, <1>3, <1>6, <1>7 DEF Whole
<1>9. SameTiles(heat, heat')
  BY <1>5, <1>8 DEF SameTiles
<1>10. RegionsOf(heat') = RegionsOf(heat) /\ \A x : TileQuery(heat', x, timeVar', cats') = Q(x)
  BY <1>9, SameTilesAre
<1>11. Once(heat')
  <2>1. ProcessedJSON(q, 0) = IF Answer(q) = {} THEN 0 ELSE 1
    BY DEF ProcessedJSON, Processed
  <2>2. \A p \in DOMAIN heat'.cache :
          heat'.cache[p] = IF p = q THEN ProcessedJSON(q, 0) ELSE heat.cache[p]
    BY <1>8 DEF Over, One
  <2>3. \A p \in DOMAIN heat'.cache : p # q => p \in DOMAIN heat.cache
    BY <1>8 DEF Over, One
  <2> QED
    BY <1>1, <2>1, <2>2, <2>3 DEF Once
<1>12. Base(heat')
  <2>1. Asked(heat')
    BY <1>1, <1>8, <1>10 DEF Asked
  <2>2. Alike(heat') /\ Tiled(heat')
    BY <1>5, <1>6, <1>8 DEF Alike, Tiled
  <2> QED
    BY <1>8, <1>11, <2>1, <2>2 DEF Base
<1>13. Asks(heat', RegionsOf(heat'), timeVar', cats')
  BY <1>1, <1>8, <1>10 DEF Asks
<1>14. ASSUME r.newest, ~r.gone PROVE q = Q(r.region) /\ q.drill = Drill(heat.zoom, heat.coarse)
  <2>1. q = Q(r.region)
    BY <1>1, <1>2, <1>14 DEF Asks, q
  <2> QED
    BY <2>1, QueryIs
<1>15. ASSUME NEW i \in DOMAIN heat'.tiles, Settled(heat', heat'.tiles[i].region)
       PROVE  Right(heat', i, timeVar', cats')
  <2> DEFINE x == heat.tiles[i].region
  <2>1. i \in DOMAIN heat.tiles /\ heat'.tiles[i] = d.tiles[i] /\ heat'.tiles[i].region = x
    BY <1>8, <1>9, <1>15 DEF SameTiles
  <2>2. x \in RegionsOf(heat)
    BY <2>1 DEF RegionsOf
  <2> HIDE DEF Q
  <2>3. CASE ~r.gone /\ r.region = x
    <3>1. r.newest
      BY <1>8, <1>15, <2>1, <2>3 DEF Settled
    <3>2. q = Q(x) /\ q.drill = Drill(heat.zoom, heat.coarse)
      BY <1>14, <2>3, <3>1
    <3>3. heat'.tiles[i].data = Filled(q)
      BY <1>4, <2>1, <2>3 DEF DrawnAs
    <3>4. ASSUME heat'.tiles[i].data # <<>>
          PROVE  /\ heat'.tiles[i].picture.shows = q
                 /\ heat'.tiles[i].picture.size = Drill(heat.zoom, heat.coarse)
      <4>1. Answer(q) # {} /\ heat'.tiles[i].data = q
        BY <3>3, <3>4 DEF Filled
      <4> QED
        BY <1>5, <1>8, <1>15, <2>1, <3>2, <3>4, <4>1 DEF PaintedWith
    <3> QED
      BY <1>8, <1>10, <2>1, <3>2, <3>3, <3>4 DEF Right
  <2>4. CASE r.gone \/ r.region # x
    <3>1. Settled(heat, x)
      <4>1. Awaited(heat, x) => Awaited(heat', x)
        BY <1>8, <2>4 DEF Awaited
      <4>2. x \in heat.outdated => x \in heat'.outdated
        BY <1>8, <2>4
      <4> QED
        BY <1>15, <2>1, <4>1, <4>2 DEF Settled
    <3>2. Right(heat, i, timeVar, cats)
      BY <1>1, <2>1, <2>2, <3>1 DEF Shows
    <3>3. heat.tiles[i].data = Filled(Q(x))
      BY <3>2 DEF Right, Q
    <3>4. heat'.tiles[i].data = heat.tiles[i].data
      BY <1>4, <2>1, <2>4 DEF DrawnAs
    <3>5. ASSUME heat'.tiles[i].data # <<>>, ~heat'.late
          PROVE  /\ heat'.tiles[i].picture.shows = Q(x)
                 /\ heat'.tiles[i].picture.size = Drill(heat.zoom, heat.coarse)
      <4>1. CASE Answer(q) = {}
        <5>1. heat'.tiles[i].picture = heat.tiles[i].picture /\ ~heat.late
          BY <1>4, <1>8, <2>1, <3>5, <4>1 DEF DrawnAs
        <5> QED
          BY <3>2, <3>4, <3>5, <5>1 DEF Right, Q
      <4>2. CASE Answer(q) # {}
        <5>1. q.drill = Drill(heat.zoom, heat.coarse)
          BY <1>8, <1>14, <3>5, <4>2
        <5>2. heat'.tiles[i].data = Q(x)
          BY <3>3, <3>4, <3>5 DEF Filled
        <5> QED
          BY <1>5, <1>8, <1>15, <2>1, <3>5, <4>2, <5>1, <5>2 DEF PaintedWith
      <4> QED
        BY <4>1, <4>2
    <3> QED
      BY <1>8, <1>10, <2>1, <3>3, <3>4, <3>5 DEF Right
  <2> QED
    BY <2>3, <2>4
<1>16. Shows(heat', RegionsOf(heat'), timeVar', cats')
  BY <1>15 DEF Shows
<1> QED
  BY <1>12, <1>13, <1>16 DEF HInv, Drawing

LEMMA TileLoseKeepsHInv ==
  ASSUME HInv, NEW r \in heat.requests, TileLose(r), UNCHANGED <<timeVar, cats>>
  PROVE  HInv'
<1>1. /\ Whole(heat) /\ Tiled(heat) /\ Asked(heat) /\ Alike(heat) /\ Once(heat)
      /\ Asks(heat, RegionsOf(heat), timeVar, cats) /\ Shows(heat, RegionsOf(heat), timeVar, cats)
  BY DEF HInv, Drawing, Base
<1>2. /\ Whole(heat') /\ heat'.zoom = heat.zoom /\ heat'.coarse = heat.coarse
      /\ heat'.tiles = heat.tiles /\ heat'.requests = heat.requests \ {r}
      /\ heat'.cache = heat.cache /\ heat'.late = heat.late
      /\ heat'.outdated = (IF r.newest /\ ~r.gone THEN heat.outdated \cup {r.region}
                           ELSE heat.outdated)
  BY <1>1 DEF TileLose, Whole
<1>3. SameTiles(heat, heat')
  BY <1>2 DEF SameTiles
<1>4. /\ RegionsOf(heat') = RegionsOf(heat)
      /\ \A x : TileQuery(heat', x, timeVar', cats') = TileQuery(heat, x, timeVar, cats)
  BY <1>3, SameTilesAre
<1>5. Base(heat')
  BY <1>1, <1>2, <1>4 DEF Base, Tiled, Asked, Alike, Once
<1>6. Asks(heat', RegionsOf(heat'), timeVar', cats')
  BY <1>1, <1>2, <1>4 DEF Asks
<1>7. \A x : Settled(heat', x) => Settled(heat, x)
  BY <1>2 DEF Settled, Awaited
<1>8. Shows(heat', RegionsOf(heat'), timeVar', cats')
  <2> SUFFICES ASSUME NEW i \in DOMAIN heat.tiles, heat.tiles[i].region \in RegionsOf(heat),
                      Settled(heat', heat.tiles[i].region)
               PROVE  Right(heat', i, timeVar', cats')
    BY <1>2, <1>4 DEF Shows
  <2>1. Right(heat, i, timeVar, cats)
    BY <1>1, <1>7 DEF Shows
  <2> QED
    BY <1>2, <1>4, <2>1 DEF Right
<1> QED
  BY <1>5, <1>6, <1>8 DEF HInv, Drawing

-----------------------------------------------------------------------------
(***************************************************************************)
(* What is proved of the drawing control and of the search for the bounds  *)
(* holds on the page, where their steps interleave with everything else;   *)
(* and the total, the charts and the heat map of the page are in step with *)
(* its selections.                                                         *)
(***************************************************************************)

LEMMA DrawSteps == [Next]_vars => [DrawNext]_drawVars
<1> SUFFICES ASSUME [Next]_vars PROVE [DrawNext]_drawVars
  OBVIOUS
<1>1. CASE User
  BY <1>1 DEF User, UseTool, Select, Deselect, UseBars, UseBrush, UseAxis, MoveMap, DrawNext
<1>2. CASE Loading \/ Reply
  BY <1>2 DEF Loading, Search, SearchFails, Arrival, Reply, ChartReply, TileReply
<1>3. CASE UNCHANGED vars
  BY <1>3 DEF vars
<1> QED
  BY <1>1, <1>2, <1>3 DEF Next

LEMMA BoundSteps == [Next]_vars => [BoundNext]_boundVars
<1> SUFFICES ASSUME [Next]_vars PROVE [BoundNext]_boundVars
  OBVIOUS
<1>1. CASE User \/ Reply
  BY <1>1 DEF User, UseTool, Select, Deselect, UseBars, UseBrush, UseAxis, MoveMap,
              Reply, ChartReply, TileReply
<1>2. CASE Loading
  BY <1>2 DEF Loading, Search, SearchFails, Arrival, BoundNext
<1>3. CASE UNCHANGED vars
  BY <1>3 DEF vars
<1> QED
  BY <1>1, <1>2, <1>3 DEF Next

(* The page is a drawing control and a search for the bounds, among        *)
(* other things.                                                           *)
THEOREM PageRefines == Spec => DrawSpec /\ BoundSpec
<1>1. Init => DrawInit /\ BoundInit
  BY DEF Init
<1> QED
  BY <1>1, DrawSteps, BoundSteps, PTL DEF Spec, DrawSpec, BoundSpec

(* On the page at most one tool is open.                                   *)
THEOREM PageHasOneTool == Spec => []OneTool
  BY PageRefines, AlwaysOneTool, PTL

(* On the page every shape has its selection.                              *)
THEOREM PageShapesSelect == Spec => []EveryShapeSelects
  BY PageRefines, ShapesSelect, PTL

(* What the charts of the page are asked for is what its map shows.        *)
THEOREM PageMapMatchesModel == Spec => []MapMatchesModel
  BY PageRefines, MapsMatchModel, PTL

(* The timer of an error message stays within its tool on the page.        *)
THEOREM PageTimersNeedTool == Spec => []TimerNeedsTool
  BY PageRefines, TimersNeedTool, PTL

(* The time axis the page starts with is that of the records.              *)
THEOREM PageBoundsExact == Spec => []BoundsExact
  BY PageRefines, BoundsAreExact, PTL
--------------------------------------------------------------------------------
\* The handlers of the page that redraw.
LEMMA UserKeepsTInv ==
  ASSUME TInv, DrawTypeOK, DrawTypeOK', User
  PROVE  TInv'
<1>1. DataShape(data) /\ {"cat"} \subseteq Variables /\ Variables \subseteq Variables
  BY DEF TInv, Variables
<1>2. "location" \notin DOMAIN selection /\ "location" \notin DOMAIN selection'
  BY ChartsAssumption, PartialIs DEF ChartsAssumption, DrawTypeOK
<1>3. CASE UseTool \/ MoveMap
  <2>1. UNCHANGED <<timeVar, cats, data>>
    BY <1>3 DEF UseTool, MoveMap, chartVars
  <2> QED
    BY <2>1 DEF TInv, TotalCurrent, Answered, Built
<1>4. CASE Select
  <2>1. /\ data' = Redraw(data, timeVar, cats', selection', Variables)
        /\ timeVar' = Clamped(timeVar, Variables)
    BY <1>4 DEF Select, AfterSelection
  <2> QED
    BY <1>1, <1>2, <2>1, ClampedIs, RedrawnKeepsTInv
<1>5. CASE Deselect
  <2>1. PICK pruned :
          /\ pruned = [data EXCEPT
               !.shown = [s \in {x \in DOMAIN data.shown : x[2] \notin DOMAIN deleted} |-> @[s]],
               !.outdated = {s \in @ : s[2] \notin DOMAIN deleted}]
          /\ data' = Redraw(pruned, timeVar, cats', selection', Variables)
          /\ timeVar' = Clamped(timeVar, Variables)
    BY <1>5 DEF Deselect, AfterRemoval
  <2>2. DataShape(pruned)
    BY <1>1, <2>1 DEF DataShape
  <2> QED
    BY <1>1, <1>2, <2>1, <2>2, ClampedIs, RedrawnKeepsTInv
<1>6. CASE UseBars
  <2>1. /\ data' = Redraw(data, timeVar, cats', selection, Variables)
        /\ timeVar' = Clamped(timeVar, Variables)
    BY <1>6 DEF UseBars, ClickBar
  <2> QED
    BY <1>1, <1>2, <2>1, ClampedIs, RedrawnKeepsTInv
<1>7. CASE UseBrush
  <2>1. data' = Redraw(data, timeVar', cats', selection, {"cat"})
    BY <1>7 DEF UseBrush, BrushEnd
  <2> QED
    BY <1>1, <1>2, <2>1, RedrawnKeepsTInv
<1>8. CASE UseAxis
  <2>1. PICK selected, ranged :
          /\ data' = Redraw(Redraw(data, selected, cats, selection, {"cat"}),
                            ranged, cats', selection, Variables)
          /\ timeVar' = Clamped(ranged, Variables)
    BY <1>8 DEF UseAxis, ZoomEnd
  <2>2. DataShape(Redraw(data, selected, cats, selection, {"cat"}))
    BY <1>1, <1>2, RedrawAsks
  <2> QED
    BY <1>1, <1>2, <2>1, <2>2, ClampedIs, RedrawnKeepsTInv
<1> QED
  BY <1>3, <1>4, <1>5, <1>6, <1>7, <1>8 DEF User

LEMMA LoadingKeepsTInv ==
  ASSUME TInv, DrawTypeOK, Loading
  PROVE  TInv'
<1>1. CASE UNCHANGED <<timeVar, cats, data>>
  BY <1>1 DEF TInv, TotalCurrent, Answered, Built
<1>2. CASE Build(start'["min"], start'["max"])
  <2>1. PICK tv : timeVar' = tv /\ data' = Redraw(NoData, tv, cats', selection, Variables)
    BY <1>2 DEF Build
  <2>2. DataShape(NoData)
    BY DEF DataShape, NoData
  <2>3. "location" \notin DOMAIN selection
    BY ChartsAssumption, PartialIs DEF ChartsAssumption, DrawTypeOK
  <2> QED
    BY <2>1, <2>2, <2>3, RedrawnKeepsTInv
<1> QED
  BY <1>1, <1>2 DEF Loading, Search, SearchFails, Arrival, chartVars

LEMMA InitTInv == Init => TInv
<1> SUFFICES ASSUME Init PROVE TInv
  OBVIOUS
<1>1. data = NoData /\ timeVar.nbins = 0
  BY DEF Init, ChartInit
<1>2. DataShape(data) /\ AsksFor(data, Total, TotalQuery(timeVar, cats))
  BY <1>1 DEF NoData, DataShape, AsksFor
<1>3. ~Built
  BY <1>1 DEF Built
<1> QED
  BY <1>2, <1>3 DEF TInv, TotalCurrent, Answered

LEMMA NextTInv == TInv /\ DrawTypeOK /\ DrawTypeOK' /\ [Next]_vars => TInv'
<1> SUFFICES ASSUME TInv, DrawTypeOK, DrawTypeOK', [Next]_vars PROVE TInv'
  OBVIOUS
<1>1. CASE Reply
  <2>1. CASE ChartReply
    BY <2>1, ReceiveKeepsTInv, LoseKeepsTInv DEF ChartReply
  <2>2. CASE TileReply
    <3>1. UNCHANGED <<timeVar, cats, data>>
      BY <2>2 DEF TileReply, chartVars
    <3> QED
      BY <3>1 DEF TInv, TotalCurrent, Answered, Built
  <2> QED
    BY <1>1, <2>1, <2>2 DEF Reply
<1>2. CASE UNCHANGED vars
  <2>1. UNCHANGED <<timeVar, cats, data>>
    BY <1>2 DEF vars, chartVars
  <2> QED
    BY <2>1 DEF TInv, TotalCurrent, Answered, Built
<1> QED
  BY <1>1, <1>2, UserKeepsTInv, LoadingKeepsTInv DEF Next

(* Once it is answered, the total is that of the selections of now, however *)
(* the answers were ordered or lost before.                                 *)
THEOREM PageTotalCurrent == Spec => []TotalCurrent
<1>1. Spec => []DrawTypeOK
  BY PageRefines, TypeCorrect, PTL
<1>2. TInv => TotalCurrent
  BY DEF TInv
<1> QED
  BY <1>1, <1>2, InitTInv, NextTInv, PTL DEF Spec
--------------------------------------------------------------------------------
\* The steps that change selections, but for a removal, take none away.
LEMMA SelectingAdds ==
  ASSUME Selecting
  PROVE  DOMAIN selection \subseteq DOMAIN selection'
<1>1. CASE \E id \in Shapes, g \in Geoms : FinishPolygon(id, g) \/ FinishRectangle(id, g)
  <2>1. PICK id, g : selection' = Over(selection, One(id, g))
    BY <1>1 DEF FinishPolygon, FinishRectangle, Create
  <2> QED
    BY <2>1 DEF Over
<1>2. CASE \E id \in Shapes, g \in Geoms : Drag(id, g)
  BY <1>2 DEF Drag
<1>3. CASE SaveEdits
  BY <1>3 DEF SaveEdits
<1> QED
  BY <1>1, <1>2, <1>3 DEF Selecting

LEMMA UserKeepsCInv ==
  ASSUME CInv, DrawTypeOK, DrawTypeOK', User
  PROVE  CInv'
<1>1. /\ DataShape(data) /\ TimeShape(timeVar)
      /\ SeriesInv(data, timeVar, cats, selection) /\ ShownLive(data, selection)
  BY DEF CInv
<1>2. "location" \notin DOMAIN selection /\ "location" \notin DOMAIN selection'
  BY ChartsAssumption, PartialIs DEF ChartsAssumption, DrawTypeOK
<1>3. CASE UseTool \/ MoveMap
  <2>1. UNCHANGED <<timeVar, cats, data, selection>>
    BY <1>3 DEF UseTool, MoveMap, chartVars, drawVars, Handling, Press, Cancel, Escape,
                PlaceCorner, RefuseCorner, RefuseFinish, HideError, MouseDown, MouseMove, MouseUp,
                Drop, ClickShape, ClickHandle, sameShapes
  <2> QED
    BY <1>1, <2>1 DEF CInv
<1>4. CASE Select
  <2>1. /\ data' = Redraw(data, timeVar, cats', selection', Variables)
        /\ timeVar' = Clamped(timeVar, Variables) /\ DOMAIN selection \subseteq DOMAIN selection'
    BY <1>4, SelectingAdds DEF Select, AfterSelection
  <2> QED
    BY <1>1, <1>2, <2>1, FullRedraw DEF CInv
<1>5. CASE Deselect
  <2>1. PICK pruned :
          /\ pruned = Pruned(data, DOMAIN deleted)
          /\ data' = Redraw(pruned, timeVar, cats', selection', Variables)
          /\ timeVar' = Clamped(timeVar, Variables)
    BY <1>5 DEF Deselect, AfterRemoval, Pruned
  <2>2. selection' = Without(selection, DOMAIN deleted)
    BY <1>5 DEF Deselect, SaveRemovals
  <2>3. \A k : k \in DOMAIN selection' <=> k \in DOMAIN selection /\ k \notin DOMAIN deleted
    BY <2>2 DEF Without
  <2>4. DataShape(pruned) /\ ShownLive(pruned, selection')
    BY <1>1, <2>1, <2>3, PrunedIs DEF CInv
  <2> QED
    BY <1>1, <1>2, <2>1, <2>4, FullRedraw DEF CInv
<1>6. CASE UseBars
  <2>1. /\ data' = Redraw(data, timeVar, cats', selection, Variables)
        /\ timeVar' = Clamped(timeVar, Variables) /\ selection' = selection
    BY <1>6 DEF UseBars, ClickBar, drawVars
  <2> QED
    BY <1>1, <1>2, <2>1, FullRedraw DEF CInv
<1>7. CASE UseBrush
  <2>1. PICK ext : timeVar' = SetSelection(timeVar, ext)
    BY <1>7 DEF UseBrush, BrushEnd
  <2>2. TimeShape(timeVar') /\ timeVar'.start = timeVar.start /\ timeVar'.nbins = timeVar.nbins
    BY <1>1, <2>1 DEF SetSelection, TimeShape
  <2>3. /\ data' = Redraw(data, timeVar', cats, selection, {"cat"})
        /\ cats' = cats /\ selection' = selection
    BY <1>7 DEF UseBrush, BrushEnd, drawVars
  <2> QED
    BY <1>1, <1>2, <2>2, <2>3, BarsRedraw DEF CInv
<1>8. CASE UseAxis
  <2>1. PICK ext, selected :
          /\ selected = SetSelection(timeVar, brush)
          /\ data' = Redraw(Redraw(data, selected, cats, selection, {"cat"}),
                            SetRange(selected, ext), cats', selection, Variables)
          /\ timeVar' = Clamped(SetRange(selected, ext), Variables)
          /\ selection' = selection /\ cats' = cats
    BY <1>8 DEF UseAxis, ZoomEnd, drawVars
  <2>2. TimeShape(selected) /\ selected.start = timeVar.start /\ selected.nbins = timeVar.nbins
    BY <1>1, <2>1 DEF SetSelection, TimeShape
  <2>3. TimeShape(SetRange(selected, ext))
    BY <2>2 DEF SetRange, TimeShape
  <2>4. PICK d : d = Redraw(data, selected, cats, selection, {"cat"})
    OBVIOUS
  <2>5. DataShape(d) /\ ShownLive(d, selection)
    BY <1>1, <1>2, <2>2, <2>4, BarsRedraw
  <2> QED
    BY <1>1, <1>2, <2>1, <2>3, <2>4, <2>5, FullRedraw DEF CInv
<1> QED
  BY <1>3, <1>4, <1>5, <1>6, <1>7, <1>8 DEF User

LEMMA LoadingKeepsCInv ==
  ASSUME CInv, DrawTypeOK, Loading
  PROVE  CInv'
<1>1. selection' = selection
  BY DEF Loading, Search, SearchFails, Arrival, drawVars
<1>2. CASE UNCHANGED <<timeVar, cats, data>>
  BY <1>1, <1>2 DEF CInv
<1>3. CASE Build(start'["min"], start'["max"])
  <2> DEFINE first == start'["min"]
             bins == start'["max"] - start'["min"] + 1
             tv == [start |-> first, nbins |-> bins, selStart |-> first, selBins |-> bins]
  <2>1. timeVar' = tv /\ data' = Redraw(NoData, tv, cats, selection, Variables) /\ cats' = cats
    BY <1>3 DEF Build
  <2>2. TimeShape(tv)
    BY DEF TimeShape
  <2> HIDE DEF tv
  <2>3. DataShape(NoData) /\ NoData.cache = {} /\ ShownLive(NoData, selection)
    BY DEF DataShape, NoData, ShownLive
  <2>4. "location" \notin DOMAIN selection
    BY ChartsAssumption, PartialIs DEF ChartsAssumption, DrawTypeOK
  <2>5. AsksOrShows(NoData, data', tv, cats, selection, Variables)
    BY <2>1, <2>3, RedrawDoes
  <2>6. SeriesInv(data', tv, cats, selection)
    BY <2>3, <2>5 DEF SeriesInv, AsksOrShows
  <2>7. DataShape(data') /\ ShownLive(data', selection)
    BY <2>1, <2>2, <2>3, <2>4, FullRedraw
  <2> QED
    BY <1>1, <2>1, <2>2, <2>6, <2>7 DEF CInv
<1> QED
  BY <1>2, <1>3 DEF Loading, Search, SearchFails, Arrival, chartVars

LEMMA InitCInv == Init => CInv
<1> SUFFICES ASSUME Init PROVE CInv
  OBVIOUS
<1>1. data = NoData /\ timeVar = [start |-> 0, nbins |-> 0, selStart |-> 0, selBins |-> 0]
  BY DEF Init, ChartInit
<1>2. DataShape(data) /\ ShownLive(data, selection) /\ \A s, q : AsksFor(data, s, q)
  BY <1>1 DEF NoData, DataShape, ShownLive, AsksFor
<1>3. TimeShape(timeVar) /\ ~(timeVar.nbins > 0)
  BY <1>1 DEF TimeShape
<1> QED
  BY <1>2, <1>3 DEF CInv, SeriesInv

LEMMA NextCInv == CInv /\ DrawTypeOK /\ DrawTypeOK' /\ [Next]_vars => CInv'
<1> SUFFICES ASSUME CInv, DrawTypeOK, DrawTypeOK', [Next]_vars PROVE CInv'
  OBVIOUS
<1>1. CASE Reply
  <2>1. CASE ChartReply
    BY <2>1, ReceiveKeepsCInv, LoseKeepsCInv DEF ChartReply, drawVars
  <2>2. CASE TileReply
    <3>1. UNCHANGED <<timeVar, cats, data, selection>>
      BY <2>2 DEF TileReply, chartVars, drawVars
    <3> QED
      BY <3>1 DEF CInv
  <2> QED
    BY <1>1, <2>1, <2>2 DEF Reply
<1>2. CASE UNCHANGED vars
  <2>1. UNCHANGED <<timeVar, cats, data, selection>>
    BY <1>2 DEF vars, chartVars, drawVars
  <2> QED
    BY <2>1 DEF CInv
<1> QED
  BY <1>1, <1>2, UserKeepsCInv, LoadingKeepsCInv DEF Next

(* Every series of a chart that is answered shows the answer to what the   *)
(* page would ask now, although a brush redraws one chart only, answers    *)
(* come in any order or not at all, and selections come and go.            *)
THEOREM PageChartsCurrent == Spec => []ChartsCurrent
<1>1. Spec => []DrawTypeOK
  BY PageRefines, TypeCorrect, PTL
<1> QED
  BY <1>1, CInvCurrent, InitCInv, NextCInv, PTL DEF Spec
--------------------------------------------------------------------------------
\* The heat map.
LEMMA RedrawnKeepsHInv ==
  ASSUME NEW h, Base(h), heat' = TilesRedrawn(h, timeVar', cats')
  PROVE  HInv'
  BY TilesRedrawnKeep DEF HInv

LEMMA SameLayer ==
  ASSUME HInv, UNCHANGED <<heat, timeVar, cats>>
  PROVE  HInv'
  BY DEF HInv

LEMMA MoveMapKeepsHInv ==
  ASSUME HInv, MoveMap
  PROVE  HInv'
<1>1. timeVar' = timeVar /\ cats' = cats
  BY DEF MoveMap, chartVars
<1>2. Drawing(heat, RegionsOf(heat), timeVar, cats) /\ Base(heat)
  BY DEF HInv, Drawing
<1>3. ASSUME NEW view \in Views, Pan(view) PROVE HInv'
  <2>1. heat' = TilesAdded(heat, view, timeVar, cats)
    BY <1>3 DEF Pan
  <2>2. Drawing(heat', RegionsOf(heat'), timeVar, cats)
    BY <1>2, <2>1, TilesAddedKeep
  <2> QED
    BY <1>1, <2>2 DEF HInv
<1>4. ASSUME NEW view \in Views, Zoom(view) PROVE HInv'
  <2>1. PICK h : h = Reset(heat, view.zoom) /\ heat' = TilesAdded(h, view, timeVar, cats)
    BY <1>4 DEF Zoom
  <2>2. Drawing(h, RegionsOf(h), timeVar, cats)
    BY <1>2, <2>1, ResetKeeps
  <2>3. Drawing(heat', RegionsOf(heat'), timeVar, cats)
    BY <2>1, <2>2, TilesAddedKeep
  <2> QED
    BY <1>1, <2>3 DEF HInv
<1>5. ASSUME NEW step, Radius(step) PROVE HInv'
  <2>1. PICK h : /\ h = [heat EXCEPT !.coarse = Between(0, @ + step, 8)]
                 /\ heat' = TilesRedrawn(h, timeVar, cats)
    BY <1>5 DEF Radius
  <2>2. /\ Whole(h) /\ h.tiles = heat.tiles /\ h.requests = heat.requests
        /\ h.cache = heat.cache
    BY <1>2, <2>1 DEF Base, Whole
  <2>3. Base(h)
    BY <1>2, <2>2 DEF Base, Tiled, Asked, RegionsOf, Alike, Once
  <2> QED
    BY <1>1, <2>1, <2>3, RedrawnKeepsHInv
<1> QED
  BY <1>3, <1>4, <1>5 DEF MoveMap

LEMMA UserKeepsHInv ==
  ASSUME HInv, User
  PROVE  HInv'
<1>1. Base(heat)
  BY DEF HInv, Drawing
<1>2. CASE UseTool
  <2>1. UNCHANGED <<heat, timeVar, cats>>
    BY <1>2 DEF UseTool, chartVars
  <2> QED
    BY <2>1, SameLayer
<1>3. CASE Select
  <2>1. heat' = TilesRedrawn(heat, timeVar', cats')
    BY <1>3 DEF Select, AfterSelection
  <2> QED
    BY <1>1, <2>1, RedrawnKeepsHInv
<1>4. CASE Deselect
  <2>1. heat' = TilesRedrawn(heat, timeVar', cats')
    BY <1>4 DEF Deselect, AfterRemoval
  <2> QED
    BY <1>1, <2>1, RedrawnKeepsHInv
<1>5. CASE UseBars
  <2>1. heat' = TilesRedrawn(heat, timeVar', cats')
    BY <1>5 DEF UseBars
  <2> QED
    BY <1>1, <2>1, RedrawnKeepsHInv
<1>6. CASE UseBrush
  <2>1. heat' = TilesRedrawn(heat, timeVar', cats')
    BY <1>6 DEF UseBrush, BrushEnd
  <2> QED
    BY <1>1, <2>1, RedrawnKeepsHInv
<1>7. CASE UseAxis
  <2>1. PICK h, tv : /\ h = TilesRedrawn(heat, tv, cats)
                     /\ heat' = TilesRedrawn(h, timeVar', cats')
    BY <1>7 DEF UseAxis, ZoomEnd
  <2>2. Base(h)
    BY <1>1, <2>1, TilesRedrawnKeep DEF Drawing
  <2> QED
    BY <2>1, <2>2, RedrawnKeepsHInv
<1> QED
  BY <1>2, <1>3, <1>4, <1>5, <1>6, <1>7, MoveMapKeepsHInv DEF User

\* The layer as the page is built, and before.
LEMMA StartIs ==
  ASSUME NEW zoom, NEW h, h = [NoLayer EXCEPT !.zoom = zoom] \/ h = NoLayer, NEW tv, NEW cs
  PROVE  Drawing(h, RegionsOf(h), tv, cs)
<1>1. /\ DOMAIN h = {"zoom", "coarse", "tiles", "extents", "requests", "cache", "outdated", "late"}
      /\ h.late = FALSE /\ h.tiles = <<>> /\ h.requests = {} /\ h.cache = [q \in {} |-> 0]
  BY DEF NoLayer
<1>2. Whole(h) /\ Once(h)
  BY <1>1 DEF Whole, Once
<1> QED
  BY <1>1, <1>2, EmptyIs

LEMMA LoadingKeepsHInv ==
  ASSUME HInv, Loading
  PROVE  HInv'
<1>1. CASE UNCHANGED <<chartVars, heat>>
  <2>1. UNCHANGED <<heat, timeVar, cats>>
    BY <1>1 DEF chartVars
  <2> QED
    BY <2>1, SameLayer
<1>2. ASSUME NEW first, NEW last, Build(first, last),
             heat' = IF left.heat THEN TilesAdded([NoLayer EXCEPT !.zoom = FirstView.zoom],
                                                  FirstView, timeVar', cats)
                     ELSE NoLayer
      PROVE  HInv'
  <2>1. cats' = cats
    BY <1>2 DEF Build
  <2>2. CASE left.heat
    <3>1. PICK h : h = [NoLayer EXCEPT !.zoom = FirstView.zoom]
      OBVIOUS
    <3>2. Drawing(h, RegionsOf(h), timeVar', cats')
      BY <3>1, StartIs
    <3>3. heat' = TilesAdded(h, FirstView, timeVar', cats')
      BY <1>2, <2>1, <2>2, <3>1
    <3>4. FirstView \in Views
      BY ViewerAssumption DEF ViewerAssumption
    <3> QED
      BY <3>2, <3>3, <3>4, TilesAddedKeep DEF HInv
  <2>3. CASE ~left.heat
    BY <1>2, <2>3, StartIs DEF HInv
  <2> QED
    BY <2>2, <2>3
<1>3. CASE \E side \in Sides : Search(side)
  <2>1. \/ UNCHANGED <<chartVars, heat>>
        \/ /\ Build(start'["min"], start'["max"])
           /\ heat' = IF left.heat THEN TilesAdded([NoLayer EXCEPT !.zoom = FirstView.zoom],
                                                   FirstView, timeVar', cats)
                      ELSE NoLayer
    BY <1>3 DEF Search
  <2> QED
    BY <1>1, <1>2, <2>1
<1> QED
  BY <1>1, <1>3 DEF Loading, SearchFails, Arrival

LEMMA InitHInv == Init => HInv
  BY StartIs DEF Init, HInv

LEMMA NextHInv == HInv /\ [Next]_vars => HInv'
<1> SUFFICES ASSUME HInv, [Next]_vars PROVE HInv'
  OBVIOUS
<1>1. CASE Reply
  <2>1. CASE ChartReply
    BY <2>1, SameLayer DEF ChartReply
  <2>2. CASE TileReply
    <3>1. UNCHANGED <<timeVar, cats>>
      BY <2>2 DEF TileReply, chartVars
    <3> QED
      BY <2>2, <3>1, TileReceiveKeepsHInv, TileLoseKeepsHInv DEF TileReply
  <2> QED
    BY <1>1, <2>1, <2>2 DEF Reply
<1>2. CASE UNCHANGED vars
  <2>1. UNCHANGED <<heat, timeVar, cats>>
    BY <1>2 DEF vars, chartVars
  <2> QED
    BY <2>1, SameLayer
<1> QED
  BY <1>1, <1>2, UserKeepsHInv, LoadingKeepsHInv DEF Next

LEMMA AlwaysHInv == Spec => []HInv
  BY InitHInv, NextHInv, PTL DEF Spec

(* All pictures on the map have one scale and one resolution, whatever the *)
(* order of answers, moves and redraws.                                    *)
THEOREM PageHasOneScale == Spec => []SameScale
  BY HInvShows, AlwaysHInv, PTL

(* A tile that waits for nothing has the answer to the query of now, and   *)
(* paints it with its resolution unless a late answer has painted the map. *)
THEOREM PageTilesCurrent == Spec => []TilesCurrent
  BY HInvShows, AlwaysHInv, PTL

(* The values in the cache of the heat map are processed once, however     *)
(* often tiles are drawn from it.                                          *)
THEOREM PageProcessesOnce == Spec => []ProcessedOnce
  BY HInvShows, AlwaysHInv, PTL

=============================================================================
