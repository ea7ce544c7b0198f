------------------------------ MODULE Whiteboard ------------------------------
(***************************************************************************)
(* The component Whiteboard of client/src/App.tsx: what pointer and key    *)
(* events make of the board, through the functions of useRoom.  Pointers   *)
(* are pressed, moved and lifted in any order, several at a time, and some *)
(* of what the browser tells about them has no handler.                    *)
(*                                                                         *)
(* Of a drawable there is its kind, the fields it has and how often it was *)
(* changed; colours, coordinates and the viewport are left out.  Nobody    *)
(* else draws here: see CanvasLive.                                        *)
(***************************************************************************)
EXTENDS Naturals, FiniteSets

CONSTANTS Pointers,    \* mice, pens and fingers
          Hovering,    \* the pointers that move without being pressed
          Tools,       \* the tools that are used
          MaxShapes,   \* bound: shapes drawn
          MaxPatches   \* bound: patches made

ASSUME PointerAssumption == Hovering \subseteq Pointers
ASSUME ToolAssumption == Tools \subseteq {"select", "pen", "rect", "ellipse", "line", "text"}
ASSUME BoundAssumption == MaxShapes \in Nat /\ MaxPatches \in Nat

VARIABLES
  tool,          \* the state of that name
  socket,        \* "connecting", "open", "welcomed" or "closed"
  known,         \* room.userId is set
  active,        \* the id in activeDraw.current, or None
  panning,       \* panActive.current is set
  board,         \* the shapes on the screen: id -> [kind, fields, changes]
  wire,          \* the ops that went into the socket
  pressed,       \* the pointers that are pressed
  by,            \* history: the pointer that drew each shape
  panner,        \* history: the pointer that last began to pan
  switched,      \* history: the shapes during whose drawing the tool changed
  finished,      \* history: the shapes whose pointer was lifted over the stage
  unseen         \* history: some pointer was lifted without pointerup

screen  == <<tool, active, panning, board>>
history == <<by, panner, switched, finished, unseen>>
vars == <<socket, known, wire, pressed, screen, history>>

None == 0
Ids == 1 .. MaxShapes

Init ==
  /\ tool \in Tools /\ socket = "connecting" /\ known = FALSE
  /\ active = None /\ panning = FALSE
  /\ board = [i \in {} |-> 0] /\ wire = {}
  /\ pressed = {}
  /\ by = [i \in {} |-> 0] /\ panner \in Pointers
  /\ switched = {} /\ finished = {} /\ unseen = FALSE

-------------------------------------------------------------------------------
(* The socket, as useRoom sees it *)

Open ==
  /\ socket = "connecting"
  /\ socket' = "open"
  /\ UNCHANGED <<known, wire, pressed, screen, history>>

\* The welcome: from now on there are a userId and an OTClient.
Welcome ==
  /\ socket = "open"
  /\ socket' = "welcomed" /\ known' = TRUE
  /\ UNCHANGED <<wire, pressed, screen, history>>

\* The socket is gone for good; userId and OTClient stay.
Close ==
  /\ socket # "closed"
  /\ socket' = "closed"
  /\ UNCHANGED <<known, wire, pressed, screen, history>>

\* submit, for an op on shape id after which the board looks like drawn: nothing at all
\* before the welcome, and after the close only the screen.
Submit(type, id, drawn) ==
  /\ board' = IF known THEN drawn ELSE board
  /\ wire' = IF known /\ socket = "welcomed" THEN wire \cup {[type |-> type, id |-> id]} ELSE wire

-------------------------------------------------------------------------------
(* The tools *)

\* Mutant: a key without a tool sets it too.
SetTool_AnyKey(t) ==
  /\ tool' \in {t, "undefined"}
  /\ switched' = IF t # tool THEN switched \cup ({active} \ {None}) ELSE switched
  /\ UNCHANGED <<socket, known, active, panning, board, wire, pressed, by, panner, finished, unseen>>

\* A key, or a click into the toolbar, at any time.
SetTool(t) ==
  /\ tool' = t
  /\ switched' = IF t # tool THEN switched \cup ({active} \ {None}) ELSE switched
  /\ UNCHANGED <<socket, known, active, panning, board, wire, pressed, by, panner, finished, unseen>>

KindOf == [pen |-> "stroke", rect |-> "rect", ellipse |-> "ellipse", line |-> "line", text |-> "text"]

\* The fields of a kind beside those every drawable has and the optional ones (types.ts).
FieldsOf ==
  [stroke  |-> {"points", "color", "width"},
   rect    |-> {"x", "y", "w", "h", "stroke", "fill", "strokeWidth"},
   ellipse |-> {"cx", "cy", "rx", "ry", "stroke", "fill", "strokeWidth"},
   line    |-> {"x1", "y1", "x2", "y2", "stroke", "strokeWidth"},
   text    |-> {"x", "y", "text", "font", "size", "color"}]

\* Mutant: the line is patched like the rect.
Dragged_LineAsRect ==
  [pen |-> {"points"}, rect |-> {"x", "y", "w", "h"}, ellipse |-> {"cx", "cy", "rx", "ry"},
   line |-> {"x", "y", "w", "h"}]

\* What a move with this tool patches; the others patch nothing.
Dragged ==
  [pen |-> {"points"}, rect |-> {"x", "y", "w", "h"}, ellipse |-> {"cx", "cy", "rx", "ry"},
   line |-> {"x2", "y2"}]

-------------------------------------------------------------------------------
(* The pointers *)

\* Middle button or shift: whatever is being drawn stays active.
PressToPan(p) ==
  /\ p \notin pressed
  /\ pressed' = pressed \cup {p}
  /\ panning' = TRUE /\ panner' = p
  /\ UNCHANGED <<socket, known, wire, tool, active, board, by, switched, finished, unseen>>

\* Mutant: drawing does not wait for the welcome.
MayDraw_Early == TRUE

MayDraw == known

\* A press that draws nothing: no userId yet, the tool selects, or no text was typed.
\* A mouse that is not lifted over the stage then might as well not have been pressed.
PressForNothing(p) ==
  /\ p \notin pressed
  /\ ~MayDraw \/ tool \in {"select", "text"}
  /\ pressed' = pressed \cup {p}
  /\ UNCHANGED <<socket, known, wire, screen, history>>

\* The new drawable on top of the others.
Added(id, kind) ==
  [i \in DOMAIN board \cup {id} |->
     IF i = id THEN [kind |-> kind, fields |-> FieldsOf[kind], changes |-> 0] ELSE board[i]]

\* A press that draws, anywhere on the stage, also on the palette that lies on it.  The
\* shape that was active before, if any, is forgotten.  The prompt for a text is modal:
\* its pointer may be lifted over it.
PressToDraw(p) ==
  LET id == Cardinality(DOMAIN by) + 1 IN
  /\ p \notin pressed /\ MayDraw /\ tool # "select" /\ id \in Ids
  /\ Submit("add", id, Added(id, KindOf[tool]))
  /\ active' = id
  /\ by' = [i \in DOMAIN by \cup {id} |-> IF i = id THEN p ELSE by[i]]
  /\ \/ pressed' = pressed \cup {p} /\ UNCHANGED unseen
     \/ tool = "text" /\ unseen' = TRUE /\ UNCHANGED pressed
  /\ UNCHANGED <<socket, known, tool, panning, panner, switched, finished>>

\* A patch of a shape that is not on the board gives none.
Patched(id, fields) ==
  [i \in DOMAIN board |->
     IF i = id
     THEN [kind |-> board[i].kind, fields |-> board[i].fields \cup fields, changes |-> board[i].changes + 1]
     ELSE board[i]]

\* A move, of any pointer: it draws if a shape is active, with the tool of now.  One
\* that pans, or with nothing active, changes nothing here.
Move(p) ==
  /\ p \in Hovering \cup pressed
  /\ ~panning /\ active # None /\ tool \in DOMAIN Dragged
  /\ active \in DOMAIN board => board[active].changes < MaxPatches
  /\ Submit("patch", active, Patched(active, Dragged[tool]))
  /\ UNCHANGED <<socket, known, tool, active, panning, pressed, history>>

\* Mutants: only the pan, or only the drawing, comes to an end.
OnPointerUp_PanOnly == panning' = FALSE /\ UNCHANGED active
OnPointerUp_DrawOnly == active' = None /\ UNCHANGED panning

\* pointerup, of any pointer, ends everything.
OnPointerUp == panning' = FALSE /\ active' = None

Lift(p) ==
  /\ p \in pressed
  /\ pressed' = pressed \ {p}
  /\ OnPointerUp
  /\ finished' = finished \cup {i \in DOMAIN by : by[i] = p}
  /\ UNCHANGED <<socket, known, wire, tool, board, by, panner, switched, unseen>>

\* pointercancel, which the browser sends when it takes a touch for itself.  There is
\* no handler.
Cancel(p) ==
  /\ p \in pressed \ Hovering
  /\ pressed' = pressed \ {p}
  /\ unseen' = TRUE
  /\ UNCHANGED <<socket, known, wire, screen, by, panner, switched, finished>>

Next ==
  \/ Open \/ Welcome \/ Close
  \/ \E t \in Tools : SetTool(t)
  \/ \E p \in Pointers :
       \/ PressToPan(p) \/ PressForNothing(p) \/ PressToDraw(p)
       \/ Move(p) \/ Lift(p) \/ Cancel(p)

Spec == Init /\ [][Next]_vars

-------------------------------------------------------------------------------
(* Properties *)

\* The types of the variables.
TypeOK ==
  /\ tool \in Tools /\ socket \in {"connecting", "open", "welcomed", "closed"}
  /\ known \in BOOLEAN /\ panning \in BOOLEAN /\ unseen \in BOOLEAN
  /\ active \in Ids \cup {None} /\ panner \in Pointers /\ pressed \subseteq Pointers
  /\ DOMAIN board \subseteq DOMAIN by /\ DOMAIN by \subseteq Ids
  /\ switched \cup finished \subseteq DOMAIN by
  /\ wire \subseteq [type : {"add", "patch"}, id : DOMAIN by]

\* "each drawable ... is one of" the kinds with their fields (ARCHITECTURE.md:22-35):
\* a shape never gets a field that its kind does not have, unless the tool was
\* changed while it was being drawn (App.tsx:280-302).
WellShapedUnlessSwitched ==
  \A i \in DOMAIN board \ switched : board[i].fields \subseteq FieldsOf[board[i].kind]

\* What is active, or pans, is held by the pointer that began it, as long as the page
\* heard of every pointer that went up (App.tsx:186-308): no hovering draws.
ActiveIsHeld ==
  ~unseen => /\ active # None => by[active] \in pressed
             /\ panning => panner \in pressed

\* A shape whose pointer was lifted is finished: no later press, move or tool, of this
\* or another pointer, changes it (App.tsx:305-308).
FinishedStays ==
  [][\A i \in finished \cap DOMAIN board : board'[i] = board[i]]_vars

\* The server never gets a patch of a shape that this page has not sent it before:
\* nothing is drawn before the welcome, and the socket does not come back
\* (App.tsx:192, useRoom.ts:147-159).
PatchesFollowAdds ==
  \A op \in wire : op.type = "patch" => [type |-> "add", id |-> op.id] \in wire

===============================================================================
