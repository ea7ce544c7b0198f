--------------------------- MODULE Whiteboard_proofs ---------------------------
(***************************************************************************)
(* Theorems about Whiteboard, for any pointers, any choice of tools and    *)
(* any number of shapes and patches.                                       *)
(***************************************************************************)
EXTENDS Whiteboard, FiniteSetTheorems, TLAPS

\* Shapes are numbered as they are drawn.
Numbered == \E n \in Nat : DOMAIN by = 1 .. n

\* A shape on the board has a kind, fields and a count.
ShapesInv ==
  \A i \in DOMAIN board :
    /\ board[i] \in [kind : DOMAIN FieldsOf, fields : {board[i].fields}, changes : Nat]
    /\ i \in DOMAIN by

\* Nothing is known before the welcome, and the welcome comes once.
SocketInv == socket \in {"connecting", "open"} => ~known

\* What is active was drawn after the welcome: it is on the board, not finished, and the
\* server has been sent it if the socket is still there.
ActiveInv ==
  active # None =>
    /\ known /\ active \in DOMAIN board /\ active \notin finished
    /\ socket = "welcomed" => [type |-> "add", id |-> active] \in wire

\* While a shape is drawn with one tool, its kind is the tool's.
ToolInv ==
  active # None /\ active \notin switched =>
    tool \in DOMAIN KindOf /\ board[active].kind = KindOf[tool]

IInv ==
  /\ TypeOK /\ WellShapedUnlessSwitched /\ ActiveIsHeld /\ PatchesFollowAdds
  /\ Numbered /\ ShapesInv /\ SocketInv /\ ActiveInv /\ ToolInv

-------------------------------------------------------------------------------
(* Facts about the definitions *)

\* A tool drags fields that its kind has.
LEMMA DraggedFields ==
  ASSUME NEW t \in DOMAIN Dragged
  PROVE  t \in DOMAIN KindOf /\ Dragged[t] \subseteq FieldsOf[KindOf[t]]
<1>1. t \in {"pen", "rect", "ellipse", "line"}
  BY DEF Dragged
<1>2. CASE t = "pen"
  BY <1>2 DEF Dragged, KindOf, FieldsOf
<1>3. CASE t = "rect"
  BY <1>3 DEF Dragged, KindOf, FieldsOf
<1>4. CASE t = "ellipse"
  BY <1>4 DEF Dragged, KindOf, FieldsOf
<1>5. CASE t = "line"
  BY <1>5 DEF Dragged, KindOf, FieldsOf
<1> QED BY <1>1, <1>2, <1>3, <1>4, <1>5

\* Every tool but select draws a kind.
LEMMA DrawingTools ==
  ASSUME NEW t \in Tools, t # "select"
  PROVE  t \in DOMAIN KindOf /\ KindOf[t] \in DOMAIN FieldsOf
BY ToolAssumption DEF KindOf, FieldsOf

\* The number of the next shape is new.
LEMMA NextId ==
  ASSUME Numbered
  PROVE  /\ Cardinality(DOMAIN by) + 1 \notin DOMAIN by
         /\ Cardinality(DOMAIN by) \in Nat
         /\ DOMAIN by \cup {Cardinality(DOMAIN by) + 1} = 1 .. Cardinality(DOMAIN by) + 1
<1>1. PICK n \in Nat : DOMAIN by = 1 .. n
  BY DEF Numbered
<1>2. Cardinality(DOMAIN by) = n
  <2>1. Cardinality(1 .. n) = IF 1 > n THEN 0 ELSE n - 1 + 1
    BY <1>1, FS_Interval
  <2> QED BY <1>1, <2>1
<1> QED BY <1>1, <1>2

-------------------------------------------------------------------------------
(* IInv is inductive *)

LEMMA InitIInv == Init => IInv
<1> SUFFICES ASSUME Init PROVE IInv
  OBVIOUS
<1>1. DOMAIN board = {} /\ DOMAIN by = {} /\ wire = {} /\ active = None /\ ~panning
      /\ finished = {} /\ switched = {} /\ ~unseen /\ ~known /\ pressed = {}
  BY DEF Init
<1>2. DOMAIN by = 1 .. 0
  BY <1>1
<1>3. TypeOK
  BY <1>1 DEF Init, TypeOK
<1>4. Numbered
  BY <1>2 DEF Numbered
<1> QED BY <1>1, <1>3, <1>4 DEF IInv, WellShapedUnlessSwitched, ActiveIsHeld, PatchesFollowAdds,
                           ShapesInv, SocketInv, ActiveInv, ToolInv

\* The socket opens, welcomes or closes.
LEMMA SocketStep ==
  ASSUME IInv, Open \/ Welcome \/ Close
  PROVE  IInv'
<1>1. /\ UNCHANGED <<wire, pressed, tool, active, panning, board, by, panner, switched, finished, unseen>>
      /\ socket' \in {"connecting", "open", "welcomed", "closed"} /\ known' \in BOOLEAN
      /\ socket' \in {"connecting", "open"} => known' = known /\ socket \in {"connecting", "open"}
      /\ known => known'
      /\ socket' = "welcomed" => socket = "open"
  BY DEF IInv, TypeOK, Open, Welcome, Close, screen, history
<1>2. TypeOK' /\ WellShapedUnlessSwitched' /\ ActiveIsHeld' /\ PatchesFollowAdds'
  BY <1>1 DEF IInv, TypeOK, WellShapedUnlessSwitched, ActiveIsHeld, PatchesFollowAdds, Ids
<1>3. Numbered' /\ ShapesInv' /\ ToolInv' /\ SocketInv'
  BY <1>1 DEF IInv, Numbered, ShapesInv, ToolInv, SocketInv
<1>4. ActiveInv'
  BY <1>1 DEF IInv, ActiveInv, SocketInv
<1> QED BY <1>2, <1>3, <1>4 DEF IInv

LEMMA SetToolStep ==
  ASSUME IInv, NEW t \in Tools, SetTool(t)
  PROVE  IInv'
<1>1. /\ UNCHANGED <<socket, known, active, panning, board, wire, pressed, by, panner, finished, unseen>>
      /\ tool' = t
      /\ switched' = IF t # tool THEN switched \cup ({active} \ {None}) ELSE switched
  BY DEF SetTool
<1>2. active \in DOMAIN by \cup {None}
  BY DEF IInv, ActiveInv, ShapesInv
<1>3. switched \subseteq switched' /\ switched' \subseteq DOMAIN by
  BY <1>1, <1>2 DEF IInv, TypeOK
<1>4. TypeOK'
  BY <1>1, <1>3 DEF IInv, TypeOK, Ids
<1>5. WellShapedUnlessSwitched' /\ ActiveIsHeld' /\ PatchesFollowAdds'
  BY <1>1, <1>3 DEF IInv, WellShapedUnlessSwitched, ActiveIsHeld, PatchesFollowAdds
<1>6. Numbered' /\ ShapesInv' /\ SocketInv' /\ ActiveInv'
  BY <1>1 DEF IInv, Numbered, ShapesInv, SocketInv, ActiveInv
<1>7. ToolInv'
  BY <1>1 DEF IInv, ToolInv
<1> QED BY <1>4, <1>5, <1>6, <1>7 DEF IInv

\* The presses that draw nothing, and the pointers the page does not hear of.
LEMMA PressStep ==
  ASSUME IInv, NEW p \in Pointers, PressToPan(p) \/ PressForNothing(p) \/ Cancel(p)
  PROVE  IInv'
<1>1. /\ UNCHANGED <<socket, known, wire, tool, active, board, by, switched, finished>>
      /\ panning' \in BOOLEAN /\ unseen' \in BOOLEAN /\ panner' \in Pointers /\ pressed' \subseteq Pointers
  BY DEF IInv, TypeOK, PressToPan, PressForNothing, Cancel, screen, history
<1>2. ~unseen' => /\ ~unseen /\ pressed \subseteq pressed'
                  /\ panning' => panner' \in pressed' \/ (panning /\ panner' = panner)
  BY DEF PressToPan, PressForNothing, Cancel, screen, history
<1>3. ActiveIsHeld'
  BY <1>1, <1>2 DEF IInv, ActiveIsHeld
<1>4. TypeOK' /\ WellShapedUnlessSwitched' /\ PatchesFollowAdds'
  BY <1>1 DEF IInv, TypeOK, WellShapedUnlessSwitched, PatchesFollowAdds, Ids
<1>5. Numbered' /\ ShapesInv' /\ SocketInv' /\ ActiveInv' /\ ToolInv'
  BY <1>1 DEF IInv, Numbered, ShapesInv, SocketInv, ActiveInv, ToolInv
<1> QED BY <1>3, <1>4, <1>5 DEF IInv

LEMMA LiftStep ==
  ASSUME IInv, NEW p \in Pointers, Lift(p)
  PROVE  IInv'
<1>1. /\ UNCHANGED <<socket, known, wire, tool, board, by, panner, switched, unseen>>
      /\ active' = None /\ panning' = FALSE /\ pressed' \subseteq pressed
      /\ finished' \subseteq DOMAIN by
  BY DEF IInv, TypeOK, Lift, OnPointerUp
<1>2. TypeOK' /\ WellShapedUnlessSwitched' /\ ActiveIsHeld' /\ PatchesFollowAdds'
  BY <1>1 DEF IInv, TypeOK, WellShapedUnlessSwitched, ActiveIsHeld, PatchesFollowAdds
<1>3. Numbered' /\ ShapesInv' /\ SocketInv' /\ ActiveInv' /\ ToolInv'
  BY <1>1 DEF IInv, Numbered, ShapesInv, SocketInv, ActiveInv, ToolInv
<1> QED BY <1>2, <1>3 DEF IInv

\* What a press that draws does to the variables it touches.
LEMMA DrawFacts ==
  ASSUME IInv, NEW p \in Pointers, PressToDraw(p)
  PROVE  \E id \in Ids :
    /\ id \notin DOMAIN by /\ DOMAIN by' = DOMAIN by \cup {id}
    /\ Numbered'
    /\ by'[id] = p /\ \A i \in DOMAIN by : by'[i] = by[i]
    /\ active' = id /\ known
    /\ tool \in DOMAIN KindOf /\ KindOf[tool] \in DOMAIN FieldsOf
    /\ DOMAIN board' = DOMAIN board \cup {id}
    /\ board'[id] = [kind |-> KindOf[tool], fields |-> FieldsOf[KindOf[tool]], changes |-> 0]
    /\ \A i \in DOMAIN board : board'[i] = board[i]
    /\ wire' = IF socket = "welcomed" THEN wire \cup {[type |-> "add", id |-> id]} ELSE wire
<1> DEFINE id == Cardinality(DOMAIN by) + 1
<1>1. /\ id \notin DOMAIN by /\ Cardinality(DOMAIN by) \in Nat
      /\ DOMAIN by \cup {id} = 1 .. id
  BY NextId DEF IInv
<1>2. /\ id \in Ids /\ tool # "select" /\ known /\ active' = id
      /\ by' = [i \in DOMAIN by \cup {id} |-> IF i = id THEN p ELSE by[i]]
      /\ Submit("add", id, Added(id, KindOf[tool]))
  BY DEF PressToDraw, MayDraw
<1>3. tool \in DOMAIN KindOf /\ KindOf[tool] \in DOMAIN FieldsOf
  BY <1>2, DrawingTools DEF IInv, TypeOK
<1>4. /\ board' = Added(id, KindOf[tool])
      /\ wire' = IF socket = "welcomed" THEN wire \cup {[type |-> "add", id |-> id]} ELSE wire
  BY <1>2 DEF Submit
<1>5. DOMAIN by' = 1 .. id /\ id \in Nat
  BY <1>1, <1>2
<1>6. Numbered'
  BY <1>5 DEF Numbered
<1>7. id \notin DOMAIN board
  BY <1>1 DEF IInv, ShapesInv
<1>8. /\ DOMAIN board' = DOMAIN board \cup {id}
      /\ board'[id] = [kind |-> KindOf[tool], fields |-> FieldsOf[KindOf[tool]], changes |-> 0]
      /\ \A i \in DOMAIN board : board'[i] = board[i]
  BY <1>4, <1>7 DEF Added
<1>9. DOMAIN by' = DOMAIN by \cup {id} /\ by'[id] = p /\ \A i \in DOMAIN by : by'[i] = by[i]
  BY <1>1, <1>2
<1> HIDE DEF id
<1> QED BY <1>1, <1>2, <1>3, <1>4, <1>6, <1>8, <1>9

LEMMA DrawStep ==
  ASSUME IInv, NEW p \in Pointers, PressToDraw(p)
  PROVE  IInv'
<1>1. PICK id \in Ids :
    /\ id \notin DOMAIN by /\ DOMAIN by' = DOMAIN by \cup {id}
    /\ Numbered'
    /\ by'[id] = p /\ \A i \in DOMAIN by : by'[i] = by[i]
    /\ active' = id /\ known
    /\ tool \in DOMAIN KindOf /\ KindOf[tool] \in DOMAIN FieldsOf
    /\ DOMAIN board' = DOMAIN board \cup {id}
    /\ board'[id] = [kind |-> KindOf[tool], fields |-> FieldsOf[KindOf[tool]], changes |-> 0]
    /\ \A i \in DOMAIN board : board'[i] = board[i]
    /\ wire' = IF socket = "welcomed" THEN wire \cup {[type |-> "add", id |-> id]} ELSE wire
  BY DrawFacts
<1>2. /\ UNCHANGED <<socket, known, tool, panning, panner, switched, finished>>
      /\ unseen' \in BOOLEAN /\ pressed \subseteq pressed' /\ pressed' \subseteq Pointers
      /\ ~unseen' => ~unseen /\ p \in pressed'
  <2>1. \/ pressed' = pressed \cup {p} /\ UNCHANGED unseen
        \/ unseen' = TRUE /\ UNCHANGED pressed
    BY DEF PressToDraw
  <2>2. UNCHANGED <<socket, known, tool, panning, panner, switched, finished>>
    BY DEF PressToDraw
  <2>3. unseen \in BOOLEAN /\ pressed \subseteq Pointers
    BY DEF IInv, TypeOK
  <2>4. CASE pressed' = pressed \cup {p} /\ UNCHANGED unseen
    BY <2>2, <2>3, <2>4
  <2>5. CASE unseen' = TRUE /\ UNCHANGED pressed
    BY <2>2, <2>3, <2>5
  <2> QED BY <2>1, <2>4, <2>5
<1>3. DOMAIN board \subseteq DOMAIN by /\ switched \cup finished \subseteq DOMAIN by
  BY DEF IInv, TypeOK
<1>4. TypeOK'
  <2>1. wire' \subseteq [type : {"add", "patch"}, id : DOMAIN by']
    BY <1>1 DEF IInv, TypeOK
  <2>2. DOMAIN by' \subseteq Ids /\ DOMAIN board' \subseteq DOMAIN by'
        /\ switched' \cup finished' \subseteq DOMAIN by'
    BY <1>1, <1>2, <1>3 DEF IInv, TypeOK
  <2> QED BY <1>1, <1>2, <2>1, <2>2 DEF IInv, TypeOK
<1>5. WellShapedUnlessSwitched' /\ ShapesInv'
  <2>1. ASSUME NEW i \in DOMAIN board'
        PROVE  /\ board'[i] \in [kind : DOMAIN FieldsOf, fields : {board'[i].fields}, changes : Nat]
               /\ i \in DOMAIN by'
               /\ i \notin switched => board'[i].fields \subseteq FieldsOf[board'[i].kind]
    <3>1. CASE i = id
      BY <1>1, <3>1
    <3>2. CASE i \in DOMAIN board
      BY <1>1, <3>2 DEF IInv, WellShapedUnlessSwitched, ShapesInv
    <3> QED BY <1>1, <2>1, <3>1, <3>2
  <2> QED BY <1>2, <2>1 DEF WellShapedUnlessSwitched, ShapesInv
<1>6. ActiveIsHeld'
  BY <1>1, <1>2 DEF IInv, ActiveIsHeld
<1>7. PatchesFollowAdds'
  BY <1>1 DEF IInv, PatchesFollowAdds
<1>8. SocketInv' /\ ActiveInv'
  <2>1. id \notin finished
    BY <1>1, <1>3
  <2> QED BY <1>1, <1>2, <2>1 DEF IInv, SocketInv, ActiveInv
<1>9. ToolInv'
  BY <1>1, <1>2 DEF ToolInv
<1> QED BY <1>1, <1>4, <1>5, <1>6, <1>7, <1>8, <1>9 DEF IInv

\* What a move that draws does: one shape, the active one, gets fields of its tool.
LEMMA MoveFacts ==
  ASSUME IInv, NEW p \in Pointers, Move(p)
  PROVE  /\ active \in DOMAIN board /\ active \notin finished /\ tool \in DOMAIN Dragged
         /\ DOMAIN board' = DOMAIN board
         /\ board'[active] \in [kind : {board[active].kind},
                                fields : {board[active].fields \cup Dragged[tool]}, changes : Nat]
         /\ \A i \in DOMAIN board \ {active} : board'[i] = board[i]
         /\ socket = "welcomed" => [type |-> "add", id |-> active] \in wire
         /\ wire' = IF socket = "welcomed" THEN wire \cup {[type |-> "patch", id |-> active]} ELSE wire
         /\ UNCHANGED <<socket, known, tool, active, panning, pressed, by, panner, switched,
                        finished, unseen>>
<1>1. /\ active # None /\ tool \in DOMAIN Dragged
      /\ Submit("patch", active, Patched(active, Dragged[tool]))
      /\ UNCHANGED <<socket, known, tool, active, panning, pressed, by, panner, switched,
                     finished, unseen>>
  BY DEF Move, history
<1>2. /\ known /\ active \in DOMAIN board /\ active \notin finished
      /\ socket = "welcomed" => [type |-> "add", id |-> active] \in wire
  BY <1>1 DEF IInv, ActiveInv
<1>3. /\ board' = Patched(active, Dragged[tool])
      /\ wire' = IF socket = "welcomed" THEN wire \cup {[type |-> "patch", id |-> active]} ELSE wire
  BY <1>1, <1>2 DEF Submit
<1>4. board[active].changes \in Nat
  BY <1>2 DEF IInv, ShapesInv
<1>5. DOMAIN board' = DOMAIN board /\ \A i \in DOMAIN board \ {active} : board'[i] = board[i]
  BY <1>3 DEF Patched
<1>6. board'[active] = [kind |-> board[active].kind, fields |-> board[active].fields \cup Dragged[tool],
                       changes |-> board[active].changes + 1]
  BY <1>2, <1>3 DEF Patched
<1>7. board'[active] \in [kind : {board[active].kind},
                          fields : {board[active].fields \cup Dragged[tool]}, changes : Nat]
  BY <1>4, <1>6
<1> QED BY <1>1, <1>2, <1>3, <1>5, <1>7

LEMMA MoveStep ==
  ASSUME IInv, NEW p \in Pointers, Move(p)
  PROVE  IInv'
<1>1. /\ active \in DOMAIN board /\ tool \in DOMAIN Dragged
      /\ DOMAIN board' = DOMAIN board
      /\ board'[active].kind = board[active].kind
      /\ board'[active].fields = board[active].fields \cup Dragged[tool]
      /\ board'[active].changes \in Nat
      /\ board'[active] \in [kind : {board[active].kind}, fields : {board'[active].fields}, changes : Nat]
      /\ \A i \in DOMAIN board \ {active} : board'[i] = board[i]
  BY MoveFacts
<1>2. /\ socket = "welcomed" => [type |-> "add", id |-> active] \in wire
      /\ wire' = IF socket = "welcomed" THEN wire \cup {[type |-> "patch", id |-> active]} ELSE wire
      /\ UNCHANGED <<socket, known, tool, active, panning, pressed, by, panner, switched,
                     finished, unseen>>
  BY MoveFacts
<1>3. active # None /\ active \in DOMAIN by
  BY <1>1 DEF IInv, TypeOK, Ids, None
<1>4. TypeOK'
  <2>1. wire' \subseteq [type : {"add", "patch"}, id : DOMAIN by]
    BY <1>2, <1>3 DEF IInv, TypeOK
  <2> QED BY <1>1, <1>2, <2>1 DEF IInv, TypeOK
<1>5. WellShapedUnlessSwitched'
  <2>1. active \notin switched => board'[active].fields \subseteq FieldsOf[board'[active].kind]
    BY <1>1, <1>3, DraggedFields DEF IInv, WellShapedUnlessSwitched, ToolInv
  <2> QED BY <1>1, <1>2, <2>1 DEF IInv, WellShapedUnlessSwitched
<1>6. ShapesInv'
  BY <1>1, <1>2 DEF IInv, ShapesInv
<1>7. PatchesFollowAdds'
  BY <1>2 DEF IInv, PatchesFollowAdds
<1>8. ActiveIsHeld' /\ Numbered' /\ SocketInv'
  BY <1>2 DEF IInv, ActiveIsHeld, Numbered, SocketInv
<1>9. ActiveInv' /\ ToolInv'
  BY <1>1, <1>2 DEF IInv, ActiveInv, ToolInv
<1> QED BY <1>4, <1>5, <1>6, <1>7, <1>8, <1>9 DEF IInv

LEMMA StepIInv == IInv /\ [Next]_vars => IInv'
<1> SUFFICES ASSUME IInv, [Next]_vars PROVE IInv'
  OBVIOUS
<1>1. CASE Open \/ Welcome \/ Close
  BY <1>1, SocketStep
<1>2. ASSUME NEW t \in Tools, SetTool(t) PROVE IInv'
  BY <1>2, SetToolStep
<1>3. ASSUME NEW p \in Pointers, PressToPan(p) \/ PressForNothing(p) \/ Cancel(p) PROVE IInv'
  BY <1>3, PressStep
<1>4. ASSUME NEW p \in Pointers, PressToDraw(p) \/ Move(p) \/ Lift(p) PROVE IInv'
  BY <1>4, DrawStep, MoveStep, LiftStep
<1>5. CASE UNCHANGED vars
  <2>1. UNCHANGED <<socket, known, wire, pressed, tool, active, panning, board, by, panner,
                    switched, finished, unseen>>
    BY <1>5 DEF vars, screen, history
  <2>2. TypeOK' /\ WellShapedUnlessSwitched' /\ ActiveIsHeld' /\ PatchesFollowAdds'
    BY <2>1 DEF IInv, TypeOK, WellShapedUnlessSwitched, ActiveIsHeld, PatchesFollowAdds
  <2>3. Numbered' /\ ShapesInv' /\ SocketInv' /\ ActiveInv' /\ ToolInv'
    BY <2>1 DEF IInv, Numbered, ShapesInv, SocketInv, ActiveInv, ToolInv
  <2> QED BY <2>2, <2>3 DEF IInv
<1> QED BY <1>1, <1>2, <1>3, <1>4, <1>5 DEF Next

-------------------------------------------------------------------------------
(* The theorems *)

\* The inductive invariant: types, numbers, shapes, socket and what is being drawn fit
\* together after every event.
THEOREM Invariance == Spec => []IInv
<1>1. IInv /\ [Next]_vars => IInv'
  BY StepIInv
<1> QED BY InitIInv, <1>1, PTL DEF Spec

\* The types of the variables.
THEOREM TypeCorrect == Spec => []TypeOK
<1>1. IInv => TypeOK
  BY DEF IInv
<1> QED BY <1>1, Invariance, PTL

\* Shapes keep to the fields of their kind, whatever the pointers do, unless the tool
\* changes while they are drawn.
THEOREM ShapesKeepKind == Spec => []WellShapedUnlessSwitched
<1>1. IInv => WellShapedUnlessSwitched
  BY DEF IInv
<1> QED BY <1>1, Invariance, PTL

\* No drawing and no panning goes on without the pointer that began it, as long as the
\* page hears of every pointer that goes up.
THEOREM DrawingIsHeld == Spec => []ActiveIsHeld
<1>1. IInv => ActiveIsHeld
  BY DEF IInv
<1> QED BY <1>1, Invariance, PTL

\* The server is sent no patch of a shape it was not sent before.
THEOREM PatchesComeAfter == Spec => []PatchesFollowAdds
<1>1. IInv => PatchesFollowAdds
  BY DEF IInv
<1> QED BY <1>1, Invariance, PTL

\* Whatever happens on the stage, a finished shape is not changed any more.
THEOREM FinishedForGood == Spec => FinishedStays
<1>1. IInv /\ [Next]_vars => [\A i \in finished \cap DOMAIN board : board'[i] = board[i]]_vars
  <2> SUFFICES ASSUME IInv, Next, NEW i \in finished \cap DOMAIN board
               PROVE  board'[i] = board[i]
    BY DEF Next
  <2>1. CASE UNCHANGED board
    BY <2>1
  <2>2. ASSUME NEW p \in Pointers, Move(p) PROVE board'[i] = board[i]
    BY <2>2, MoveFacts
  <2>3. ASSUME NEW p \in Pointers, PressToDraw(p) PROVE board'[i] = board[i]
    BY <2>3, DrawFacts
  <2>4. CASE Open \/ Welcome \/ Close \/ \E t \in Tools : SetTool(t)
    BY <2>1, <2>4 DEF Open, Welcome, Close, SetTool, screen
  <2>5. ASSUME NEW p \in Pointers, PressToPan(p) \/ PressForNothing(p) \/ Cancel(p) \/ Lift(p)
        PROVE  board'[i] = board[i]
    BY <2>1, <2>5 DEF PressToPan, PressForNothing, Cancel, Lift, screen
  <2> QED BY <2>2, <2>3, <2>4, <2>5 DEF Next
<1> QED BY <1>1, Invariance, PTL DEF Spec, FinishedStays

===============================================================================
