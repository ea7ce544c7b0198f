------------------------------ MODULE CanvasLive ------------------------------
(***************************************************************************)
(* One room and the browser tabs that edit it: useRoom and OTClient at one *)
(* end, handleConnection and Room.submitOp at the other, a WebSocket (two  *)
(* FIFO channels) between them.  The room was loaded with a document and   *)
(* does not crash here; crashes and the disk are in Room.                  *)
(*                                                                         *)
(* The handshake is one step; see Presence for what it awaits.  A tab of   *)
(* this module is one page load with its one socket: a page that is loaded *)
(* again is another tab, and ops that the old socket still carries come    *)
(* before or after the new welcome, since nothing orders the two.          *)
(***************************************************************************)
EXTENDS OTClient

CONSTANTS Tabs,        \* page loads
          UserOf,      \* UserOf[t]: the userId the server gives tab t
          InitDoc, InitLamport,     \* the room as hydrated
          ListFields, FieldSets,    \* what a patch may append to; what it may set at once
          NewShape(_, _),           \* the drawable user u creates with id i
          MaxEdits,    \* bound: MaxEdits[t] local ops of tab t
          MaxRejects   \* bound: ops the server refuses

ASSUME UserAssumption == UserOf \in [Tabs -> Nat]
ASSUME BoundAssumption == MaxEdits \in [Tabs -> Nat] /\ MaxRejects \in Nat

\* The ids that nanoid gives the shapes of tab t, one per edit: nobody else makes one of
\* them.
IdsOf(t) == {t} \X (1 .. MaxEdits[t])

ASSUME BoardAssumption ==
  /\ InitLamport \in Nat /\ IsDoc(InitDoc)
  /\ \A i \in DOMAIN InitDoc : InitDoc[i].updatedAt <= InitLamport
  /\ \A t \in Tabs : DOMAIN InitDoc \cap IdsOf(t) = {}
ASSUME FieldAssumption ==
  /\ ListFields \cap UNION FieldSets = {}
  /\ {} \notin FieldSets   \* App.tsx:287-301
\* A new shape has the stamp 0 (App.tsx:199-200).
ASSUME ShapeAssumption ==
  \A t \in Tabs : \A i \in IdsOf(t) :
    LET d == NewShape(UserOf[t], i) IN IsDrawable(d) /\ d.id = i /\ d.updatedAt = 0

VARIABLES
  doc, lamport, serverSeq,  \* the members of Room
  opened,                   \* the tabs that have been opened
  live,                     \* those with an open socket, which a broadcast reaches
  up, down,                 \* the channels of each tab's socket
  ot,                       \* ot[t]: otRef.current, NoOT before the welcome
  rejects,                  \* ops refused so far
  versions,                 \* history: the document after each serverSeq
  seen,                     \* history: the serverSeq t has received
  unacked,                  \* history: t's own ops of which it has not had the echo
  done,                     \* history: how many of them the server has applied
  ghost                     \* history: t has had an op refused

board   == <<doc, lamport, serverSeq, versions>>
sockets == <<opened, live>>
vars == <<board, sockets, up, down, ot, rejects, seen, unacked, done, ghost>>

NoOT == [userId |-> -1]
Loaded(t) == ot[t] # NoOT

Init ==
  /\ doc = InitDoc /\ lamport = InitLamport /\ serverSeq = 0
  /\ opened = {} /\ live = {}
  /\ up = [t \in Tabs |-> <<>>] /\ down = [t \in Tabs |-> <<>>]
  /\ ot = [t \in Tabs |-> NoOT]
  /\ rejects = 0
  /\ versions = [n \in {0} |-> InitDoc]
  /\ seen = [t \in Tabs |-> 0]
  /\ unacked = [t \in Tabs |-> <<>>] /\ done = [t \in Tabs |-> 0]
  /\ ghost = [t \in Tabs |-> FALSE]

-------------------------------------------------------------------------------
(* The tab *)

\* The page loads, the socket opens, hello is answered with a welcome.
Open(t) ==
  /\ t \notin opened
  /\ opened' = opened \cup {t} /\ live' = live \cup {t}
  /\ down' = [down EXCEPT ![t] =
       <<[type |-> "welcome", drawables |-> Drawables(doc), lamport |-> lamport,
          serverSeq |-> serverSeq]>>]
  /\ seen' = [seen EXCEPT ![t] = serverSeq]
  /\ UNCHANGED <<board, up, ot, rejects, unacked, done, ghost>>

\* The socket closes, or the page is gone.  Some of what it has sent may be lost; the
\* server handles the rest when it comes.  What is sent from now on to its session,
\* while that is in Room.clients, reaches nobody.  A page that stays does not reconnect.
Close(t) ==
  /\ t \in live
  /\ live' = live \ {t}
  /\ \E n \in 0 .. Len(up[t]) : up' = [up EXCEPT ![t] = SubSeq(@, 1, n)]
  /\ down' = [down EXCEPT ![t] = <<>>]
  /\ UNCHANGED <<board, opened, ot, rejects, seen, unacked, done, ghost>>

\* The id of the next new shape.
FreshId(t) == <<t, ot[t].clientSeq + 1>>

SetFields(id, ks, v) ==
  [type |-> "patch", id |-> id, patch |-> [f \in ks |-> [append |-> FALSE, v |-> v]]]
AppendTo(id, k, v) ==
  [type |-> "patch", id |-> id, patch |-> [f \in {k} |-> [append |-> TRUE, v |-> <<v>>]]]

\* What addShape, appendStrokePoint, patchShape and removeShape can be called with:
\* anything the user sees, and the shape that is being drawn, which somebody else may
\* have removed.
Edits(t) ==
  LET mark == 10 * UserOf[t] + ot[t].clientSeq + 1
      sees == DOMAIN Local(ot[t])
      ids  == sees \cup {i \in IdsOf(t) : \E n \in 0 .. seen[t] : i \in DOMAIN versions[n]}
  IN  {[type |-> "add", id |-> FreshId(t), shape |-> NewShape(UserOf[t], FreshId(t))]}
      \cup {[type |-> "remove", id |-> i] : i \in sees}
      \cup {SetFields(i, ks, mark) : i \in ids, ks \in FieldSets}
      \cup {AppendTo(i, k, mark) : i \in ids, k \in ListFields}

\* submit: into pending, and on the wire if the socket is open.
Edit(t) ==
  /\ Loaded(t) /\ ot[t].clientSeq < MaxEdits[t]
  /\ \E edit \in Edits(t) :
       LET op == Stamped(ot[t], edit) IN
       /\ ot' = [ot EXCEPT ![t] = LocalOp(@, edit)]
       /\ up' = [up EXCEPT ![t] = IF t \in live THEN Append(@, op) ELSE @]
       /\ unacked' = [unacked EXCEPT ![t] = Append(@, op)]
  /\ UNCHANGED <<board, sockets, down, rejects, seen, done, ghost>>

\* ws.onmessage and handle
Receive(t) ==
  /\ down[t] # <<>>
  /\ LET m == Head(down[t]) IN
     /\ \/ /\ m.type = "welcome"
           /\ ot' = [ot EXCEPT ![t] = Welcomed(UserOf[t], m.drawables, m.lamport)]
           /\ UNCHANGED <<seen, unacked, done>>
        \/ /\ m.type = "op"
           /\ ot' = [ot EXCEPT ![t] = OnServerOp(@, m.op)]
           /\ seen' = [seen EXCEPT ![t] = m.op.serverSeq]
           /\ unacked' = [unacked EXCEPT ![t] = IF m.from = t THEN Tail(@) ELSE @]
           /\ done' = [done EXCEPT ![t] = IF m.from = t THEN @ - 1 ELSE @]
  /\ down' = [down EXCEPT ![t] = Tail(@)]
  /\ UNCHANGED <<board, sockets, up, rejects, ghost>>

-------------------------------------------------------------------------------
(* The server *)

\* An op message to every one of "to".  "from" is not on the wire: it is there for
\* the histories.
SendOp(to, from, op) ==
  [d \in Tabs |->
    IF d \in to THEN Append(down[d], [type |-> "op", op |-> op, from |-> from]) ELSE down[d]]

\* Mutants: to the others only; to tabs with a closed socket as well.
Broadcast_OthersOnly(to, from, op) == SendOp(to \ {from}, from, op)
Broadcast_LeaversToo(to, from, op) == SendOp(to \cup {d \in Tabs : Loaded(d)}, from, op)

\* To everyone, the originator included.
Broadcast(to, from, op) == SendOp(to, from, op)

\* The turn of an op message: stamp, apply, broadcast to every member.  The
\* sender's clientId is its userId, since it got that from the welcome.  The page may
\* have closed since it sent the op.
ServerOp(t) ==
  /\ up[t] # <<>>
  /\ LET op == Override(Head(up[t]), [lamport   |-> Larger(lamport, Head(up[t]).lamport) + 1,
                                      serverSeq |-> serverSeq + 1])
     IN  /\ lamport' = op.lamport
         /\ serverSeq' = op.serverSeq
         /\ doc' = Apply(doc, op)
         /\ down' = Broadcast(live, t, op)
         /\ versions' = Override(versions, [n \in {op.serverSeq} |-> doc'])
  /\ up' = [up EXCEPT ![t] = Tail(@)]
  /\ done' = [done EXCEPT ![t] = @ + 1]
  /\ UNCHANGED <<sockets, ot, rejects, seen, unacked, ghost>>

\* The token bucket is empty or the op is too large: the sender gets an error
\* message, which useRoom only logs.
ServerReject(t) ==
  /\ up[t] # <<>> /\ rejects < MaxRejects
  /\ rejects' = rejects + 1
  /\ up' = [up EXCEPT ![t] = Tail(@)]
  /\ ghost' = [ghost EXCEPT ![t] = TRUE]
  /\ UNCHANGED <<board, sockets, down, ot, seen, unacked, done>>

Next == \E t \in Tabs : Open(t) \/ Close(t) \/ Edit(t) \/ Receive(t)
                        \/ ServerOp(t) \/ ServerReject(t)

Spec == Init /\ [][Next]_vars

\* TCP delivers what a live connection carries and the event loops of server and
\* tab run what has arrived; nobody is obliged to edit, open, close or refuse.
Fairness == \A t \in Tabs : WF_vars(Receive(t)) /\ WF_vars(ServerOp(t))
FairSpec == Spec /\ Fairness

-------------------------------------------------------------------------------
(* Properties *)

\* The OT clients and channels have the shape the handlers expect.
TypeOK ==
  /\ opened \subseteq Tabs /\ live \subseteq opened
  /\ lamport \in Nat /\ serverSeq \in Nat /\ rejects \in 0 .. MaxRejects
  /\ DOMAIN versions = 0 .. serverSeq /\ doc = versions[serverSeq]
  /\ \A t \in Tabs :
       /\ seen[t] \in 0 .. serverSeq
       /\ Loaded(t) => t \in opened
       /\ Loaded(t) =>
            /\ ot[t].userId = UserOf[t] /\ ot[t].clientSeq \in 0 .. MaxEdits[t]
            /\ \A i \in DOMAIN ot[t].pending : ot[t].pending[i].clientSeq \in 1 .. ot[t].clientSeq
       /\ \A i \in 1 .. Len(down[t]) : down[t][i].type \in {"welcome", "op"}

\* Rebasing is sound: after any interleaving of remote ops, local edits and
\* echoes, what the client keeps as server state differs from the document the
\* server had at that point only where the client's unanswered ops overwrite
\* the difference anyway (otClient.ts:64-94).
RebaseSound ==
  \A t \in Tabs : Loaded(t) /\ ~ghost[t] =>
    ApplyAll(ot[t].serverState, unacked[t]) = ApplyAll(versions[seen[t]], unacked[t])

\* "pending: ops sent but not yet acknowledged" (ARCHITECTURE.md:208): an op
\* leaves pending when its own echo arrives, not before and not later, whatever
\* rebasing made of it (otClient.ts:66-68, 84-89), as long as the server refuses none.
PendingIsUnacked ==
  \A t \in Tabs : Loaded(t) /\ ~ghost[t] =>
    [i \in DOMAIN ot[t].pending |-> ot[t].pending[i].clientSeq]
      = [i \in DOMAIN unacked[t] |-> unacked[t][i].clientSeq]

\* A tab's stream has no hole and no repetition, ops of pages that have closed included
\* (room.ts:137-140, index.ts:197-215).
StreamIsGapless ==
  \A t \in Tabs : \A i \in 1 .. Len(down[t]) :
    down[t][i].type = "op" =>
      down[t][i].op.serverSeq = 1 +
        (IF i = 1 THEN seen[t]
         ELSE IF down[t][i - 1].type = "op" THEN down[t][i - 1].op.serverSeq
         ELSE down[t][i - 1].serverSeq)

\* "all clients converge on the same document state" (ARCHITECTURE.md:5-8): when
\* nothing is in flight, every connected tab shows the document of the server.
Quiet == \A t \in live : up[t] = <<>> /\ down[t] = <<>>
ConvergedWhenQuiet ==
  Quiet => \A t \in live : Loaded(t) /\ Local(ot[t]) = doc

\* The same for every tab of which the server has refused nothing: a refusal harms
\* the refused tab only, and a page loaded later shows none of it.
ConvergedUnlessRefused ==
  Quiet => \A t \in live : ~ghost[t] => Loaded(t) /\ Local(ot[t]) = doc

\* The lamport of a client never falls behind a patch it has applied, so its next patch
\* wins over all it has seen, whoever made them (otClient.ts:41, 65).  It says nothing
\* of adds: a shape that no patch has touched has the stamp 0.
LamportCovers ==
  \A t \in Tabs : Loaded(t) =>
    \A i \in DOMAIN ot[t].serverState : ot[t].serverState[i].updatedAt <= ot[t].lamport

\* What a tab draws: nothing before the welcome (useRoom.ts:161-163).
Screen(t) == IF Loaded(t) THEN Local(ot[t]) ELSE EmptyDoc

\* The tabs and the server implement the SharedBoard: one line of documents, no draft
\* committed twice or out of order, screens that show each edit at once and never go
\* back, and nothing on them but a document and the tab's own draft, whatever rebasing
\* makes of the ops in flight.
Board == INSTANCE SharedBoard WITH
  docs    <- [n \in 1 .. serverSeq + 1 |-> versions[n - 1]],
  clock   <- lamport,
  online  <- live,
  loaded  <- {t \in Tabs : Loaded(t)},
  at      <- [t \in Tabs |-> IF t \in opened THEN seen[t] + 1 ELSE 0],
  draft   <- unacked,
  screen  <- [t \in Tabs |-> Screen(t)],
  refused <- {t \in Tabs : ghost[t]}
BoardSpec == Board!Spec

\* Once the users stop, connected tabs of which no op was refused come to show the
\* document of the server and stay so, whatever pages that have closed left in flight.
Settles == <>[](\A t \in live : ~ghost[t] => Loaded(t) /\ Local(ot[t]) = doc)

===============================================================================
