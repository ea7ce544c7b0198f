--------------------------------- MODULE Room ---------------------------------
(***************************************************************************)
(* One room of the server: server/src/room.ts on server/src/store.ts, with *)
(* crashes, graceful shutdowns and restarts of the process, and the        *)
(* viewers its messages go to.                                             *)
(*                                                                         *)
(* A turn of the event loop cannot be interrupted by another turn, but a   *)
(* crash can cut it anywhere; so submitOp, one turn, is split where it     *)
(* touches the disk or the network:                                        *)
(*   idle -Submit-> applied -WriteOp-> persisted -Settle-> settled         *)
(*        -Broadcast-> idle                                                *)
(* and every other handler waits for "idle".  hydrate is split the same    *)
(* way: absent -LoadRoom-> replaying -ReplayOp*-> -RoomReady-> idle.       *)
(*                                                                         *)
(* A viewer here only shows what the server sends; clients that edit are   *)
(* in CanvasLive.                                                          *)
(***************************************************************************)
EXTENDS OT

CONSTANTS Clients,        \* connections that may join the room
          Ops,            \* the ops they may send
          SnapshotEvery,  \* config.snapshotEvery
          MaxSeq,         \* bound: ops the room accepts
          MaxCrashes      \* bound: ends of the process

ASSUME BoundsAssumption ==
  SnapshotEvery \in Nat \ {0} /\ MaxSeq \in Nat /\ MaxCrashes \in Nat

\* The ops of types.ts:85-122.  useRoom sends an add with the id of its shape
\* (client/src/lib/useRoom.ts:171), and localOp stamps every op with a lamport.
WellFormed(op) ==
  op.type = "add" => "id" \in DOMAIN op.shape /\ op.shape.id = op.id

ASSUME OpsAssumption ==
  \A op \in Ops :
    /\ {"type", "lamport", "serverSeq"} \subseteq DOMAIN op
    /\ op.type = "add" => {"id", "shape"} \subseteq DOMAIN op
    /\ op.lamport \in Nat
    /\ WellFormed(op)

VARIABLES
  phase,              \* where the room is in its current turn
  doc, lamport, serverSeq, opsSinceSnapshot,    \* the members of Room
  cur,                \* the stamped op of the turn
  members,            \* Room.clients
  row,                \* the room's row of the table rooms
  ops,                \* the table ops of the room: server_seq -> op
  dbOpen,             \* the database handle is open
  inbox,              \* inbox[c]: messages on their way to c
  view,               \* view[c]: what c shows, [on, doc, seq]
  crashes,            \* ends of the process so far
  versions            \* history: versions[n] is the document after op n

memory  == <<doc, lamport, serverSeq, opsSinceSnapshot, cur>>
disk    == <<row, ops, dbOpen>>
network == <<members, inbox, view>>
vars == <<phase, memory, disk, network, crashes, versions>>

NoRow == [exists |-> FALSE, lamport |-> 0, serverSeq |-> 0, drawables |-> {}]

NoOp == [serverSeq |-> 0]    \* cur outside a turn

SeqOf(m) == IF m.type = "welcome" THEN m.serverSeq ELSE m.op.serverSeq

Init ==
  /\ phase = "absent"
  /\ doc = EmptyDoc /\ lamport = 0 /\ serverSeq = 0 /\ opsSinceSnapshot = 0
  /\ cur = NoOp
  /\ members = {}
  /\ row = NoRow
  /\ ops = <<>>
  /\ dbOpen = TRUE
  /\ inbox = [c \in Clients |-> <<>>]
  /\ view = [c \in Clients |-> [on |-> FALSE, doc |-> EmptyDoc, seq |-> 0]]
  /\ crashes = 0
  /\ versions = [n \in {0} |-> EmptyDoc]

-------------------------------------------------------------------------------
(* getOrCreateRoom, loadSnapshot and hydrate *)

\* INSERT ... ON CONFLICT DO NOTHING
EnsureRoom(r) == [r EXCEPT !.exists = TRUE]

\* POST /rooms: the row of a new room, whose id nobody has been told yet.
PostRoom ==
  /\ phase = "absent" /\ dbOpen /\ ~row.exists
  /\ row' = EnsureRoom(row)
  /\ UNCHANGED <<phase, memory, ops, dbOpen, network, crashes, versions>>

LoadRoom ==
  /\ phase = "absent" /\ dbOpen
  /\ phase' = "replaying"
  /\ row' = EnsureRoom(row)
  /\ doc' = MapById(row'.drawables)
  /\ lamport' = row'.lamport
  /\ serverSeq' = row'.serverSeq
  /\ opsSinceSnapshot' = 0
  /\ UNCHANGED <<cur, ops, dbOpen, network, crashes, versions>>

\* Mutant: one row too few.
PendingSeqs_OffByOne == {s \in DOMAIN ops : s > serverSeq + 1}

\* The rows of ops the snapshot does not cover and hydrate has not replayed.
PendingSeqs == {s \in DOMAIN ops : s > serverSeq}

ReplayOp ==
  /\ phase = "replaying"
  /\ \E s \in PendingSeqs :
       /\ \A t \in PendingSeqs : s <= t      \* ORDER BY server_seq
       /\ doc' = Apply(doc, ops[s])
       /\ lamport' = Larger(lamport, ops[s].lamport)
       /\ serverSeq' = Larger(serverSeq, ops[s].serverSeq)
  /\ UNCHANGED <<phase, opsSinceSnapshot, cur, disk, network, crashes, versions>>

\* Mutant: the tail of the log is not waited for.
RoomReady_NoTail ==
  /\ phase = "replaying"
  /\ phase' = "idle"
  /\ UNCHANGED <<memory, disk, network, crashes, versions>>

RoomReady ==
  /\ phase = "replaying" /\ PendingSeqs = {}
  /\ phase' = "idle"
  /\ UNCHANGED <<memory, disk, network, crashes, versions>>

-------------------------------------------------------------------------------
(* Connections *)

\* A new member: the channel of its connection starts with the welcome m.
Admit(c, m) ==
  /\ c \notin members
  /\ members' = members \cup {c}
  /\ inbox' = [inbox EXCEPT ![c] = <<m>>]
  /\ UNCHANGED <<phase, memory, disk, view, crashes, versions>>

Welcome == [type |-> "welcome", serverSeq |-> serverSeq, drawables |-> Drawables(doc)]

\* Mutants: joining is not a turn of its own, but can fall between insert and
\* broadcast, or into the replay; the welcome is read from the disk.
Join_MidTurn(c) == phase \in {"idle", "settled"} /\ Admit(c, Welcome)
Join_MidReplay(c) == phase \in {"idle", "replaying"} /\ Admit(c, Welcome)
Join_FromDisk(c) ==
  phase = "idle"
  /\ Admit(c, [type |-> "welcome", serverSeq |-> row.serverSeq, drawables |-> row.drawables])

\* addClient and the welcome message: one turn, so that no op of another
\* client can be in neither the snapshot nor the stream.
Join(c) == phase = "idle" /\ Admit(c, Welcome)

\* The socket closes: what was in flight arrives up to some point.
Leave(c) ==
  /\ phase = "idle" /\ c \in members
  /\ members' = members \ {c}
  /\ \E n \in 0 .. Len(inbox[c]) : inbox' = [inbox EXCEPT ![c] = SubSeq(@, 1, n)]
  /\ UNCHANGED <<phase, memory, disk, view, crashes, versions>>

\* The client side, for a client without pending ops of its own: what view v
\* becomes with message m.
Show(v, m) ==
  IF m.type = "welcome"
    THEN [on |-> TRUE, doc |-> MapById(m.drawables), seq |-> m.serverSeq]
    ELSE [v EXCEPT !.doc = Apply(v.doc, m.op), !.seq = m.op.serverSeq]

Deliver(c) ==
  /\ inbox[c] # <<>>
  /\ view' = [view EXCEPT ![c] = Show(@, Head(inbox[c]))]
  /\ inbox' = [inbox EXCEPT ![c] = Tail(@)]
  /\ UNCHANGED <<phase, memory, disk, members, crashes, versions>>

-------------------------------------------------------------------------------
(* submitOp *)

Stamp(op, l, s) == [op EXCEPT !.lamport = l, !.serverSeq = s]

\* Mutant: the stamp takes no notice of the room's own clock.
NextLamport_ClientClock(op) == op.lamport + 1

NextLamport(op) == Larger(lamport, op.lamport) + 1

\* Stamp and apply in memory.  An op the token bucket or the size check
\* refuses changes nothing here.
Submit(c, op) ==
  /\ phase = "idle" /\ c \in members /\ serverSeq < MaxSeq
  /\ phase' = "applied"
  /\ lamport' = NextLamport(op)
  /\ serverSeq' = serverSeq + 1
  /\ cur' = Stamp(op, lamport', serverSeq')
  /\ doc' = Apply(doc, cur')
  /\ UNCHANGED <<opsSinceSnapshot, disk, network, crashes, versions>>

\* INSERT INTO ops.  It throws when the key is taken or the database is
\* closed; nothing catches that, and the process ends: see Crash.
WriteOp ==
  /\ phase = "applied" /\ dbOpen /\ cur.serverSeq \notin DOMAIN ops
  /\ phase' = "persisted"
  /\ ops' = Override(ops, [s \in {cur.serverSeq} |-> cur])
  /\ versions' = Override(versions, [s \in {cur.serverSeq} |-> doc])
  /\ UNCHANGED <<memory, row, dbOpen, network, crashes>>

\* Mutant: the row keeps its old serverSeq.
Snapshot_StaleSeq == [row EXCEPT !.lamport = lamport, !.drawables = Drawables(doc)]

\* UPDATE rooms SET ...
Snapshot ==
  [row EXCEPT !.lamport = lamport, !.serverSeq = serverSeq, !.drawables = Drawables(doc)]

\* Mutant: the count is compared before the op is counted.
SnapshotDue_Late == opsSinceSnapshot >= SnapshotEvery

SnapshotDue == opsSinceSnapshot + 1 >= SnapshotEvery

Settle ==
  /\ phase = "persisted"
  /\ phase' = "settled"
  /\ IF SnapshotDue
       THEN row' = Snapshot /\ opsSinceSnapshot' = 0
       ELSE opsSinceSnapshot' = opsSinceSnapshot + 1 /\ UNCHANGED row
  /\ UNCHANGED <<doc, lamport, serverSeq, cur, ops, dbOpen, network, crashes, versions>>

\* Mutant: the op is sent before it is in the table, and not inserted.
Broadcast_First ==
  /\ phase = "applied"
  /\ phase' = "idle"
  /\ inbox' = [c \in Clients |->
       IF c \in members THEN Append(inbox[c], [type |-> "op", op |-> cur]) ELSE inbox[c]]
  /\ cur' = NoOp
  /\ UNCHANGED <<doc, lamport, serverSeq, opsSinceSnapshot, disk, members, view,
                 crashes, versions>>

\* To every session.  What is not sent because a socket is closing already is what
\* Leave takes off the end of the channel.
Broadcast ==
  /\ phase = "settled"
  /\ phase' = "idle"
  /\ inbox' = [c \in Clients |->
       IF c \in members THEN Append(inbox[c], [type |-> "op", op |-> cur]) ELSE inbox[c]]
  /\ cur' = NoOp
  /\ UNCHANGED <<doc, lamport, serverSeq, opsSinceSnapshot, disk, members, view,
                 crashes, versions>>

-------------------------------------------------------------------------------
(* The end of the process *)

\* SIGTERM: a last snapshot of every loaded room, then the database is closed.
\* The sockets stay open until the process exits.
Shutdown ==
  /\ phase \in {"absent", "idle"} /\ dbOpen /\ crashes < MaxCrashes
  /\ row' = IF phase = "idle" THEN Snapshot ELSE row
  /\ dbOpen' = FALSE
  /\ UNCHANGED <<phase, memory, ops, network, crashes, versions>>

\* The process ends, after Shutdown, by an exception or abruptly, and a new
\* one opens the database: all that is in memory is gone.
Crash ==
  /\ crashes < MaxCrashes
  /\ crashes' = crashes + 1
  /\ phase' = "absent"
  /\ doc' = EmptyDoc /\ lamport' = 0 /\ serverSeq' = 0 /\ opsSinceSnapshot' = 0
  /\ cur' = NoOp
  /\ dbOpen' = TRUE
  /\ members' = {}
  /\ \E n \in [Clients -> 0 .. MaxSeq + 1] :
       /\ \A c \in Clients : n[c] <= Len(inbox[c])
       /\ inbox' = [c \in Clients |-> SubSeq(inbox[c], 1, n[c])]
  /\ UNCHANGED <<row, ops, view, versions>>

Next ==
  \/ PostRoom \/ LoadRoom \/ ReplayOp \/ RoomReady
  \/ \E c \in Clients : Join(c) \/ Leave(c) \/ Deliver(c)
  \/ \E c \in Clients, op \in Ops : Submit(c, op)
  \/ WriteOp \/ Settle \/ Broadcast
  \/ Shutdown \/ Crash

Spec == Init /\ [][Next]_vars

-------------------------------------------------------------------------------
(* Properties *)

Last == Len(ops)

LamportAt(n) == IF n = 0 THEN 0 ELSE ops[n].lamport

\* The types of the variables.  The rows of ops have the keys 1, 2, ..., Last.
TypeOK ==
  /\ phase \in {"absent", "replaying", "idle", "applied", "persisted", "settled"}
  /\ lamport \in Nat /\ serverSeq \in Nat
  /\ opsSinceSnapshot \in 0 .. SnapshotEvery - 1
  /\ members \subseteq Clients
  /\ row \in [exists : BOOLEAN, lamport : Nat, serverSeq : Nat, drawables : {row.drawables}]
  /\ IsSequence(ops)
  /\ DOMAIN versions = 0 .. Last
  /\ dbOpen \in BOOLEAN
  /\ DOMAIN inbox = Clients /\ DOMAIN view = Clients
  /\ \A c \in Clients :
       /\ IsSequence(inbox[c])
       /\ view[c] \in [on : BOOLEAN, doc : {view[c].doc}, seq : Nat]
  /\ crashes \in 0 .. MaxCrashes

\* The table ops is a replayable history: row n holds the op stamped n, its
\* lamport is above those of all rows before it, crashes and restarts in
\* between included, and applied to version n - 1 it gives version n
\* (room.ts:117-130).
LogIsReplayable ==
  /\ versions[0] = EmptyDoc
  /\ \A n \in 0 .. Last : Keyed(versions[n])
  /\ \A n \in 1 .. Last :
       /\ ops[n].serverSeq = n
       /\ ops[n].lamport \in Nat /\ ops[n].lamport > LamportAt(n - 1)
       /\ versions[n] = Apply(versions[n - 1], ops[n])

\* The snapshot row is a version of the document with its own serverSeq and
\* lamport, whichever step of submitOp or shutdown a crash cut off.
RowIsVersion ==
  /\ row.serverSeq \in 0 .. Last
  /\ row.lamport = LamportAt(row.serverSeq)
  /\ row.drawables = Drawables(versions[row.serverSeq])

\* What a room serves is what the disk holds: between turns its document,
\* serverSeq and lamport are the ones of the last row, also in a process that
\* rebuilt them from snapshot and tail (room.ts:42-55, 117-136).
MemoryIsDurable ==
  /\ phase = "replaying" => serverSeq \in 0 .. Last
  /\ phase \in {"idle", "persisted", "settled"} => serverSeq = Last
  /\ phase \in {"replaying", "idle", "persisted", "settled"} =>
       doc = versions[serverSeq] /\ lamport = LamportAt(serverSeq)
  /\ phase \in {"persisted", "settled"} => Last > 0 /\ cur = ops[Last]
  /\ phase = "applied" =>
       /\ serverSeq = Last + 1 /\ cur.serverSeq = serverSeq
       /\ cur.lamport = lamport /\ lamport > LamportAt(Last)
       /\ doc = Apply(versions[Last], cur) /\ Keyed(doc)

\* INSERT INTO ops never meets a taken key (store.ts:49-51, 140-145): a serverSeq
\* handed out by an earlier process is not handed out again.
NoKeyConflict == phase = "applied" => cur.serverSeq \notin DOMAIN ops

\* The last op the server has sent.
Published == IF phase \in {"persisted", "settled"} THEN Last - 1 ELSE Last

\* The op c has received before message i of its channel.
Before(c, i) == IF i = 1 THEN view[c].seq ELSE SeqOf(inbox[c][i - 1])

\* A snapshot is a version, not older than what the viewer had.
WelcomeFits(c, i) ==
  LET m == inbox[c][i] IN
  /\ m.serverSeq \in 0 .. Last /\ m.serverSeq >= Before(c, i)
  /\ m.drawables = Drawables(versions[m.serverSeq])

\* An op is the very next row of the table, for a viewer that has a snapshot.
OpFits(c, i) ==
  LET m == inbox[c][i] IN
  /\ i = 1 => view[c].on
  /\ m.op.serverSeq \in 1 .. Last
  /\ m.op.serverSeq = Before(c, i) + 1
  /\ m.op = ops[m.op.serverSeq]

Fits(c, i) ==
  \/ inbox[c][i].type = "welcome" /\ WelcomeFits(c, i)
  \/ inbox[c][i].type = "op" /\ OpFits(c, i)

\* A channel carries a snapshot of some version, and after it or after what the
\* viewer shows the very next ops of the table, none missing, none twice, none
\* that is not durable (room.ts:126-140, index.ts:197-215).
ChannelsAreGapless ==
  \A c \in Clients : \A i \in 1 .. Len(inbox[c]) : Fits(c, i)

\* The channel of a member reaches up to the last op sent: joining and sending are
\* turns, so an op is in the snapshot or in the stream, never in neither.
MembersAreServed ==
  \A c \in members :
    /\ Before(c, Len(inbox[c]) + 1) = Published
    /\ inbox[c] = <<>> => view[c].on

\* Every viewer shows a version the disk holds, whenever it last heard from the
\* server: no crash takes back an op that somebody has seen (the comment at
\* room.ts:126-129).
ViewsAreDurable ==
  \A c \in Clients :
    /\ view[c].seq \in 0 .. Last
    /\ view[c].doc = versions[view[c].seq]

\* A viewer that has received everything shows the document of the room.
CaughtUp ==
  \A c \in members : phase = "idle" /\ inbox[c] = <<>> => view[c].on /\ view[c].doc = doc

IInv ==
  /\ TypeOK /\ LogIsReplayable /\ RowIsVersion /\ MemoryIsDurable
  /\ ChannelsAreGapless /\ MembersAreServed /\ ViewsAreDurable

\* The room implements the abstract durable log: crashes, snapshots, replays and
\* reconnections are invisible steps of it, an op enters it when its row is
\* inserted, and no viewer ever goes back.
Durable == INSTANCE DurableLog WITH log <- ops, seen <- [c \in Clients |-> view[c].seq]
DurableSpec == Durable!Spec

\* "Op count between state snapshots" (README.md:60) bounds the tail a restart has to
\* replay as long as one process lasts.  hydrate starts to count from zero again
\* (room.ts:42-55): behind the snapshot there are the ops this process has counted, the
\* one in hand, and whatever its predecessors left, SnapshotEvery each at the most.
TailBoundedByCrashes ==
  Last - row.serverSeq <=
    crashes * SnapshotEvery + opsSinceSnapshot + (IF phase = "persisted" THEN 1 ELSE 0)

===============================================================================
