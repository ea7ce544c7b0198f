# CanvasLive in TLA+

A verification development for CanvasLive, a multiplayer whiteboard: a Node server that orders, stores and
broadcasts operations (`server/`), browser tabs that edit optimistically and rebase (`client/`), and the
operational-transform engine both share (`shared/src/ot.ts`). Paths below are relative to the repository.

## 1. Inventory

| part | state | operations | talks to |
|---|---|---|---|
| OT engine, `shared/src/ot.ts` | none (pure) | apply, applyInPlace, applyAll, transform, compose | called by Room and OTClient |
| Room, `server/src/room.ts` | `state`, `lamport`, `serverSeq`, `opsSinceSnapshot`, `clients` | hydrate, addClient, removeClient, submitOp, relayCursor, shutdown | Store (synchronous calls), sockets (send) |
| Store, `server/src/store.ts` | tables `rooms` (one snapshot row per room) and `ops` | ensureRoom, loadSnapshot, writeOp, writeSnapshot, close | SQLite |
| connection, `server/src/index.ts` | per socket: `joined`, `userId`, `room`, `alive` | message, ping timer, pong, close, error | Auth (awaited), Room |
| OTClient, `client/src/lib/otClient.ts` | `serverState`, `pending`, `local`, `lamport`, `clientSeq` | localOp, onWelcome, onServerOp | called by useRoom |
| useRoom, `client/src/lib/useRoom.ts` | socket, OTClient, peers, cursors | open, message, close, submit, sendCursor | WebSocket |
| TokenBucket, `server/src/rateLimit.ts` | tokens, last | tryConsume | wall clock |
| App, `client/src/App.tsx` | tool, `activeDraw`, `panActive` | pointer and key events | useRoom (addShape, patchShape, appendStrokePoint) |
| Auth, `server/src/auth.ts` | none (tokens are signed) | verify, authorizeRoom, issueAnonymous | awaited by the hello handler |
| HTTP, config, ids, rendering | input, output and layout | `POST /rooms` | Store (ensureRoom) |

How they interact: a page opens a socket and sends `hello`; the server, after awaiting the verification of a
token if there is one, puts a session into `Room.clients`, tells the others, and answers with `welcome`, which
carries a snapshot. From then on the page sends ops it has already applied to its own screen. `submitOp` stamps
each one with the next `serverSeq` and a larger `lamport`, applies it, inserts it into SQLite, sometimes rewrites
the snapshot, and sends it to every session, the author's included; the author recognises its echo and drops the
op from `pending`, everybody else transforms it against what they have pending.

What is hard here:
- **Crashes.** One turn of `submitOp` touches memory, two tables and the network; the process may end between any
  two of them. A restart rebuilds the room from the snapshot and the tail of `ops`, and an append applied twice is
  visible. *Correct:* nothing anyone has seen is taken back, no `serverSeq` is reused, a restarted room is the one
  that crashed.
- **Joining.** The snapshot in `welcome` and the stream of ops must fit without hole or overlap.
- **Optimistic editing.** Local ops, echoes and remote ops interleave freely; the rebase is right only if it
  agrees with the order the server chooses later. *Correct:* when nothing is in flight every tab shows the server's
  document, and this is eventually so.
- **The OT laws** for all pairs of op types, with equal stamps and appends.
- **Awaiting in a handler.** The hello handler awaits; messages, the close event and a second hello can come in
  between.
- **The wall clock.** The bucket lives on `Date.now`, which jumps. *Correct:* no window lets more through than a full
  bucket and the refill, and who keeps to the rate is served.
- **Pointers.** Several of them share `activeDraw`, the tool may change in mid-drag, and not every lift is announced.
- **Silent failures.** A dead network is found only by the heartbeat.
- **Refusals.** A refused op is not rolled back by its author.

`PROJECT.json` lists these hazards line by line with the properties that speak about them.

## 2. Modules

| module | models | abstraction |
|---|---|---|
| `OT` | `shared/src/ot.ts` | a drawable is its id, its two stamps and a function of other fields; a patch value is a set or an append |
| `OTLaws` | two replicas that receive two ops in opposite orders (TP1), or singly and composed | the ops a client can make: an add carries a drawable of its own id with the fields of its kind, a patch names a field, appends go to list fields |
| `OT_proofs` | lemmas about `OT`: what apply, transform and compose return, `SnapshotRoundTrip` | |
| `OTLaws_proofs` | the theorems about `OTLaws` | |
| `DurableLog` | abstract specification: one growing log, every viewer sees a growing prefix | |
| `Room` | `room.ts` on `store.ts`, with viewers, crashes, shutdowns, restarts | extends `OT`; a viewer only shows |
| `Room_proofs` | the theorems about `Room` | |
| `OTClient` | `otClient.ts` as operators on a record | extends `OT` |
| `OTClient_proofs` | lemmas about `OTClient`: the folds, and what the rebase keeps true | |
| `CanvasLive` | tabs (useRoom and OTClient) and one room, over FIFO channels | extends `OTClient`; the handshake is one step, the disk is in `Room` |
| `CanvasLive_proofs` | the theorems about `CanvasLive` | |
| `SharedBoard` | abstract specification: one line of documents, drafts, and what each screen may show | extends `OTClient` for `Apply` only |
| `Presence` | connections: handshakes with their awaits, tokens, presence, cursors, close, heartbeat | documents left out |
| `Presence_proofs` | the theorems about `Presence` | |
| `Admission` | the token bucket and validateOpSize, as submitOp calls them, and the hellos that make buckets | extends `OT`; a drawable is its kind and the form and size of the members whose size is checked |
| `Admission_proofs` | the theorems about `Admission` | |
| `Whiteboard` | `App.tsx` on useRoom: pointers, tools, drawing, panning | a shape is its kind, its fields and how often it was changed |
| `Whiteboard_proofs` | the theorems about `Whiteboard` | |
| `MCOTLaws`, `MCRoom`, `MCCanvasLive`, `MCPresence`, `MCAdmission` | values of the constants for TLC | |

**Room.** A turn of Node's event loop is not interrupted by another turn, but a crash can cut it. `submitOp` is
therefore split where it touches the disk or the network, and every other handler waits for the phase `idle`:
`idle` -Submit-> `applied` -WriteOp-> `persisted` -Settle-> `settled` -Broadcast-> `idle`. `getOrCreateRoom` with
`hydrate` is `absent` -LoadRoom-> `replaying` -ReplayOp...-> -RoomReady-> `idle`. `Join` and `Leave` are the turns of
hello and close, `Shutdown` the SIGTERM handler, `Crash` any end of the process: memory and sessions are gone, what
was in flight arrives up to some point, committed rows stay (this is what SQLite in WAL mode guarantees when the
*process* ends; with `synchronous = NORMAL` a *power failure* may undo the last commits, which is not modelled).
`PostRoom` is `POST /rooms`, which makes the row before anybody knows the room. An insert that throws, because the key is taken or the database is closed, is a Crash in phase `applied`: nothing
catches the rejection of the async handler. JSON and gzip are modelled by what reading back gives: the bare list of
drawables, which the reader re-keys by id. `versions` is a history variable.

**CanvasLive.** `Edit` is `submit`: stamp, push to pending, send if the socket is open. `ServerOp` is the turn of an
op message, `ServerReject` the two early returns of `submitOp`, whatever their reason. `Receive` is `handle`. A tab is
*one page load with its one socket*: `Open` is its welcome, and a page that is loaded again is another tab. `Close` ends
the socket: what was on its way down is gone, of what was on its way up the server still gets some prefix, and handles
it whenever it comes, also after the welcome of the page that was loaded instead (two sockets are not ordered with
each other). The page stays as it is, since useRoom does not reconnect.
`versions`, `seen`, `unacked`, `done` and `ghost` are history variables. A tab adds a fresh id, removes what it sees,
sets one or more fields at once (App sends `{x, y, w, h}` and the like) or appends to a list field, of what it sees or of
the shape it is drawing, which somebody else may have removed: the calls useRoom offers and App makes.

A restart of the server is, for the tabs, a `Close` of all of them: `Room` proves that the room comes back as it was.

**SharedBoard.** `CanvasLive!Board` maps the room's history to the line of documents, `unacked` to the drafts and
`Local` to the screens. An edit is on the screen at once; a document is made from the one before by one drafted op,
each at most once and in its author's order, and also after its author's page has closed; a tab follows one document
at a time and never goes back; with an empty draft it shows the document, and otherwise a mixture of the document and the document with
the draft on top (the rebase may show a remote value until the own echo comes). One exception is named:
`RemovedTwice`, a shape that two tabs remove at the same time and that comes back on the screen until the echo.
A tab of which the server refused an op is promised nothing; the page loaded after it is another tab.

**Presence.** `OnHello`, `OnVerified` and `Enter` are the three parts of the hello handler around its two awaits, of
`auth.verify` and of `getOrCreateRoom`. `pending[c]` holds the hellos at either of them (`stage`), of which a client may
send several. `userId[c]` is the closure's variable of that name: all hellos of a connection share it, `OnHello` (without
a token) and `OnVerified` (with one) write it, and `Enter` reads it an await later, whoever wrote it last; `session[c]` is
what `Room.clients` then holds. Without a token only the promise of `getOrCreateRoom` is awaited, which is settled
already: the handler goes on before any other event (`Turn`, `Idle`), but after the other frames of the same read, since
ws emits those in one go, and after another verification that settles in the same turn. `OnMessage` is every other frame, the
unacceptable ones included; a token may be good, good for other rooms, or bad. `ready` is the server's view of the
socket (safeSend looks at it), `link` is the truth. `requireAuth` is chosen at start. `WillShow` says what a page will
show when its channel is drained. Two exceptions are named in the properties: `replaced`, the user of a session that
a second hello overwrote, stays on the lists; `Shared`, a user with several tabs, has one entry for all of them.

**Admission.** Tokens are thousandths, time is milliseconds, so that the refill is exact. (The code computes in
floating point: `elapsed / 1000 * ratePerSec` rounds, by less than one part in 10^15.) `Forward` and `Back` are the
clock, `Submit` is the beginning of `submitOp`: the bucket first, then the sizes. `Hello` and `Join` are the hello handler
up to its awaits and after them: `joined` is set at the end only, so each of several hellos makes a new, full bucket that
takes the place of the one before. For the sizes, `Asked` says of which members validateOpSize asks, and `Measured` of
which forms of value it takes the length: an op may name another kind, set a string where a list was, or append to
what is a text. `hellos`, `buckets`, `passed`, `gained`, `lost`, `sentAt`, `paced`, `refused`, `grown` and `loose` are
history variables, and `OpenWindow` starts a window at any moment. The exceptions named in the properties are `buckets`
(one more burst for each hello that waited with another) and `loose` (members whose size nothing asked for).

**Whiteboard.** One action per event of a pointer: `PressToPan`, `PressToDraw`, `PressForNothing`, `Move`, `Lift`, and
`Cancel` for the pointercancel that has no handler; `SetTool` for the keys and the toolbar; `Open`, `Welcome` and `Close`
for the socket, as far as `submit` asks about it. `Hovering` pointers move unpressed. The server's answers are in
`CanvasLive`. Two exceptions are named in the properties: `switched`, the shapes during whose drawing the tool
changed, and `unseen`, that some pointer went up without pointerup.

Definitions called `X_Something` with the comment "Mutant" are deliberately wrong variants of `X`; nothing uses them.
Replacing `X` by its mutant makes the property listed with it in `PROJECT.json` fail, which is how we know that the
property can fail.

## 3. Runs

Passing runs:

| run | bounds | what it shows |
|---|---|---|
| `ot_laws` | 2 clients, all op types, patches over two scalar fields and a list, some of which append nothing or set what is there, equal and different lamports, target present or absent | transform: the two orders differ exactly in three named clashes; remove wins; field-wise merge; compose differs from the two ops for exactly two named pairs |
| `room` | 2 interchangeable viewers, an add and an append, snapshot every 2, 3 ops, 2 ends of the process | all invariants of `Room`, and that it implements `DurableLog` |
| `editing` | 2 tabs, 2 and 1 ops, patches of one and of two fields | rebase soundness, acknowledgement, convergence, and that `CanvasLive` implements `SharedBoard` |
| `reload` | 3 page loads, 1 op each but the third, which only watches; 1 refused op | gapless streams, convergence, `SharedBoard` and, under fairness, `Settles` with ops of closed pages that come late; a refusal harms only the refused page |
| `admission` | 1 connection that greets up to twice, a bucket of 1 token, which takes 2 ms, a clock of 4 ms that goes back once; 12 ops on 1 drawable, small and too large, of two kinds and all forms of value | the rate bound, the bounded debt, service of paced senders, the size limits and the ways around them |
| `presence` | 3 connections: a page that sends a cursor, and two clients of one user, one with 2 hellos and 3 sorts of token; with and without requireAuth | lists of peers and cursors follow the room; nobody is in it without a good token |
| `leaving` | 2 connections, one on a network that stalls and fails | whoever leaves or falls silent is removed |
| `whiteboard` | a mouse and a finger, 3 tools, 2 shapes, 1 patch each | what is drawn is held, finished shapes stay, shapes keep their fields, patches follow adds |

Why the bounds suffice for the interesting cases: three ops with a snapshot every two give a snapshot, a non-empty
tail behind it and an empty one; two ends of the process give a crash during the recovery from a crash; an append
shows any op that is lost or repeated. An end of the process leaves up to two ops behind the snapshot, and the third
op is then one more than the interval: that the tail grows so far after a crash, and no further, is within the bounds
(a count that is compared too late breaks `TailBoundedByCrashes` only after a crash). What a second crash may add is
not, with three ops; `TailBound` proves it for any number of crashes. Two pending ops in one tab against one remote op is the smallest case in
which the *walk* of the rebase matters (the second pending op meets a remote op already moved past the first). In
`presence` the page watches the other two join and leave in all orders, and two hellos are verified in either order.
A clock of four milliseconds, two tokens' worth, lets a bucket run empty and fill up again, by whole tokens and by
halves, before and after the clock went back, and the second hello's bucket come at any of these moments. A bucket of
one token is the one with no slack: whoever loses a fraction of a token is refused at once. In `reload` the page
that watches is loaded before, between or after the ops of the pages that close. Two shapes are enough for one to be
finished, or forgotten, while another is drawn; pen and line are two tools whose patches differ, text is the one with a prompt.

Runs that refute what the repository says (each is a finding in `PROJECT.json`):

| run | claim | what happens |
|---|---|---|
| `refused_op` | `ARCHITECTURE.md:5-8`: all clients converge | a refused op stays on its author's screen |
| `shared_token` | `ARCHITECTURE.md:208`: pending is what is not acknowledged | two pages with one userId, open together or one after the other, acknowledge each other's ops |
| `ghost_session` | `convergence.spec.ts:102-118`: a peer that disconnects disappears | a socket that closes during `verify` is added afterwards and never removed |
| `hello_first` | `index.ts:163-166`: "hello required first" | said to a page whose cursor message came right behind its hello, without a token even |

Other disagreements with the documentation show as exceptions in properties that hold, and are findings too: the
clashes of TP1 and of compose (`TP1ExceptClashes`, `ComposeExceptLossy`), the tail behind a snapshot after restarts
(`TailBoundedByCrashes`), several buckets for one connection (`RateBound`), sizes that nothing asks for
(`SizesAreLimited`), the shape that comes back (`SharedBoard!RemovedTwice`),
tool switches and unseen lifts (`Whiteboard`), several tabs of one user (`Presence!Shared`).

**Fairness.** `CanvasLive!FairSpec` has weak fairness on `Receive` and `ServerOp`: TCP delivers what a live connection
carries, and both event loops run what has arrived. Nobody is obliged to edit, open, close or refuse. `Settles` holds
because the users' ops are bounded: it says that *once the users stop*, the tabs agree for good, but for one that was
refused an op. `Presence!FairSpec`
has weak fairness on the handlers, the close event and the timer: a `setInterval` keeps firing until it is cleared.
`Room`, `Admission` and `Whiteboard` claim no liveness. Deadlock is checked in these three; the other systems stop when the users' bounds are used up
or the ops are applied, so they say `CHECK_DEADLOCK FALSE`.

## 4. Proofs

`Room_proofs` proves, for every set of clients and ops, every `SnapshotEvery`, `MaxSeq` and `MaxCrashes`:

- `Invariance`: `Spec => []IInv`, the conjunction of type correctness, `LogIsReplayable`, `RowIsVersion`, `MemoryIsDurable`,
  `ChannelsAreGapless`, `MembersAreServed` and `ViewsAreDurable`. None of them is inductive alone. That viewers stay on
  durable versions needs that what is in their channels is the next row of the table (`ChannelsAreGapless`); that an op
  sent now is the next one for every member needs that the channel reaches exactly the last op sent
  (`MembersAreServed`); that an op about to be inserted has the next free key needs that memory is at the end of the
  log (`MemoryIsDurable`), and after a restart this follows from the snapshot being a version (`RowIsVersion`) and the
  log being replayable from it. There is one lemma per action, and `...Stable` lemmas for what an action leaves alone.
- from it each safety property as a theorem: `LogReplay`, `SnapshotIsVersion`, `MemoryDurability`, `ViewDurability`,
  `GaplessChannels`, `ServedMembers`, `KeysAreFresh`, `Convergence`.
- `Refinement`: `Spec => DurableSpec`. The log is the table `ops`, a viewer's prefix is `view[c].seq`; `WriteOp` is the only
  step that extends the log, `Deliver` the only one that advances a viewer, all others stutter.
- `TailBound`: behind the snapshot lie the ops that the current process has counted and at most `SnapshotEvery` ops of
  each process before it. This is what holds instead of the README's "op count between state snapshots".
- `SnapshotRoundTrip` (in `OT_proofs`) and `ApplyKeepsKeys`: a document written as a bare list and re-keyed by id is the same document,
  provided it is keyed by the ids of its drawables, which `Apply` preserves for well-formed ops.

Assumptions: `BoundsAssumption`, and `OpsAssumption`: ops have a type, a natural lamport, and an add carries a drawable of
its own id, which is what `useRoom.addShape` sends. TLC evaluates both in the run `room`.

`Admission_proofs` proves, for every rate, capacity, limit and movement of the clock: `RateIsBounded`, `DebtBound`,
`PacedService`, `SizeLimits`, `TypeCorrect`. Its invariant adds four parts to the properties. `WindowInv` relates what
passed and what the clock gained in a window to the tokens that are there now (refilled tokens and passed ops
together never exceed the gain and the capacity of the buckets there were); `HelloInv` says that no connection has
more buckets than hellos; `PaceInv` says that a bucket is full until its
first op, was last refilled at the last op, is ahead of the clock by no more than the clock went back, and is never
negative while it has not; `FreshInv` says what holds of a connection before it has
joined. From `RateAssumption`, `SizeAssumption`, `OpsAssumption` (what JSON may say: any member of any form, an append is
a list and only in a patch) and `BoundAssumption`, which the run `admission` evaluates.

`Whiteboard_proofs` proves, for any pointers, any choice of tools and any number of shapes and patches: `ShapesKeepKind`,
`DrawingIsHeld`, `PatchesComeAfter`, `FinishedForGood` and `TypeCorrect`. What makes the properties inductive: what is
active was drawn after the welcome, is on the board, not finished and known to the server (`ActiveInv`), for which
`SocketInv` says that a page which knows its user never waits for a welcome again; its kind is the tool's until the tool
is switched (`ToolInv`); and the next shape's number is new (`Numbered`), or a new press could revive a finished
shape. `FinishedForGood` follows because a move touches nothing but the active shape (`MoveFacts`) and a press nothing
that is on the board (`DrawFacts`). From `ToolAssumption`, which the run `whiteboard` evaluates.

`OTLaws_proofs` proves the algebra of `ot.ts` for every document, any number of clients and any ops they can make:
`ConvergesExceptClashes`, `RemovedForGood`, `MergesFieldwise`, `ComposeKeepsEffect`. Two of them are equivalences: the
two orders of delivery (the two ways of sending a batch) differ in the named clashes *and in no other case*, so nothing
can be added to the list of clashes or struck from it. The state machine only carries the ops to the replicas (`IInv`:
how far each is); the rest is one lemma per pair of op types about `Both(s, x, y)`, the document after x and then y
transformed: `BothApart`, `RemovedInBoth`, `AddsTogether`, `AddAndPatch`, `PatchesTogether`, and for compose
`ComposeAddPatch`, `ComposePatches`, `ComposeRemoves`. `BothElsewhere` shows that the other drawables are untouched, so
each compares one drawable, and the patches compare one field of it (`FieldInBothOrders`, `FieldInOnePatch`), where
appends are concatenations that associate and cancel. `OpsAssumption` and `BasesAssumption` say which ops and documents
there are: an add carries a drawable of its own id, with all fields of its kind and a stamp from before the op; a patch
names at least one field; only list fields are appended to, and they hold lists. This is what `useRoom` sends; the
server does not check all of it. Without it the equivalences fail: an add with fewer fields than the drawable that is
there merges into it, and an append to what is no list forgets it.

`CanvasLive_proofs` proves, for any tabs, page loads, edits and refusals:

- for whatever users the tabs have: `Invariance`, `TypeCorrect`, `StreamGapless`, `LamportCoversSeen`. `IInv` is `BoardInv`, of the
  server (every document is well-formed and no drawable is younger than the clock), and four parts for each tab:
  `ClientInv` gives the client its shape, `UpInv` says that what is on its way to the server are edits of this page
  in the order of their numbers, whether it is still there or not, `DownInv` that what is on its way back is a welcome at the most and then exactly
  the ops after it, and `IdInv` that the ids a tab makes next are unknown to the server. The last is needed because an
  add of an id that exists merges instead of creating.
- when no two tabs have the same user: `OwnInvariance`, and from it `PendingFollows`, `RebasingIsSound`, `TabsConverge`.
  `OwnInv` adds `TabInv`, for the tabs that had no op refused: the unanswered edits U are those whose echoes are on their
  way and those on the way up (`InFlight`); pending is derived from U op by op (`AreDerived`); and the client's server state
  agrees with the server's document up to what U overwrites (`Agree`). Agreement is the point of the proof: the rebase
  may leave in `serverState` a value that a pending op hides, so equality is not invariant, and the own echo must find
  the difference covered. That it is kept by an echo, by a foreign op and by another edit are the lemmas
  `DraftAnswered`, `DraftRebased` and `DraftWithMore`.

  The hypothesis on the users is necessary: two tabs of one user take each other's echoes for their own, which the run
  `shared_token` shows. It is stated in each theorem, not assumed of the constants.

`OTClient_proofs` has the induction behind it. `ApplyAll` and `Rebase` are folds over sequences; a fold is unrolled into a
function on `0 .. Len(s)` (`ApplyAllTrace`, `RebaseTrace`, `AfterTrace`) and facts are carried along it with
`Induction`, for sets of naturals, which follows from the existence of a least number. From `UserAssumption`, `BoundAssumption`,
`BoardAssumption`, `FieldAssumption` and `ShapeAssumption`, which the runs of `CanvasLive` evaluate: the initial document is well-formed and no younger than
its clock, a new shape has its own id and the stamp 0, a list field is appended to and never set, a patch that sets
fields sets at least one, and the ids of nanoid (`IdsOf`) are new.

`Presence_proofs` proves, for any number of connections, users, tokens and hellos: `PeersFollow`, `CursorsFollow`,
`AuthorizedOnly`, `TypeCorrect`. What a page shows now says little, since messages are on their way; `FollowInv` is about
what it shows when it has read them all (`Shown`), and `CursorInv` about what it shows at each of them, because a cursor
needs its peer at the moment it is read. `DoorInv` says what the handshake leaves behind (a member has joined, who is not
a member gets nothing) and `HelloInv` counts hellos on the wire, at the awaits and said: no more of them wait
than were sent. `OnlyAuthorized` speaks of sessions, but `Enter` takes its user from a variable that any hello of the
connection may have written: `IdentInv` therefore says of `userId` itself, at every moment, that where authentication is
required a good token of this connection names it, and that it is set when a hello is at its second await. That is
kept because `OnVerified` writes it after `authorizeRoom` and not before. From `ConfigAssumption`, which the run `presence` evaluates.

Only model-checked: the liveness properties (`Settles` and `LeaversAreRemoved`; beyond the prover), and that `CanvasLive`
implements `SharedBoard`.

## 5. Not modelled

- Token signing (the jose library), `/healthz`, `/auth/anonymous`, CORS headers, configuration, id generation, rendering
  and the viewport's arithmetic: no state of the shared document and no order of events.
- The effect of useRoom running again because its options change: App never changes them while it is mounted.
- The 33 ms throttle of `sendCursor`: it drops messages without sending the last one later, so it promises nothing.
- Power failure: with `synchronous = NORMAL` SQLite may lose the last commits, which is an assumption of `Room`.
- Several rooms in one process: they share nothing but the database handle. Rooms are never evicted, and the table
  ops is never pruned; there is no bound to state.
- `transformAll` and the benchmarks: not part of the running system.

## 6. Plan

Done: `OT`, `OTLaws`, `DurableLog`, `Room`, `OTClient`, `CanvasLive`, `SharedBoard`, `Presence`, `Admission`,
`Whiteboard`, and the theorems about each of them.

Next: the refinement of `SharedBoard` by `CanvasLive`, step by step.
