---------------------------- MODULE CanvasLive_proofs ----------------------------
(***************************************************************************)
(* Proofs about CanvasLive: for any number of page loads, edits and        *)
(* refusals, the stream of a tab has no hole, clocks cover what they have  *)
(* seen, and, as long as no two tabs are of one user, pending is what the  *)
(* server has not answered, rebasing is sound and quiet tabs converge.     *)
(***************************************************************************)
EXTENDS CanvasLive, OTClient_proofs

-------------------------------------------------------------------------------
(* The inductive invariant.  The first part holds whatever the users are: the documents  *)
(* and clocks, what each client holds, what is in its channels and which ids are new.    *)

\* Every id that a drawable has had up to serverSeq n.
Past(n) == UNION {DOMAIN versions[m] : m \in 0 .. n}

BoardInv ==
  /\ serverSeq \in Nat /\ lamport \in Nat /\ live \subseteq Tabs /\ opened \subseteq Tabs
  /\ rejects \in 0 .. MaxRejects
  /\ DOMAIN versions = 0 .. serverSeq /\ doc = versions[serverSeq]
  /\ \A n \in 0 .. serverSeq : IsDoc(versions[n]) /\ NotAfter(versions[n], lamport)
  /\ DOMAIN up = Tabs /\ DOMAIN down = Tabs /\ DOMAIN ot = Tabs
  /\ DOMAIN seen = Tabs /\ DOMAIN unacked = Tabs /\ DOMAIN ghost = Tabs

\* The client of user u as it is when it can have made "edits" ops.
IsClient(c, u, edits) ==
  /\ c = [userId |-> u, serverState |-> c.serverState, pending |-> c.pending,
          lamport |-> c.lamport, clientSeq |-> c.clientSeq]
  /\ c.clientSeq \in 0 .. edits /\ c.lamport \in Nat
  /\ IsDoc(c.serverState) /\ NotAfter(c.serverState, c.lamport)
  /\ IsSequence(c.pending)
  /\ \A k \in 1 .. Len(c.pending) :
       /\ IsForm(c.pending[k], ListFields) /\ c.pending[k].lamport <= c.lamport
       /\ c.pending[k].clientSeq \in 1 .. c.clientSeq

ClientInv(t) ==
  /\ seen[t] \in 0 .. serverSeq
  /\ t \in live => t \in opened
  /\ Loaded(t) => t \in opened /\ IsClient(ot[t], UserOf[t], MaxEdits[t])

\* An op on its way to the server: made by t.
IsOwnEdit(op, t) ==
  /\ IsEdit(op, ListFields) /\ op.clientId = UserOf[t]
  /\ op.type = "add" => op.shape.updatedAt = 0 /\ op.id = <<t, op.clientSeq>>

UpInv(t) ==
  /\ IsSequence(up[t])
  /\ up[t] # <<>> => Loaded(t)
  /\ \A k \in 1 .. Len(up[t]) :
       IsOwnEdit(up[t][k], t) /\ up[t][k].clientSeq \in 1 .. ot[t].clientSeq
  /\ \A j, k \in 1 .. Len(up[t]) : j < k => up[t][j].clientSeq < up[t][k].clientSeq

\* The messages that come n-th in a tab's stream.
IsWelcome(m, n) ==
  /\ n \in 0 .. serverSeq /\ m.type = "welcome" /\ m.serverSeq = n
  /\ m.drawables = Drawables(versions[n]) /\ m.lamport \in Nat /\ NotAfter(versions[n], m.lamport)

IsUpdate(m, n) ==
  /\ n \in 1 .. serverSeq /\ m.type = "op" /\ m.from \in Tabs /\ m.op.serverSeq = n
  /\ IsEdit(m.op, ListFields) /\ m.op.clientId = UserOf[m.from]
  /\ m.op.type = "add" =>
       m.op.shape.updatedAt = 0 /\ m.op.id \in IdsOf(m.from) /\ m.op.id \notin Past(n - 1)
  /\ versions[n] = Apply(versions[n - 1], m.op)

DownInv(t) ==
  /\ IsSequence(down[t]) /\ (t \notin live => down[t] = <<>>)
  /\ t \in live /\ ~Loaded(t) => down[t] # <<>> /\ seen[t] = serverSeq - Len(down[t]) + 1
  /\ t \in live /\ Loaded(t) => seen[t] = serverSeq - Len(down[t])
  /\ \A j \in 1 .. Len(down[t]) :
       IF j = 1 /\ ~Loaded(t) THEN IsWelcome(down[t][j], serverSeq - Len(down[t]) + j)
                              ELSE IsUpdate(down[t][j], serverSeq - Len(down[t]) + j)

\* What t can name, and which ids the server cannot know yet.
IdInv(t) ==
  /\ Loaded(t) =>
       /\ DOMAIN ot[t].serverState \subseteq Past(seen[t])
       /\ \A k \in 1 .. Len(ot[t].pending) :
            ot[t].pending[k].type # "noop" => ot[t].pending[k].id \in Past(seen[t]) \cup IdsOf(t)
  /\ \A c \in 1 .. MaxEdits[t] :
       <<t, c>> \in Past(serverSeq) =>
         /\ Loaded(t) /\ c <= ot[t].clientSeq
         /\ \A k \in 1 .. Len(up[t]) : c < up[t][k].clientSeq

Part(t) == ClientInv(t) /\ UpInv(t) /\ DownInv(t) /\ IdInv(t)

IInv == BoardInv /\ \A t \in Tabs : Part(t)

-------------------------------------------------------------------------------
(* The second part is about a tab that has not had an op refused, when the echoes it     *)
(* takes for its own are its own.  U are its edits in flight, oldest first: those whose  *)
(* echoes are on their way in d, then those on their way to the server in u.             *)

EchoesIn(d, t) == {j \in 1 .. Len(d) : d[j].type = "op" /\ d[j].from = t}

InFlight(U, u, d, t) ==
  LET answered == Len(U) - Len(u)
      echoes   == EchoesIn(d, t)
  IN  /\ answered >= 0
      /\ \A k \in 1 .. Len(u) : u[k] = U[answered + k]
      /\ \A j \in echoes : \E k \in 1 .. answered :
           SameEdit(d[j].op, U[k]) /\ d[j].op.clientSeq = U[k].clientSeq
      /\ \A i, j \in echoes : i < j => d[i].op.clientSeq < d[j].op.clientSeq
      /\ \A k \in 1 .. answered : \E j \in echoes : d[j].op.clientSeq = U[k].clientSeq

\* U are the last ops of the client whose latest has number n, and all they name is in
\* "names".
AreLatest(U, n) == \A k \in 1 .. Len(U) : U[k].clientSeq = n - Len(U) + k
AreAbout(U, names) == \A k \in 1 .. Len(U) : U[k].id \in names

\* What client c holds of its edits U, where the server had the document v.
IsDraft(U, c, v, names) ==
  /\ IsBacklog(U, ListFields) /\ AreLatest(U, c.clientSeq) /\ AreAbout(U, names)
  /\ AreDerived(c.pending, U) /\ Agree(c.serverState, v, U)

TabInv(t) ==
  /\ Loaded(t) /\ ~ghost[t] =>
       /\ IsDraft(unacked[t], ot[t], versions[seen[t]], Past(seen[t]) \cup IdsOf(t))
       /\ t \in live => InFlight(unacked[t], up[t], down[t], t)
  /\ ~Loaded(t) => unacked[t] = <<>> /\ EchoesIn(down[t], t) = {}

OwnInv == IInv /\ \A t \in Tabs : TabInv(t)

-------------------------------------------------------------------------------
(* What the clauses give *)

LEMMA IsLoaded ==
  ASSUME NEW t \in Tabs, NEW c, c.userId = UserOf[t]
  PROVE  c # NoOT
BY UserAssumption DEF NoOT

\* An edit with the stamps of the client, and with those of the server.
Stamps == {"clientId", "clientSeq", "lamport", "serverSeq"}

Keeps(op, edit) == \A f \in DOMAIN edit \ Stamps : op[f] = edit[f]

LEMMA ClientStamps ==
  ASSUME NEW c, NEW edit
  PROVE  LET op == Stamped(c, edit) IN
         /\ DOMAIN op = DOMAIN edit \cup Stamps /\ Keeps(op, edit)
         /\ op.clientId = c.userId /\ op.clientSeq = c.clientSeq + 1 /\ op.lamport = c.lamport + 1
BY DEF Stamped, Override, Keeps, Stamps

LEMMA ServerStamps ==
  ASSUME NEW u, NEW t, IsOwnEdit(u, t), NEW time \in Nat, NEW n
  PROVE  LET op == Override(u, [lamport |-> time, serverSeq |-> n]) IN
         /\ IsEdit(op, ListFields) /\ op.lamport = time /\ op.serverSeq = n
         /\ op.type = u.type /\ op.id = u.id /\ op.clientId = u.clientId /\ op.clientSeq = u.clientSeq
         /\ u.type = "add" => op.shape = u.shape
         /\ u.type = "patch" => op.patch = u.patch
<1> DEFINE op == Override(u, [lamport |-> time, serverSeq |-> n])
<1>1. /\ DOMAIN op = DOMAIN u \cup {"lamport", "serverSeq"} /\ op.lamport = time /\ op.serverSeq = n
      /\ \A f \in DOMAIN u \ {"lamport", "serverSeq"} : op[f] = u[f]
  BY DEF Override
<1>2. /\ {"type", "id", "clientId", "clientSeq", "lamport"} \subseteq DOMAIN u
      /\ u.type = "add" => "shape" \in DOMAIN u
      /\ u.type = "patch" => "patch" \in DOMAIN u
  BY DEF IsOwnEdit, IsEdit
<1> HIDE DEF op
<1>3. /\ op.type = u.type /\ op.id = u.id /\ op.clientId = u.clientId /\ op.clientSeq = u.clientSeq
      /\ u.type = "add" => op.shape = u.shape
      /\ u.type = "patch" => op.patch = u.patch
  BY <1>1, <1>2
<1>4. IsEdit(op, ListFields)
  BY <1>1, <1>2, <1>3 DEF IsOwnEdit, IsEdit
<1> QED BY <1>1, <1>3, <1>4 DEF op

\* The ids that exist at seen[t] are those that existed before and those after.
LEMMA PastGrows ==
  ASSUME NEW m \in Nat, NEW n \in Nat, m <= n
  PROVE  /\ Past(m) \subseteq Past(n)
         /\ DOMAIN versions[n] \subseteq Past(n)
         /\ Past(n + 1) = Past(n) \cup DOMAIN versions[n + 1]
<1>1. 0 .. m \subseteq 0 .. n /\ n \in 0 .. n /\ 0 .. n + 1 = (0 .. n) \cup {n + 1}
  OBVIOUS
<1> QED BY <1>1 DEF Past

\* What is on the screen, and so what an edit can be about.
LEMMA EditFacts ==
  ASSUME NEW t \in Tabs, Loaded(t), ClientInv(t), IdInv(t), ot[t].clientSeq < MaxEdits[t],
         NEW edit \in Edits(t)
  PROVE  LET op == Stamped(ot[t], edit) IN
         /\ IsOwnEdit(op, t) /\ op.id \in Past(seen[t]) \cup IdsOf(t)
         /\ op.clientSeq = ot[t].clientSeq + 1 /\ op.lamport = ot[t].lamport + 1
<1> DEFINE op == Stamped(ot[t], edit)
           c == ot[t]
           sees == DOMAIN Local(c)
           own == {i \in IdsOf(t) : \E n \in 0 .. seen[t] : i \in DOMAIN versions[n]}
           ids == sees \cup own
           known == Past(seen[t]) \cup IdsOf(t)
<1>1. /\ IsClient(c, UserOf[t], MaxEdits[t])
      /\ c.clientSeq \in Nat /\ c.lamport \in Nat /\ c.userId = UserOf[t]
      /\ MaxEdits[t] \in Nat
  BY BoundAssumption DEF ClientInv, IsClient
<1>2. ids \subseteq known
  <2>1. /\ IsDoc(c.serverState) /\ IsSequence(c.pending)
        /\ \A k \in 1 .. Len(c.pending) : IsForm(c.pending[k], ListFields)
    BY <1>1 DEF IsClient
  <2>2. sees \subseteq DOMAIN c.serverState \cup Added(c.pending)
    <3>1. sees = DOMAIN ApplyAll(c.serverState, c.pending)
      BY DEF Local
    <3>2. AreForms(c.pending, ListFields)
      BY <2>1 DEF AreForms
    <3> HIDE DEF sees, c
    <3> QED BY <2>1, <3>1, <3>2, ApplyAllFacts
  <2>3. /\ DOMAIN c.serverState \subseteq known
        /\ Added(c.pending) \subseteq known
    BY DEF IdInv, Added
  <2>4. own \subseteq known
    OBVIOUS
  <2> HIDE DEF sees, own, known, c
  <2> QED BY <2>2, <2>3, <2>4
<1>3. FreshId(t) \in IdsOf(t) /\ FreshId(t) = <<t, c.clientSeq + 1>>
  BY <1>1 DEF FreshId, IdsOf
<1>4. /\ DOMAIN op = DOMAIN edit \cup Stamps /\ Keeps(op, edit)
      /\ op.clientId = UserOf[t] /\ op.clientSeq = c.clientSeq + 1 /\ op.lamport = c.lamport + 1
  <2> HIDE DEF c
  <2>1. /\ DOMAIN op = DOMAIN edit \cup Stamps /\ Keeps(op, edit)
        /\ op.clientId = c.userId /\ op.clientSeq = c.clientSeq + 1 /\ op.lamport = c.lamport + 1
    BY ClientStamps DEF c
  <2> QED BY <1>1, <2>1, Zenon
<1> DEFINE Good == IsEdit(op, ListFields) /\ op.id \in known
                   /\ (op.type = "add" => op.shape.updatedAt = 0 /\ op.id = <<t, op.clientSeq>>)
<1>5. op.lamport \in Nat
  BY <1>1, <1>4
<1> HIDE DEF op
<1>6. ASSUME edit = [type |-> "add", id |-> FreshId(t), shape |-> NewShape(UserOf[t], FreshId(t))]
      PROVE  Good
  <2> DEFINE d == NewShape(UserOf[t], FreshId(t))
  <2>1. IsDrawable(d) /\ d.id = FreshId(t) /\ d.updatedAt = 0
    BY <1>3, ShapeAssumption
  <2> HIDE DEF d
  <2>2. DOMAIN edit = {"type", "id", "shape"} /\ edit.type = "add" /\ edit.id = FreshId(t) /\ edit.shape = d
    BY <1>6 DEF d
  <2>3. op.type = "add" /\ op.id = FreshId(t) /\ op.shape = d
        /\ {"type", "id", "shape", "clientId", "clientSeq", "lamport"} \subseteq DOMAIN op
    BY <1>4, <2>2 DEF Keeps, Stamps
  <2>4. IsEdit(op, ListFields)
    BY <1>5, <2>1, <2>3 DEF IsEdit
  <2> QED BY <1>3, <1>4, <2>1, <2>3, <2>4
<1>7. ASSUME NEW i \in sees, edit = [type |-> "remove", id |-> i]
      PROVE  Good
  <2>1. DOMAIN edit = {"type", "id"} /\ edit.type = "remove" /\ edit.id = i
    BY <1>7
  <2>2. op.type = "remove" /\ op.id = i
        /\ {"type", "id", "clientId", "clientSeq", "lamport"} \subseteq DOMAIN op
    BY <1>4, <2>1 DEF Keeps, Stamps
  <2>3. IsEdit(op, ListFields)
    BY <1>5, <2>2 DEF IsEdit
  <2> QED BY <1>2, <2>2, <2>3
<1>8. ASSUME NEW i \in ids, NEW q, edit = [type |-> "patch", id |-> i, patch |-> q],
             DOMAIN q # {}, \A f \in DOMAIN q : q[f].append = (f \in ListFields)
      PROVE  Good
  <2>1. DOMAIN edit = {"type", "id", "patch"} /\ edit.type = "patch" /\ edit.id = i /\ edit.patch = q
    BY <1>8
  <2>2. op.type = "patch" /\ op.id = i /\ op.patch = q
        /\ {"type", "id", "patch", "clientId", "clientSeq", "lamport"} \subseteq DOMAIN op
    BY <1>4, <2>1 DEF Keeps, Stamps
  <2>3. IsEdit(op, ListFields)
    BY <1>5, <1>8, <2>2 DEF IsEdit
  <2> QED BY <1>2, <2>2, <2>3
<1>9. Good
  <2> HIDE DEF Good
  <2> DEFINE mark == 10 * UserOf[t] + ot[t].clientSeq + 1
  <2>2. \/ edit = [type |-> "add", id |-> FreshId(t), shape |-> NewShape(UserOf[t], FreshId(t))]
        \/ \E i \in sees : edit = [type |-> "remove", id |-> i]
        \/ \E i \in ids, ks \in FieldSets : edit = SetFields(i, ks, mark)
        \/ \E i \in ids, k \in ListFields : edit = AppendTo(i, k, mark)
    BY SMT DEF Edits
  <2> HIDE DEF mark, ids, sees, own
  <2>3. ASSUME NEW i \in ids, NEW ks \in FieldSets, edit = SetFields(i, ks, mark)
        PROVE  Good
    <3> DEFINE q == [f \in ks |-> [append |-> FALSE, v |-> mark]]
    <3>1. edit = [type |-> "patch", id |-> i, patch |-> q]
      BY <2>3 DEF SetFields
    <3>2. DOMAIN q = ks /\ \A f \in ks : q[f].append = FALSE
      OBVIOUS
    <3>3. ks # {} /\ \A f \in ks : FALSE = (f \in ListFields)
      BY FieldAssumption
    <3> HIDE DEF q
    <3>4. DOMAIN q # {} /\ \A f \in DOMAIN q : q[f].append = (f \in ListFields)
      BY <3>2, <3>3, Zenon
    <3> QED BY <1>8, <3>1, <3>4
  <2>4. ASSUME NEW i \in ids, NEW k \in ListFields, edit = AppendTo(i, k, mark)
        PROVE  Good
    <3> DEFINE q == [f \in {k} |-> [append |-> TRUE, v |-> <<mark>>]]
    <3>1. edit = [type |-> "patch", id |-> i, patch |-> q]
      BY <2>4 DEF AppendTo
    <3>2. DOMAIN q # {} /\ \A f \in DOMAIN q : q[f].append = (f \in ListFields)
      OBVIOUS
    <3> HIDE DEF q
    <3> QED BY <1>8, <3>1, <3>2
  <2> QED BY <1>6, <1>7, <2>2, <2>3, <2>4
<1>10. IsOwnEdit(op, t)
  BY <1>4, <1>9 DEF IsOwnEdit
<1> QED BY <1>4, <1>9, <1>10 DEF op

-------------------------------------------------------------------------------
(* Steps elsewhere.  A step that adds versions, or none, keeps what was there. *)

Grows ==
  /\ serverSeq \in Nat /\ serverSeq' \in Nat /\ serverSeq <= serverSeq'
  /\ \A n \in 0 .. serverSeq : versions'[n] = versions[n]

LEMMA PastKept ==
  ASSUME Grows, NEW n \in 0 .. serverSeq
  PROVE  Past(n)' = Past(n)
<1>1. \A m \in 0 .. n : versions'[m] = versions[m]
  BY DEF Grows
<1> QED BY <1>1 DEF Past

LEMMA MessagesKept ==
  ASSUME Grows, NEW m, NEW n
  PROVE  /\ IsWelcome(m, n) => IsWelcome(m, n)'
         /\ IsUpdate(m, n) => IsUpdate(m, n)'
<1>1. ASSUME IsWelcome(m, n) PROVE IsWelcome(m, n)'
  <2>1. n \in 0 .. serverSeq /\ n \in 0 .. serverSeq' /\ versions'[n] = versions[n]
    BY <1>1 DEF IsWelcome, Grows
  <2> QED BY <1>1, <2>1 DEF IsWelcome
<1>2. ASSUME IsUpdate(m, n) PROVE IsUpdate(m, n)'
  <2>1. /\ n \in 1 .. serverSeq /\ n \in 1 .. serverSeq' /\ n - 1 \in 0 .. serverSeq
        /\ versions'[n] = versions[n] /\ versions'[n - 1] = versions[n - 1]
    BY <1>2 DEF IsUpdate, Grows
  <2>2. Past(n - 1)' = Past(n - 1)
    BY <2>1, PastKept
  <2> QED BY <1>2, <2>1, <2>2 DEF IsUpdate
<1> QED BY <1>1, <1>2

\* A tab that neither acts nor is acted on.
Stays(x) ==
  /\ ot'[x] = ot[x] /\ seen'[x] = seen[x]
  /\ (x \in opened' <=> x \in opened) /\ (x \in live' <=> x \in live)

LEMMA DownKept ==
  ASSUME NEW x \in Tabs, Stays(x), Grows, serverSeq' = serverSeq, down'[x] = down[x], DownInv(x)
  PROVE  DownInv(x)'
<1>1. \A j \in 1 .. Len(down[x]) :
        IF j = 1 /\ ~Loaded(x)
          THEN IsWelcome(down[x][j], serverSeq - Len(down[x]) + j)'
          ELSE IsUpdate(down[x][j], serverSeq - Len(down[x]) + j)'
  BY MessagesKept DEF DownInv
<1> QED BY <1>1 DEF DownInv, Stays, Loaded

LEMMA ClientKept ==
  ASSUME NEW x \in Tabs, Stays(x), Grows, ClientInv(x)
  PROVE  ClientInv(x)'
<1>1. seen'[x] \in 0 .. serverSeq'
  BY DEF ClientInv, Stays, Grows
<1> QED BY <1>1 DEF ClientInv, Stays, Loaded

LEMMA UpKept ==
  ASSUME NEW x \in Tabs, Stays(x), up'[x] = up[x], UpInv(x)
  PROVE  UpInv(x)'
BY DEF UpInv, Stays, Loaded

LEMMA IdKept ==
  ASSUME NEW x \in Tabs, Stays(x), up'[x] = up[x], Grows, serverSeq' = serverSeq,
         IdInv(x), ClientInv(x)
  PROVE  IdInv(x)'
<1>1. seen[x] \in 0 .. serverSeq /\ serverSeq \in 0 .. serverSeq
  BY DEF ClientInv, Grows
<1>2. Past(seen[x])' = Past(seen[x]) /\ Past(serverSeq)' = Past(serverSeq)
  BY <1>1, PastKept DEF Stays
<1> QED BY <1>2 DEF IdInv, Stays, Loaded

\* What the tabs leave alone.
ServerStays == UNCHANGED <<doc, lamport, serverSeq, versions>>

LEMMA Elsewhere ==
  ASSUME NEW x \in Tabs, BoardInv, ServerStays, Stays(x), up'[x] = up[x], down'[x] = down[x],
         Part(x)
  PROVE  Part(x)'
<1>1. Grows /\ serverSeq' = serverSeq
  BY DEF Grows, ServerStays, BoardInv
<1> QED BY <1>1, ClientKept, UpKept, DownKept, IdKept DEF Part

\* A step of t alone.
OnlyAt(t) == \A x \in Tabs \ {t} : Stays(x) /\ up'[x] = up[x] /\ down'[x] = down[x]

Domains ==
  /\ DOMAIN up = Tabs /\ DOMAIN down = Tabs /\ DOMAIN ot = Tabs
  /\ DOMAIN seen = Tabs /\ DOMAIN unacked = Tabs /\ DOMAIN ghost = Tabs

LEMMA StepOfOne ==
  ASSUME IInv, NEW t \in Tabs, ServerStays, OnlyAt(t), Part(t)', Domains',
         live' \subseteq Tabs, opened' \subseteq Tabs, rejects' \in 0 .. MaxRejects
  PROVE  IInv'
<1>1. BoardInv'
  BY DEF IInv, BoardInv, ServerStays, Domains
<1>2. ASSUME NEW x \in Tabs PROVE Part(x)'
  <2>1. CASE x = t
    BY <2>1
  <2>2. CASE x # t
    <3>1. Stays(x) /\ up'[x] = up[x] /\ down'[x] = down[x] /\ BoardInv /\ Part(x)
      BY <2>2 DEF OnlyAt, IInv
    <3> QED BY <3>1, Elsewhere
  <2> QED BY <2>1, <2>2
<1> QED BY <1>1, <1>2 DEF IInv

-------------------------------------------------------------------------------
(* The beginning, and a page that loads or leaves *)

LEMMA InitIInv == Init => IInv
<1> SUFFICES ASSUME Init PROVE IInv
  OBVIOUS
<1>1. serverSeq = 0 /\ DOMAIN versions = {0} /\ versions[0] = InitDoc
  BY DEF Init
<1>2. Past(0) = DOMAIN InitDoc
  BY <1>1 DEF Past
<1>3. BoardInv
  BY <1>1, BoardAssumption, BoundAssumption DEF BoardInv, Init, NotAfter
<1>4. ASSUME NEW t \in Tabs PROVE Part(t)
  <2>1. /\ up[t] = <<>> /\ down[t] = <<>> /\ ~Loaded(t) /\ seen[t] = 0
        /\ t \notin live
    BY DEF Init, Loaded
  <2>2. ClientInv(t)
    BY <1>1, <2>1 DEF ClientInv
  <2>3. IsSequence(<<>>) /\ Len(<<>>) = 0
    BY DEF IsSequence
  <2>4. UpInv(t) /\ DownInv(t)
    BY <2>1, <2>3 DEF UpInv, DownInv
  <2>5. \A c \in 1 .. MaxEdits[t] : <<t, c>> \notin DOMAIN InitDoc
    BY BoardAssumption DEF IdsOf
  <2>6. IdInv(t)
    BY <1>1, <1>2, <2>1, <2>5 DEF IdInv
  <2> QED BY <2>2, <2>4, <2>6 DEF Part
<1> QED BY <1>3, <1>4 DEF IInv

LEMMA OpenIInv ==
  ASSUME IInv, NEW t \in Tabs, Open(t)
  PROVE  IInv'
<1>1. BoardInv /\ Part(t) /\ ClientInv(t) /\ UpInv(t) /\ IdInv(t) /\ t \notin opened /\ ~Loaded(t)
  BY DEF IInv, Part, Open, ClientInv
<1> DEFINE welcome == [type |-> "welcome", drawables |-> Drawables(doc), lamport |-> lamport,
                       serverSeq |-> serverSeq]
<1>2. /\ ot' = ot /\ up' = up /\ down'[t] = <<welcome>> /\ seen'[t] = serverSeq
      /\ live' = live \cup {t} /\ opened' = opened \cup {t} /\ rejects' = rejects
      /\ ServerStays /\ serverSeq' = serverSeq /\ versions' = versions /\ serverSeq \in Nat
  BY <1>1 DEF Open, BoardInv, ServerStays, board
<1>3. OnlyAt(t)
  BY <1>1 DEF Open, BoardInv, OnlyAt, Stays
<1>4. Domains' /\ live' \subseteq Tabs /\ opened' \subseteq Tabs /\ rejects' \in 0 .. MaxRejects
  BY <1>1, <1>2 DEF Open, BoardInv, Domains
<1>5. ~Loaded(t)' /\ up[t] = <<>>
  BY <1>1, <1>2 DEF Loaded, UpInv
<1>6. ClientInv(t)'
  BY <1>2, <1>5 DEF ClientInv
<1>7. UpInv(t)'
  BY <1>2, <1>5 DEF UpInv, IsSequence
<1>8. DownInv(t)'
  <2>1. PICK m, n : m = welcome /\ n = serverSeq
    OBVIOUS
  <2>2. IsWelcome(m, n)
    BY <1>1, <1>2, <2>1 DEF IsWelcome, BoardInv
  <2>3. IsWelcome(m, n)'
    BY <1>2, <2>2, MessagesKept DEF Grows
  <2> HIDE DEF welcome
  <2>4. IsSequence(<<m>>) /\ Len(<<m>>) = 1 /\ <<m>>[1] = m
    BY DEF IsSequence
  <2> QED BY <1>2, <1>5, <2>1, <2>3, <2>4 DEF DownInv
<1>9. IdInv(t)'
  <2>1. Past(serverSeq)' = Past(serverSeq)
    BY <1>2 DEF Past
  <2> QED BY <1>1, <1>5, <2>1 DEF IdInv
<1> QED BY <1>2, <1>3, <1>4, <1>6, <1>7, <1>8, <1>9, StepOfOne DEF Part

LEMMA CloseIInv ==
  ASSUME IInv, NEW t \in Tabs, Close(t)
  PROVE  IInv'
<1>1. BoardInv /\ ClientInv(t) /\ UpInv(t) /\ IdInv(t)
  BY DEF IInv, Part
<1>2. /\ opened' = opened /\ ot' = ot /\ down'[t] = <<>> /\ seen' = seen
      /\ live' = live \ {t} /\ t \notin live' /\ rejects' = rejects
      /\ ServerStays /\ serverSeq' = serverSeq /\ versions' = versions
  BY <1>1 DEF Close, BoardInv, ServerStays, board
<1>3. OnlyAt(t)
  BY <1>1 DEF Close, BoardInv, OnlyAt, Stays
<1>4. Domains' /\ live' \subseteq Tabs /\ opened' \subseteq Tabs /\ rejects' \in 0 .. MaxRejects
  BY <1>1, <1>2 DEF Close, BoardInv, Domains
<1>5. PICK n \in 0 .. Len(up[t]) : up'[t] = SubSeq(up[t], 1, n)
  BY <1>1 DEF Close, BoardInv
<1>6. /\ IsSequence(up[t]) /\ Len(up[t]) \in Nat /\ IsSequence(up'[t]) /\ Len(up'[t]) = n
      /\ \A k \in 1 .. n : k \in 1 .. Len(up[t]) /\ up'[t][k] = up[t][k]
  BY <1>1, <1>5, PrefixFacts DEF UpInv, IsSequence
<1>7. ClientInv(t)'
  BY <1>1, <1>2 DEF ClientInv, Loaded
<1>8. UpInv(t)' /\ DownInv(t)'
  <2>1. up'[t] # <<>> => up[t] # <<>>
    BY <1>6, SequenceOfLengthZero
  <2>2. UpInv(t)'
    BY <1>1, <1>2, <1>6, <2>1 DEF UpInv, Loaded
  <2> QED BY <1>2, <2>2 DEF DownInv, IsSequence
<1>9. IdInv(t)'
  <2>1. Past(serverSeq)' = Past(serverSeq) /\ Past(seen[t])' = Past(seen[t])
    BY <1>2 DEF Past
  <2> QED BY <1>1, <1>2, <1>6, <2>1 DEF IdInv, Loaded
<1> QED BY <1>2, <1>3, <1>4, <1>7, <1>8, <1>9, StepOfOne DEF Part

-------------------------------------------------------------------------------
(* A local op *)

\* The client after an op, and the op in its pending list.
LEMMA LocalOpFacts ==
  ASSUME NEW c, NEW u, NEW n \in Nat, IsClient(c, u, n), c.clientSeq < n, NEW edit,
         IsEdit(Stamped(c, edit), ListFields)
  PROVE  LET d == LocalOp(c, edit) IN
         /\ IsClient(d, u, n) /\ d.serverState = c.serverState /\ d.clientSeq = c.clientSeq + 1
         /\ d.userId = u
         /\ Len(d.pending) = Len(c.pending) + 1 /\ d.pending[Len(c.pending) + 1] = Stamped(c, edit)
         /\ \A k \in 1 .. Len(c.pending) : d.pending[k] = c.pending[k]
<1> DEFINE op == Stamped(c, edit)
           d == LocalOp(c, edit)
<1>1. op.lamport = c.lamport + 1 /\ op.clientSeq = c.clientSeq + 1
  BY ClientStamps
<1>2. /\ d = [userId |-> c.userId, serverState |-> c.serverState, pending |-> Append(c.pending, op),
              lamport |-> c.lamport + 1, clientSeq |-> c.clientSeq + 1]
      /\ c.lamport \in Nat /\ c.clientSeq \in 0 .. n /\ c.userId = u
      /\ IsSequence(c.pending) /\ Len(c.pending) \in Nat
  BY DEF LocalOp, IsClient, IsSequence
<1> HIDE DEF op, d
<1>3. /\ IsSequence(d.pending) /\ Len(d.pending) = Len(c.pending) + 1
      /\ d.pending[Len(c.pending) + 1] = op
      /\ \A k \in 1 .. Len(c.pending) : d.pending[k] = c.pending[k]
  BY <1>2, AppendFacts
<1>4. /\ d.serverState = c.serverState /\ d.clientSeq = c.clientSeq + 1 /\ d.lamport = c.lamport + 1
      /\ d.userId = u
      /\ d = [userId |-> u, serverState |-> d.serverState, pending |-> d.pending,
              lamport |-> d.lamport, clientSeq |-> d.clientSeq]
  BY <1>2
<1>5. IsDoc(d.serverState) /\ NotAfter(d.serverState, d.lamport)
  <2>1. /\ IsDoc(c.serverState) /\ NotAfter(c.serverState, c.lamport)
        /\ \A i \in DOMAIN c.serverState : c.serverState[i].updatedAt \in Nat
    BY DEF IsClient, IsDoc, IsDrawable
  <2> QED BY <1>2, <1>4, <2>1 DEF NotAfter
<1>6. IsForm(op, ListFields)
  BY DEF op, IsForm, IsEdit
<1>7. ASSUME NEW k \in 1 .. Len(d.pending)
      PROVE  /\ IsForm(d.pending[k], ListFields) /\ d.pending[k].lamport <= d.lamport
             /\ d.pending[k].clientSeq \in 1 .. d.clientSeq
  <2>1. CASE k = Len(c.pending) + 1
    BY <1>1, <1>2, <1>3, <1>4, <1>6, <2>1
  <2>2. CASE k \in 1 .. Len(c.pending)
    <3>1. /\ IsForm(c.pending[k], ListFields) /\ c.pending[k].lamport <= c.lamport
          /\ c.pending[k].clientSeq \in 1 .. c.clientSeq /\ d.pending[k] = c.pending[k]
      BY <1>3, <2>2 DEF IsClient
    <3>2. c.pending[k].lamport \in Nat
      BY <3>1 DEF IsForm
    <3>3. IsForm(d.pending[k], ListFields)
      BY <3>1, Zenon
    <3>4. d.pending[k].lamport <= d.lamport
      BY <1>2, <1>4, <3>1, <3>2
    <3>5. d.pending[k].clientSeq \in 1 .. d.clientSeq
      BY <1>2, <1>4, <3>1
    <3> QED BY <3>3, <3>4, <3>5
  <2> QED BY <1>2, <1>3, <2>1, <2>2
<1>8. IsClient(d, u, n)
  BY <1>2, <1>3, <1>4, <1>5, <1>7 DEF IsClient
<1> QED BY <1>3, <1>4, <1>8 DEF op, d

LEMMA EditIInv ==
  ASSUME IInv, NEW t \in Tabs, Edit(t)
  PROVE  IInv'
<1>1. BoardInv /\ Part(t) /\ Loaded(t) /\ ot[t].clientSeq < MaxEdits[t]
  BY DEF IInv, Edit
<1>2. PICK edit \in Edits(t) :
        /\ ot' = [ot EXCEPT ![t] = LocalOp(@, edit)]
        /\ up' = [up EXCEPT ![t] = IF t \in live THEN Append(@, Stamped(ot[t], edit)) ELSE @]
        /\ unacked' = [unacked EXCEPT ![t] = Append(@, Stamped(ot[t], edit))]
  BY DEF Edit
<1> DEFINE op == Stamped(ot[t], edit)
           c == ot[t]
<1>3. /\ live' = live /\ opened' = opened /\ down' = down /\ seen' = seen /\ rejects' = rejects
      /\ ServerStays /\ ghost' = ghost /\ serverSeq' = serverSeq /\ versions' = versions
  BY DEF Edit, board, sockets, ServerStays
<1>4. ot'[t] = LocalOp(c, edit) /\ up'[t] = IF t \in live THEN Append(up[t], op) ELSE up[t]
  BY <1>1, <1>2 DEF BoardInv
<1>5. OnlyAt(t)
  BY <1>1, <1>2, <1>3 DEF BoardInv, OnlyAt, Stays
<1>6. Domains' /\ live' \subseteq Tabs /\ opened' \subseteq Tabs /\ rejects' \in 0 .. MaxRejects
  BY <1>1, <1>2, <1>3 DEF BoardInv, Domains
<1>7. /\ IsOwnEdit(op, t) /\ op.id \in Past(seen[t]) \cup IdsOf(t)
      /\ op.clientSeq = c.clientSeq + 1
  BY <1>1, EditFacts DEF Part
<1>8. IsClient(c, UserOf[t], MaxEdits[t]) /\ t \in opened /\ MaxEdits[t] \in Nat /\ c.clientSeq \in Nat
  BY <1>1, BoundAssumption DEF Part, ClientInv, IsClient
<1> DEFINE d == LocalOp(c, edit)
<1>9. /\ IsClient(d, UserOf[t], MaxEdits[t]) /\ d.serverState = c.serverState
      /\ d.clientSeq = c.clientSeq + 1 /\ d.userId = UserOf[t]
      /\ Len(d.pending) = Len(c.pending) + 1 /\ d.pending[Len(c.pending) + 1] = op
      /\ \A k \in 1 .. Len(c.pending) : d.pending[k] = c.pending[k]
  <2>1. IsEdit(op, ListFields)
    BY <1>7 DEF IsOwnEdit
  <2> QED BY SMTT(30), <1>1, <1>8, <2>1, LocalOpFacts
<1> HIDE DEF op, d
<1>10. Loaded(t)'
  <2>1. d # NoOT
    BY <1>9, IsLoaded
  <2> QED BY <1>4, <2>1 DEF Loaded, d
<1>11. ClientInv(t)'
  <2>1. IsClient(ot'[t], UserOf[t], MaxEdits[t])
    BY <1>4, <1>9 DEF d
  <2> QED BY <1>1, <1>3, <1>8, <2>1 DEF ClientInv, Part
<1>12. UpInv(t)'
  <2>1. CASE t \in live
    <3>1. UpInv(t) /\ IsSequence(up[t])
      BY <1>1 DEF Part, UpInv
    <3>2. /\ up'[t] = Append(up[t], op) /\ IsSequence(up'[t]) /\ Len(up'[t]) = Len(up[t]) + 1
          /\ up'[t][Len(up[t]) + 1] = op /\ Len(up[t]) \in Nat
          /\ \A k \in 1 .. Len(up[t]) : up'[t][k] = up[t][k]
      BY <1>4, <2>1, <3>1, AppendFacts DEF IsSequence
    <3>3. ot'[t].clientSeq = c.clientSeq + 1
      BY <1>4, <1>9 DEF d
    <3>4. ASSUME NEW k \in 1 .. Len(up'[t])
          PROVE  IsOwnEdit(up'[t][k], t) /\ up'[t][k].clientSeq \in 1 .. ot'[t].clientSeq
      <4>1. CASE k = Len(up[t]) + 1
        BY <1>7, <1>8, <3>2, <3>3, <4>1
      <4>2. CASE k \in 1 .. Len(up[t])
        <5>1. IsOwnEdit(up[t][k], t) /\ up[t][k].clientSeq \in 1 .. c.clientSeq
          BY <3>1, <4>2 DEF UpInv
        <5>2. up'[t][k] = up[t][k]
          BY <3>2, <4>2
        <5> QED BY <1>8, <3>3, <5>1, <5>2
      <4> QED BY <3>2, <4>1, <4>2
    <3>5. ASSUME NEW j \in 1 .. Len(up'[t]), NEW k \in 1 .. Len(up'[t]), j < k
          PROVE  up'[t][j].clientSeq < up'[t][k].clientSeq
      <4>1. j \in 1 .. Len(up[t]) /\ up'[t][j] = up[t][j] /\ up[t][j].clientSeq \in 1 .. c.clientSeq
        BY <3>1, <3>2, <3>5 DEF UpInv
      <4>2. CASE k = Len(up[t]) + 1
        BY SMTT(30), <1>7, <1>8, <3>2, <4>1, <4>2
      <4>3. CASE k \in 1 .. Len(up[t])
        <5>1. up[t][j].clientSeq < up[t][k].clientSeq
          BY <3>1, <3>5, <4>1, <4>3 DEF UpInv
        <5> QED BY <3>2, <4>1, <4>3, <5>1
      <4> QED BY <3>2, <4>2, <4>3
    <3> QED BY <1>3, <1>10, <2>1, <3>2, <3>4, <3>5 DEF UpInv
  <2>2. CASE t \notin live
    <3>1. up'[t] = up[t] /\ ot'[t].clientSeq = c.clientSeq + 1 /\ UpInv(t)
      BY <1>1, <1>4, <1>9, <2>2 DEF Part, d
    <3>2. \A k \in 1 .. Len(up[t]) : up[t][k].clientSeq \in 1 .. ot'[t].clientSeq
      BY <1>8, <3>1 DEF UpInv
    <3> QED BY <1>10, <3>1, <3>2 DEF UpInv
  <2> QED BY <2>1, <2>2
<1>13. DownInv(t)'
  <2>1. DownInv(t) /\ Grows
    BY <1>1, <1>3 DEF Part, Grows, BoardInv
  <2>2. \A j \in 1 .. Len(down[t]) : IsUpdate(down[t][j], serverSeq - Len(down[t]) + j)'
    BY <1>1, <1>3, <2>1, MessagesKept DEF DownInv
  <2> QED BY <1>1, <1>3, <1>10, <2>1, <2>2 DEF DownInv
<1>14. IdInv(t)'
  <2>1. Past(serverSeq)' = Past(serverSeq) /\ Past(seen[t])' = Past(seen[t])
    BY <1>3 DEF Past
  <2>2. IdInv(t)
    BY <1>1 DEF Part
  <2>3. DOMAIN ot'[t].serverState \subseteq Past(seen[t])
    BY <1>1, <1>4, <1>9, <2>2 DEF d, IdInv
  <2>4. ASSUME NEW k \in 1 .. Len(ot'[t].pending), ot'[t].pending[k].type # "noop"
        PROVE  ot'[t].pending[k].id \in Past(seen[t]) \cup IdsOf(t)
    <3>1. ot'[t].pending = d.pending /\ Len(c.pending) \in Nat
      BY <1>4, <1>8 DEF d, IsClient, IsSequence
    <3>2. CASE k = Len(c.pending) + 1
      BY <1>7, <1>9, <3>1, <3>2
    <3>3. CASE k \in 1 .. Len(c.pending)
      BY <1>1, <1>9, <2>2, <2>4, <3>1, <3>3 DEF IdInv
    <3> QED BY SMTT(30), <1>9, <2>4, <3>1, <3>2, <3>3
  <2>5. ASSUME NEW n \in 1 .. MaxEdits[t], <<t, n>> \in Past(serverSeq)
        PROVE  n <= ot'[t].clientSeq /\ \A k \in 1 .. Len(up'[t]) : n < up'[t][k].clientSeq
    <3>1. n <= c.clientSeq /\ \A k \in 1 .. Len(up[t]) : n < up[t][k].clientSeq
      BY <2>2, <2>5 DEF IdInv
    <3>2. ASSUME n <= c.clientSeq, \A k \in 1 .. Len(up[t]) : n < up[t][k].clientSeq
          PROVE  n <= ot'[t].clientSeq /\ \A k \in 1 .. Len(up'[t]) : n < up'[t][k].clientSeq
      <4>1. ot'[t].clientSeq = c.clientSeq + 1
        BY <1>4, <1>9 DEF d
      <4>2. \A k \in 1 .. Len(up'[t]) : up'[t][k] = op \/ (k \in 1 .. Len(up[t]) /\ up'[t][k] = up[t][k])
        <5>1. IsSequence(up[t]) /\ Len(up[t]) \in Nat
          BY <1>1 DEF Part, UpInv, IsSequence
        <5> QED BY <1>4, <5>1, AppendFacts
      <4>3. n <= ot'[t].clientSeq
        BY <1>8, <3>2, <4>1
      <4>4. ASSUME NEW k \in 1 .. Len(up'[t])
            PROVE  n < up'[t][k].clientSeq
        <5>1. CASE up'[t][k] = op
          BY <1>7, <1>8, <3>2, <5>1
        <5> QED BY <3>2, <4>2, <5>1
      <4> QED BY <4>3, <4>4
    <3> QED BY <3>1, <3>2
  <2> QED BY <1>3, <1>10, <2>1, <2>3, <2>4, <2>5 DEF IdInv
<1> QED BY <1>3, <1>5, <1>6, <1>11, <1>12, <1>13, <1>14, StepOfOne DEF Part

-------------------------------------------------------------------------------
(* A refusal *)

LEMMA UpShifts ==
  ASSUME NEW t \in Tabs, UpInv(t), up[t] # <<>>, up'[t] = Tail(up[t]),
         ot'[t] = ot[t]
  PROVE  /\ UpInv(t)' /\ Len(up[t]) \in Nat /\ Len(up[t]) >= 1
         /\ Head(up[t]) = up[t][1] /\ Len(up'[t]) = Len(up[t]) - 1
         /\ \A k \in 1 .. Len(up'[t]) : up'[t][k] = up[t][k + 1]
<1>1. /\ IsSequence(up[t]) /\ Loaded(t)
      /\ \A k \in 1 .. Len(up[t]) :
           IsOwnEdit(up[t][k], t) /\ up[t][k].clientSeq \in 1 .. ot[t].clientSeq
      /\ \A j, k \in 1 .. Len(up[t]) : j < k => up[t][j].clientSeq < up[t][k].clientSeq
  BY DEF UpInv
<1>2. /\ Len(up[t]) \in Nat /\ Len(up[t]) >= 1 /\ Head(up[t]) = up[t][1]
      /\ IsSequence(up'[t]) /\ Len(up'[t]) = Len(up[t]) - 1
      /\ \A k \in 1 .. Len(up'[t]) : up'[t][k] = up[t][k + 1]
  BY <1>1, TailFacts DEF IsSequence
<1>3. ASSUME NEW k \in 1 .. Len(up'[t])
      PROVE  k + 1 \in 1 .. Len(up[t]) /\ up'[t][k] = up[t][k + 1]
  BY <1>2
<1>4. ASSUME NEW k \in 1 .. Len(up'[t])
      PROVE  IsOwnEdit(up'[t][k], t) /\ up'[t][k].clientSeq \in 1 .. ot'[t].clientSeq
  BY <1>1, <1>3
<1>5. ASSUME NEW j \in 1 .. Len(up'[t]), NEW k \in 1 .. Len(up'[t]), j < k
      PROVE  up'[t][j].clientSeq < up'[t][k].clientSeq
  <2>1. j + 1 < k + 1
    BY <1>2, <1>5
  <2> QED BY <1>1, <1>3, <2>1
<1>6. UpInv(t)'
  BY <1>1, <1>2, <1>4, <1>5 DEF UpInv, Loaded
<1> QED BY <1>2, <1>6

LEMMA RejectIInv ==
  ASSUME IInv, NEW t \in Tabs, ServerReject(t)
  PROVE  IInv'
<1>1. BoardInv /\ Part(t) /\ up[t] # <<>>
  BY DEF IInv, ServerReject
<1>2. /\ live' = live /\ opened' = opened /\ down' = down /\ seen' = seen /\ ot' = ot
      /\ ServerStays /\ serverSeq' = serverSeq /\ versions' = versions /\ up'[t] = Tail(up[t])
  BY <1>1 DEF ServerReject, board, sockets, ServerStays, BoardInv
<1>3. OnlyAt(t)
  BY <1>1, <1>2 DEF BoardInv, OnlyAt, Stays, ServerReject
<1>4. Domains' /\ live' \subseteq Tabs /\ opened' \subseteq Tabs
  BY <1>1, <1>2 DEF BoardInv, Domains, ServerReject
<1>5. rejects' \in 0 .. MaxRejects
  BY <1>1, BoundAssumption DEF BoardInv, ServerReject
<1>6. ClientInv(t)'
  BY <1>1, <1>2 DEF ClientInv, Part, Loaded
<1>7. /\ UpInv(t)' /\ Len(up[t]) \in Nat /\ Len(up'[t]) = Len(up[t]) - 1
      /\ \A k \in 1 .. Len(up'[t]) : up'[t][k] = up[t][k + 1]
  BY <1>1, <1>2, UpShifts DEF Part
<1>8. DownInv(t)'
  <2>1. \A j \in 1 .. Len(down[t]) :
          IF j = 1 /\ ~Loaded(t)
            THEN IsWelcome(down[t][j], serverSeq - Len(down[t]) + j)'
            ELSE IsUpdate(down[t][j], serverSeq - Len(down[t]) + j)'
    <3>1. Grows
      BY <1>1, <1>2 DEF Grows, BoardInv
    <3> QED BY <1>1, <1>2, <3>1, MessagesKept DEF DownInv, Part
  <2> QED BY <1>1, <1>2, <2>1 DEF DownInv, Part, Loaded
<1>9. IdInv(t)'
  <2>1. Past(serverSeq)' = Past(serverSeq) /\ Past(seen[t])' = Past(seen[t])
    BY <1>2 DEF Past
  <2>2. IdInv(t)
    BY <1>1 DEF Part
  <2>3. ASSUME NEW n, \A k \in 1 .. Len(up[t]) : n < up[t][k].clientSeq
        PROVE  \A k \in 1 .. Len(up'[t]) : n < up'[t][k].clientSeq
    <3>1. \A k \in 1 .. Len(up'[t]) : k + 1 \in 1 .. Len(up[t])
      BY <1>7
    <3> QED BY <1>7, <2>3, <3>1
  <2> QED BY <1>2, <2>1, <2>2, <2>3 DEF IdInv, Loaded
<1> QED BY <1>2, <1>3, <1>4, <1>5, <1>6, <1>7, <1>8, <1>9, StepOfOne DEF Part

-------------------------------------------------------------------------------
(* A message from the server *)

LEMMA DownShifts ==
  ASSUME NEW t \in Tabs, BoardInv, DownInv(t), down[t] # <<>>, ServerStays, live' = live,
         down'[t] = Tail(down[t]), Loaded(t)', seen'[t] = serverSeq - Len(down[t]) + 1
  PROVE  DownInv(t)'
<1>1. /\ IsSequence(down[t]) /\ t \in live
      /\ serverSeq \in Nat /\ serverSeq' = serverSeq /\ versions' = versions
  BY DEF DownInv, BoardInv, ServerStays
<1>2. /\ Len(down[t]) \in Nat /\ Len(down[t]) >= 1
      /\ IsSequence(down'[t]) /\ Len(down'[t]) = Len(down[t]) - 1
      /\ \A j \in 1 .. Len(down'[t]) : down'[t][j] = down[t][j + 1]
  BY <1>1, TailFacts DEF IsSequence
<1>3. Grows
  BY <1>1 DEF Grows
<1>4. ASSUME NEW j \in 1 .. Len(down'[t])
      PROVE  IsUpdate(down[t][j], serverSeq - Len(down[t]) + j)'
  <2>1. PICK m, n : m = down[t][j + 1] /\ n = serverSeq - Len(down[t]) + (j + 1)
    OBVIOUS
  <2>2. IsUpdate(m, n)
    <3>1. j + 1 \in 1 .. Len(down[t]) /\ j + 1 # 1
      BY <1>2
    <3> QED BY <2>1, <3>1 DEF DownInv
  <2>3. IsUpdate(m, n)'
    BY <1>3, <2>2, MessagesKept
  <2>4. down'[t][j] = m
    BY <1>2, <2>1
  <2>5. \A l \in Nat : \A k : k = l - 1 => serverSeq - k + j = serverSeq - l + (j + 1)
    BY <1>1, <1>2
  <2>6. serverSeq - Len(down'[t]) + j = n
    BY <1>2, <2>1, <2>5, Zenon
  <2> QED BY <1>1, <2>3, <2>4, <2>6
<1>5. seen'[t] = serverSeq' - Len(down'[t])
  <2>1. Len(down'[t]) = Len(down[t]) - 1 /\ Len(down[t]) \in Nat
    BY <1>2
  <2>2. \A l \in Nat, n \in Nat : \A k : k = l - 1 => n - l + 1 = n - k
    OBVIOUS
  <2>3. serverSeq - Len(down[t]) + 1 = serverSeq - Len(down'[t])
    BY <1>1, <2>1, <2>2, Zenon
  <2>4. seen'[t] = serverSeq - Len(down'[t])
    BY <2>3, Zenon
  <2> QED BY <1>1, <2>4, Zenon
<1> QED BY <1>1, <1>2, <1>4, <1>5 DEF DownInv

\* Received the welcome: the client is new and knows what the server knew.
LEMMA WelcomedFacts ==
  ASSUME NEW t \in Tabs, BoardInv, NEW m, NEW n, IsWelcome(m, n)
  PROVE  LET c == Welcomed(UserOf[t], m.drawables, m.lamport) IN
         /\ IsClient(c, UserOf[t], MaxEdits[t]) /\ c.userId = UserOf[t]
         /\ c.serverState = versions[n] /\ c.pending = <<>> /\ c.clientSeq = 0
<1> DEFINE c == Welcomed(UserOf[t], m.drawables, m.lamport)
<1>1. /\ IsDoc(versions[n]) /\ m.drawables = Drawables(versions[n]) /\ m.lamport \in Nat
      /\ NotAfter(versions[n], m.lamport) /\ MaxEdits[t] \in Nat
  BY BoundAssumption DEF IsWelcome, BoardInv
<1>2. MapById(m.drawables) = versions[n]
  <2>1. Keyed(versions[n])
    BY <1>1 DEF IsDoc
  <2> QED BY <1>1, <2>1, SnapshotRoundTrip
<1>3. c = [userId |-> UserOf[t], serverState |-> versions[n], pending |-> <<>>,
           lamport |-> m.lamport, clientSeq |-> 0]
  BY <1>2 DEF Welcomed
<1> HIDE DEF c
<1>4. /\ c.userId = UserOf[t] /\ c.serverState = versions[n] /\ c.pending = <<>>
      /\ c.lamport = m.lamport /\ c.clientSeq = 0
  BY <1>3
<1>5. IsSequence(<<>>) /\ Len(<<>>) = 0
  BY DEF IsSequence
<1>6. IsClient(c, UserOf[t], MaxEdits[t])
  BY <1>1, <1>3, <1>4, <1>5 DEF IsClient
<1> QED BY <1>4, <1>6 DEF c

LEMMA WelcomeIInv ==
  ASSUME IInv, NEW t \in Tabs, Receive(t), ~Loaded(t)
  PROVE  IInv' /\ Loaded(t)' /\ ot'[t].serverState = versions[seen'[t]] /\ seen'[t] \in 0 .. serverSeq
         /\ unacked' = unacked /\ up[t] = <<>> /\ ot'[t].clientSeq = 0 /\ ot'[t].pending = <<>>
         /\ ot'[t].userId = UserOf[t]
<1>1. BoardInv /\ Part(t) /\ DownInv(t) /\ down[t] # <<>> /\ t \in live
  BY DEF IInv, Receive, Part, DownInv
<1>n. PICK n : n = serverSeq - Len(down[t]) + 1
  OBVIOUS
<1> DEFINE m == Head(down[t])
           c == Welcomed(UserOf[t], m.drawables, m.lamport)
<1>2. IsWelcome(m, n)
  <2>1. IsSequence(down[t]) /\ Head(down[t]) = down[t][1] /\ Len(down[t]) >= 1 /\ Len(down[t]) \in Nat
    BY <1>1, TailFacts DEF DownInv, IsSequence
  <2> QED BY <1>1, <1>n, <2>1 DEF DownInv
<1>3. /\ m.type = "welcome" /\ m.serverSeq = n /\ n \in 0 .. serverSeq /\ versions[n] \in {versions[n]}
  BY <1>2 DEF IsWelcome
<1>4. /\ ot' = [ot EXCEPT ![t] = c] /\ seen' = seen /\ seen[t] = n /\ unacked' = unacked
      /\ down' = [down EXCEPT ![t] = Tail(@)]
      /\ UNCHANGED <<board, sockets, up, rejects, ghost>>
  BY <1>1, <1>n, <1>3 DEF Receive, DownInv
<1>5. /\ IsClient(c, UserOf[t], MaxEdits[t]) /\ c.userId = UserOf[t]
      /\ c.serverState = versions[n] /\ c.pending = <<>> /\ c.clientSeq = 0
  BY <1>1, <1>2, WelcomedFacts
<1> HIDE DEF m, c
<1>6. /\ live' = live /\ opened' = opened /\ up' = up /\ rejects' = rejects /\ serverSeq' = serverSeq
      /\ versions' = versions /\ ServerStays /\ ot'[t] = c /\ seen'[t] = n
      /\ down'[t] = Tail(down[t])
  BY <1>1, <1>4 DEF board, sockets, ServerStays, BoardInv
<1>7. Loaded(t)'
  BY <1>5, <1>6, IsLoaded DEF Loaded
<1>8. OnlyAt(t)
  BY <1>1, <1>4, <1>6 DEF BoardInv, OnlyAt, Stays
<1>9. Domains' /\ live' \subseteq Tabs /\ opened' \subseteq Tabs /\ rejects' \in 0 .. MaxRejects
  BY <1>1, <1>4, <1>6 DEF BoardInv, Domains
<1>10. up[t] = <<>> /\ UpInv(t)'
  BY <1>1, <1>6 DEF Part, UpInv, IsSequence
<1>11. ClientInv(t)'
  BY <1>1, <1>3, <1>5, <1>6 DEF Part, ClientInv
<1>12. DownInv(t)'
  BY <1>1, <1>n, <1>6, <1>7, DownShifts
<1>13. IdInv(t)'
  <2>1. Past(serverSeq)' = Past(serverSeq) /\ Past(n)' = Past(n)
    BY <1>6 DEF Past
  <2>2. DOMAIN versions[n] \subseteq Past(n) /\ Len(<<>>) = 0
    BY <1>1, <1>3, PastGrows DEF BoardInv
  <2>3. /\ DOMAIN ot'[t].serverState \subseteq Past(seen[t])'
        /\ \A k \in 1 .. Len(ot'[t].pending) : FALSE
    BY <1>5, <1>6, <2>1, <2>2
  <2> QED BY <1>1, <1>6, <1>7, <2>1, <2>3 DEF IdInv, Part
<1> QED BY <1>3, <1>4, <1>5, <1>6, <1>7, <1>8, <1>9, <1>10, <1>11, <1>12, <1>13, StepOfOne DEF Part

\* What pending names after an op of the server, it named before.
NamesKept(new, ops) ==
  \A k \in 1 .. Len(new) : new[k].type # "noop" =>
    \E j \in 1 .. Len(ops) : ops[j].type # "noop" /\ ops[j].id = new[k].id

\* What the client c, of user u, is after op.
IsAfterOp(d, c, u, n, op) ==
  /\ IsClient(d, u, n) /\ d.userId = u /\ d.clientSeq = c.clientSeq
  /\ \A i \in DOMAIN d.serverState : i \in DOMAIN c.serverState \/ (op.type = "add" /\ i = op.id)
  /\ NamesKept(d.pending, c.pending)

LEMMA ClockFacts ==
  ASSUME NEW c, NEW u, NEW n, IsClient(c, u, n), NEW op, IsEdit(op, ListFields)
  PROVE  LET time == Larger(c.lamport, op.lamport) IN
         /\ time \in Nat /\ c.lamport <= time /\ op.lamport <= time
         /\ NotAfter(c.serverState, time) /\ MadeBy(c.pending, time)
<1> DEFINE time == Larger(c.lamport, op.lamport)
<1>1. /\ c.lamport \in Nat /\ op.lamport \in Nat
      /\ IsDoc(c.serverState) /\ NotAfter(c.serverState, c.lamport)
      /\ \A k \in 1 .. Len(c.pending) : IsForm(c.pending[k], ListFields) /\ c.pending[k].lamport <= c.lamport
  BY DEF IsClient, IsEdit
<1>2. time \in Nat /\ c.lamport <= time /\ op.lamport <= time
  BY <1>1, LargerFacts
<1> HIDE DEF time
<1>3. \A i \in DOMAIN c.serverState :
        c.serverState[i].updatedAt \in Nat /\ c.serverState[i].updatedAt <= c.lamport
  BY <1>1 DEF IsDoc, IsDrawable, NotAfter
<1>4. \A k \in 1 .. Len(c.pending) : c.pending[k].lamport \in Nat /\ c.pending[k].lamport <= c.lamport
  BY <1>1 DEF IsForm
<1>5. \A l \in Nat : l <= c.lamport => l <= time
  BY <1>1, <1>2
<1>6. NotAfter(c.serverState, time) /\ MadeBy(c.pending, time)
  BY <1>3, <1>4, <1>5 DEF NotAfter, MadeBy
<1> QED BY <1>2, <1>6 DEF time

LEMMA EchoFacts ==
  ASSUME NEW c, NEW u, NEW n, IsClient(c, u, n), NEW op, IsEdit(op, ListFields),
         op.type = "add" => op.shape.updatedAt = 0
  PROVE  IsAfterOp(OnEcho(c, op), c, u, n, op)
<1> DEFINE d == OnEcho(c, op)
           s == Apply(c.serverState, op)
           p == After(c.pending, op.clientSeq)
           time == Larger(c.lamport, op.lamport)
<1>1. /\ time \in Nat /\ c.lamport <= time /\ op.lamport <= time
      /\ NotAfter(c.serverState, time) /\ MadeBy(c.pending, time)
  BY ClockFacts
<1>2. d = [userId |-> c.userId, serverState |-> s, pending |-> p, lamport |-> time,
           clientSeq |-> c.clientSeq]
  BY DEF OnEcho
<1>3. IsDoc(c.serverState) /\ IsForm(op, ListFields) /\ IsSequence(c.pending)
      /\ c.userId = u /\ c.clientSeq \in 0 .. n
  BY DEF IsClient, IsForm, IsEdit
<1> HIDE DEF d, time, s, p
<1>4. IsDoc(s) /\ \A i \in DOMAIN s : i \in DOMAIN c.serverState \/ (op.type = "add" /\ i = op.id)
  BY <1>3, ApplyFacts DEF s
<1>5. NotAfter(s, time)
  <2>1. op.type = "add" => op.shape.updatedAt <= time
    BY <1>1
  <2> QED BY <1>1, <1>3, <2>1, ApplyNotAfter DEF s
<1>6. IsSequence(p) /\ \A j \in 1 .. Len(p) : \E k \in 1 .. Len(c.pending) : p[j] = c.pending[k]
  BY <1>3, AfterFacts DEF p, PartOf
<1>7. ASSUME NEW j \in 1 .. Len(p)
      PROVE  /\ IsForm(p[j], ListFields) /\ p[j].lamport <= time /\ p[j].clientSeq \in 1 .. c.clientSeq
             /\ p[j].type # "noop" =>
                  \E k \in 1 .. Len(c.pending) : c.pending[k].type # "noop" /\ c.pending[k].id = p[j].id
  <2>1. PICK k \in 1 .. Len(c.pending) : p[j] = c.pending[k]
    BY <1>6
  <2>2. IsForm(c.pending[k], ListFields) /\ c.pending[k].lamport <= time
        /\ c.pending[k].clientSeq \in 1 .. c.clientSeq
    BY <1>1 DEF IsClient, MadeBy
  <2> QED BY <2>1, <2>2
<1>8. NamesKept(p, c.pending)
  BY <1>7 DEF NamesKept
<1>9. /\ d.userId = u /\ d.serverState = s /\ d.pending = p /\ d.lamport = time
      /\ d.clientSeq = c.clientSeq
      /\ d = [userId |-> u, serverState |-> d.serverState, pending |-> d.pending,
              lamport |-> d.lamport, clientSeq |-> d.clientSeq]
  BY <1>2, <1>3
<1>10. IsClient(d, u, n)
  BY <1>1, <1>3, <1>4, <1>5, <1>6, <1>7, <1>9 DEF IsClient
<1> QED BY <1>4, <1>8, <1>9, <1>10 DEF IsAfterOp, d

LEMMA RemoteFacts ==
  ASSUME NEW c, NEW u, NEW n, IsClient(c, u, n), NEW op, IsEdit(op, ListFields),
         op.type = "add" => op.shape.updatedAt = 0
  PROVE  IsAfterOp(OnRemote(c, op), c, u, n, op)
<1> DEFINE d == OnRemote(c, op)
           walk == Rebase(c.pending, op)
           r == walk.remote
           p == walk.rebased
           s == Apply(c.serverState, r)
           time == Larger(c.lamport, op.lamport)
<1>1. /\ time \in Nat /\ c.lamport <= time /\ op.lamport <= time
      /\ NotAfter(c.serverState, time) /\ MadeBy(c.pending, time)
  BY ClockFacts
<1>2. d = [userId |-> c.userId, serverState |-> s, pending |-> p, lamport |-> time,
           clientSeq |-> c.clientSeq]
  BY DEF OnRemote
<1>3. /\ IsDoc(c.serverState) /\ IsForm(op, ListFields) /\ AreForms(c.pending, ListFields)
      /\ c.userId = u /\ c.clientSeq \in 0 .. n
      /\ op.type = "add" => op.shape.updatedAt <= time
  BY <1>1 DEF IsClient, IsForm, IsEdit, AreForms
<1> HIDE DEF d, time, walk, s
<1>4. /\ IsForm(r, ListFields) /\ r.lamport = op.lamport
      /\ r.type # "noop" => r.type = op.type /\ r.id = op.id
      /\ r.type = "add" => r.shape.updatedAt <= time
      /\ AreForms(p, ListFields) /\ SameOps(p, c.pending)
  BY <1>1, <1>3, RebaseFacts DEF walk
<1> HIDE DEF r, p
<1>5. IsDoc(s) /\ \A i \in DOMAIN s : i \in DOMAIN c.serverState \/ (r.type = "add" /\ i = r.id)
  BY <1>3, <1>4, ApplyFacts DEF s
<1>6. NotAfter(s, time)
  <2>1. r.lamport <= time
    BY <1>1, <1>4
  <2> QED BY <1>1, <1>3, <1>4, <2>1, ApplyNotAfter DEF s
<1>7. ASSUME NEW j \in 1 .. Len(p)
      PROVE  /\ IsForm(p[j], ListFields) /\ p[j].lamport <= time /\ p[j].clientSeq \in 1 .. c.clientSeq
             /\ p[j].type # "noop" =>
                  \E k \in 1 .. Len(c.pending) : c.pending[k].type # "noop" /\ c.pending[k].id = p[j].id
  <2>1. /\ j \in 1 .. Len(c.pending) /\ p[j].lamport = c.pending[j].lamport
        /\ p[j].clientSeq = c.pending[j].clientSeq
        /\ p[j].type # "noop" => c.pending[j].type # "noop" /\ c.pending[j].id = p[j].id
    BY <1>4 DEF SameOps
  <2>2. c.pending[j].lamport <= time /\ c.pending[j].clientSeq \in 1 .. c.clientSeq
    BY <1>1, <2>1 DEF IsClient, MadeBy
  <2>3. IsForm(p[j], ListFields)
    BY <1>4 DEF AreForms
  <2> QED BY <2>1, <2>2, <2>3
<1>8. NamesKept(p, c.pending)
  BY <1>7 DEF NamesKept
<1>9. /\ d.userId = u /\ d.serverState = s /\ d.pending = p /\ d.lamport = time
      /\ d.clientSeq = c.clientSeq
      /\ d = [userId |-> u, serverState |-> d.serverState, pending |-> d.pending,
              lamport |-> d.lamport, clientSeq |-> d.clientSeq]
  BY <1>2, <1>3
<1>10. IsClient(d, u, n)
  <2>1. IsSequence(p)
    BY <1>4 DEF AreForms
  <2> QED BY <1>1, <1>3, <1>5, <1>6, <1>7, <1>9, <2>1 DEF IsClient
<1>11. \A i \in DOMAIN s : i \in DOMAIN c.serverState \/ (op.type = "add" /\ i = op.id)
  BY <1>4, <1>5
<1> QED BY <1>8, <1>9, <1>10, <1>11 DEF IsAfterOp, d

LEMMA ReceiveOpFacts ==
  ASSUME IInv, NEW t \in Tabs, Receive(t), Loaded(t)
  PROVE  /\ t \in live /\ IsSequence(down[t]) /\ down[t] # <<>>
         /\ seen[t] \in Nat /\ seen[t] + 1 = serverSeq - Len(down[t]) + 1
         /\ IsUpdate(down[t][1], seen[t] + 1)
         /\ ot' = [ot EXCEPT ![t] = OnServerOp(@, down[t][1].op)]
         /\ seen' = [seen EXCEPT ![t] = seen[t] + 1]
         /\ unacked' = [unacked EXCEPT ![t] = IF down[t][1].from = t THEN Tail(@) ELSE @]
         /\ down' = [down EXCEPT ![t] = Tail(@)]
         /\ UNCHANGED <<board, sockets, up, rejects, ghost>>
<1>1. BoardInv /\ ClientInv(t) /\ DownInv(t) /\ down[t] # <<>>
  BY DEF IInv, Receive, Part
<1>2. t \in live /\ IsSequence(down[t]) /\ seen[t] \in Nat /\ serverSeq \in Nat
      /\ seen[t] = serverSeq - Len(down[t])
  BY <1>1 DEF BoardInv, ClientInv, DownInv
<1>3. Len(down[t]) \in Nat /\ Len(down[t]) >= 1 /\ Head(down[t]) = down[t][1]
  BY <1>1, <1>2, TailFacts DEF IsSequence
<1>4. IsUpdate(down[t][1], seen[t] + 1)
  <2>1. 1 \in 1 .. Len(down[t]) /\ serverSeq - Len(down[t]) + 1 = seen[t] + 1
    BY <1>2, <1>3
  <2>2. IsUpdate(down[t][1], serverSeq - Len(down[t]) + 1)
    BY <1>1, <2>1 DEF DownInv
  <2> QED BY <2>1, <2>2, Zenon
<1>5. down[t][1].type = "op" /\ down[t][1].op.serverSeq = seen[t] + 1
  BY <1>4 DEF IsUpdate
<1>6. /\ ot' = [ot EXCEPT ![t] = OnServerOp(@, down[t][1].op)]
      /\ seen' = [seen EXCEPT ![t] = seen[t] + 1]
      /\ unacked' = [unacked EXCEPT ![t] = IF down[t][1].from = t THEN Tail(@) ELSE @]
  BY <1>3, <1>5 DEF Receive
<1>7. /\ down' = [down EXCEPT ![t] = Tail(@)]
      /\ UNCHANGED <<board, sockets, up, rejects, ghost>>
  BY DEF Receive
<1> QED BY <1>1, <1>2, <1>4, <1>6, <1>7

LEMMA ReceiveOpIInv ==
  ASSUME IInv, NEW t \in Tabs, Receive(t), Loaded(t)
  PROVE  IInv' /\ Loaded(t)'
<1>1. BoardInv /\ Part(t) /\ ClientInv(t) /\ UpInv(t) /\ DownInv(t) /\ IdInv(t)
  BY DEF IInv, Part
<1>2. PICK m, n : m = down[t][1] /\ n = seen[t] + 1
  OBVIOUS
<1> DEFINE c == ot[t]
           d == OnServerOp(c, m.op)
<1>3. /\ live' = live /\ opened' = opened /\ up' = up /\ rejects' = rejects /\ serverSeq' = serverSeq
      /\ versions' = versions /\ ServerStays /\ ot'[t] = d /\ seen'[t] = n
      /\ down'[t] = Tail(down[t]) /\ down[t] # <<>> /\ n = serverSeq - Len(down[t]) + 1
  BY <1>1, <1>2, ReceiveOpFacts DEF board, sockets, ServerStays, BoardInv
<1>4. OnlyAt(t) /\ Domains'
  BY <1>1, <1>3, ReceiveOpFacts DEF BoardInv, OnlyAt, Stays, Domains
<1>5. live' \subseteq Tabs /\ opened' \subseteq Tabs /\ rejects' \in 0 .. MaxRejects
  BY <1>1, <1>3 DEF BoardInv
<1>6. IsUpdate(m, n) /\ n \in 1 .. serverSeq /\ serverSeq \in Nat
  BY <1>1, <1>2, ReceiveOpFacts DEF IsUpdate, BoardInv
<1>7. IsAfterOp(d, c, UserOf[t], MaxEdits[t], m.op)
  <2>1. IsClient(c, UserOf[t], MaxEdits[t])
    BY <1>1, ReceiveOpFacts DEF ClientInv
  <2>2. IsEdit(m.op, ListFields) /\ (m.op.type = "add" => m.op.shape.updatedAt = 0)
    BY <1>6 DEF IsUpdate
  <2>3. d = OnEcho(c, m.op) \/ d = OnRemote(c, m.op)
    BY DEF OnServerOp
  <2> HIDE DEF c, d
  <2> QED BY <2>1, <2>2, <2>3, EchoFacts, RemoteFacts
<1> HIDE DEF d
<1>8. Loaded(t)'
  BY <1>3, <1>7, IsLoaded DEF Loaded, IsAfterOp
<1>9. ClientInv(t)'
  <2>1. IsClient(d, UserOf[t], MaxEdits[t]) /\ n \in 0 .. serverSeq
    BY <1>6, <1>7 DEF IsAfterOp
  <2>2. t \in opened
    BY <1>1 DEF ClientInv
  <2> QED BY <1>1, <1>3, <2>1, <2>2 DEF ClientInv
<1>10. UpInv(t)'
  <2>1. ot'[t].clientSeq = ot[t].clientSeq
    BY <1>3, <1>7 DEF IsAfterOp
  <2> QED BY <1>1, <1>3, <1>8, <2>1 DEF UpInv
<1>11. DownInv(t)'
  BY <1>1, <1>3, <1>8, DownShifts
<1>12. IdInv(t)'
  <2>1. Past(serverSeq)' = Past(serverSeq) /\ Past(n)' = Past(n)
    BY <1>3 DEF Past
  <2>2. seen[t] \in Nat /\ n \in Nat /\ seen[t] <= n
    BY <1>2, ReceiveOpFacts
  <2>3. Past(seen[t]) \subseteq Past(n) /\ DOMAIN versions[n] \subseteq Past(n)
    BY <2>2, PastGrows
  <2>4. m.op.type = "add" => m.op.id \in DOMAIN versions[n]
    <3>1. /\ versions[n] = Apply(versions[n - 1], m.op) /\ IsForm(m.op, ListFields)
          /\ IsDoc(versions[n - 1])
      BY <1>1, <1>6 DEF IsUpdate, IsForm, IsEdit, BoardInv
    <3> QED BY <3>1, ApplyFacts
  <2>5. DOMAIN ot'[t].serverState \subseteq Past(n)
    BY <1>1, <1>3, <1>7, <2>3, <2>4, ReceiveOpFacts DEF IsAfterOp, IdInv
  <2>6. ASSUME NEW k \in 1 .. Len(ot'[t].pending), ot'[t].pending[k].type # "noop"
        PROVE  ot'[t].pending[k].id \in Past(n) \cup IdsOf(t)
    <3>1. PICK j \in 1 .. Len(c.pending) :
            c.pending[j].type # "noop" /\ c.pending[j].id = d.pending[k].id
      BY <1>3, <1>7, <2>6 DEF IsAfterOp, NamesKept
    <3>2. c.pending[j].id \in Past(seen[t]) \cup IdsOf(t)
      BY <1>1, <3>1 DEF IdInv
    <3> QED BY <1>3, <2>3, <3>1, <3>2
  <2>7. ot'[t].clientSeq = ot[t].clientSeq
    BY <1>3, <1>7 DEF IsAfterOp
  <2> QED BY <1>1, <1>3, <1>8, <2>1, <2>5, <2>6, <2>7 DEF IdInv
<1> QED BY <1>3, <1>4, <1>5, <1>8, <1>9, <1>10, <1>11, <1>12, StepOfOne DEF Part

-------------------------------------------------------------------------------
(* The turn of an op at the server, which every tab notices *)

\* What t's first op in flight becomes, and all it changes.
Served(t, op) ==
  /\ up[t] # <<>>
  /\ IsEdit(op, ListFields) /\ SameEdit(op, up[t][1]) /\ op.serverSeq = serverSeq + 1
  /\ op.clientId = UserOf[t] /\ op.clientSeq = up[t][1].clientSeq /\ lamport <= op.lamport
  /\ op.type = "add" => op.shape.updatedAt = 0 /\ op.id = <<t, op.clientSeq>>
  /\ lamport' = op.lamport /\ serverSeq' = serverSeq + 1 /\ doc' = Apply(doc, op)
  /\ DOMAIN versions' = 0 .. serverSeq + 1 /\ versions'[serverSeq + 1] = Apply(doc, op)
  /\ \A n \in 0 .. serverSeq : versions'[n] = versions[n]
  /\ DOMAIN down' = Tabs /\ \A x \in Tabs \ live : down'[x] = down[x]
  /\ \A x \in live : down'[x] = Append(down[x], [type |-> "op", op |-> op, from |-> t])
  /\ up' = [up EXCEPT ![t] = Tail(@)]
  /\ UNCHANGED <<opened, live, ot, rejects, seen, unacked, ghost>>

LEMMA IsServed ==
  ASSUME IInv, NEW t \in Tabs, ServerOp(t)
  PROVE  \E op : Served(t, op)
<1>1. BoardInv /\ UpInv(t) /\ up[t] # <<>> /\ live \subseteq Tabs
  BY DEF IInv, Part, ServerOp, BoardInv
<1>2. PICK u : u = Head(up[t])
  OBVIOUS
<1> DEFINE op == Override(u, [lamport |-> Larger(lamport, u.lamport) + 1, serverSeq |-> serverSeq + 1])
<1>3. u = up[t][1] /\ IsOwnEdit(u, t)
  BY <1>1, <1>2, TailFacts DEF UpInv, IsSequence
<1>4. /\ lamport \in Nat /\ serverSeq \in Nat /\ u.lamport \in Nat /\ IsEdit(u, ListFields)
      /\ u.clientId = UserOf[t]
      /\ u.type = "add" => u.shape.updatedAt = 0 /\ u.id = <<t, u.clientSeq>>
  BY <1>1, <1>3 DEF BoardInv, IsOwnEdit, IsEdit
<1>5. PICK time \in Nat : time = Larger(lamport, u.lamport) + 1 /\ lamport <= time /\ u.lamport <= time
  <2>1. PICK l : l = Larger(lamport, u.lamport)
    OBVIOUS
  <2>2. l \in Nat /\ l >= lamport /\ l >= u.lamport
    BY <1>4, <2>1, LargerFacts
  <2>3. l + 1 \in Nat /\ lamport <= l + 1 /\ u.lamport <= l + 1
    BY <1>4, <2>2
  <2> QED BY <2>1, <2>3
<1>6. /\ IsEdit(op, ListFields) /\ op.lamport = time /\ op.serverSeq = serverSeq + 1
      /\ op.type = u.type /\ op.id = u.id /\ op.clientId = u.clientId /\ op.clientSeq = u.clientSeq
      /\ u.type = "add" => op.shape = u.shape
      /\ u.type = "patch" => op.patch = u.patch
  BY <1>3, <1>5, ServerStamps
<1>7. /\ lamport' = op.lamport /\ serverSeq' = op.serverSeq /\ doc' = Apply(doc, op)
      /\ down' = Broadcast(live, t, op) /\ versions' = Override(versions, [n \in {op.serverSeq} |-> doc'])
      /\ up' = [up EXCEPT ![t] = Tail(@)]
      /\ UNCHANGED <<opened, live, ot, rejects, seen, unacked, ghost>>
  BY <1>2 DEF ServerOp, sockets
<1> HIDE DEF op
<1>8. /\ DOMAIN versions' = 0 .. serverSeq + 1 /\ versions'[serverSeq + 1] = Apply(doc, op)
      /\ \A n \in 0 .. serverSeq : versions'[n] = versions[n]
  <2>1. DOMAIN versions = 0 .. serverSeq /\ 0 .. serverSeq + 1 = (0 .. serverSeq) \cup {serverSeq + 1}
        /\ serverSeq + 1 \notin 0 .. serverSeq
    BY <1>1, <1>4 DEF BoardInv
  <2> QED BY <1>6, <1>7, <2>1 DEF Override
<1>9. /\ DOMAIN down' = Tabs /\ \A x \in Tabs \ live : down'[x] = down[x]
      /\ \A x \in live : down'[x] = Append(down[x], [type |-> "op", op |-> op, from |-> t])
  BY <1>1, <1>7 DEF Broadcast, SendOp
<1>10. SameEdit(op, up[t][1])
  BY <1>3, <1>4, <1>5, <1>6 DEF SameEdit
<1>11. op.type = "add" => op.shape.updatedAt = 0 /\ op.id = <<t, op.clientSeq>>
  BY <1>4, <1>6
<1>12. /\ op.clientId = UserOf[t] /\ op.clientSeq = up[t][1].clientSeq /\ lamport <= op.lamport
       /\ serverSeq' = serverSeq + 1
  BY <1>3, <1>4, <1>5, <1>6, <1>7
<1>13. Served(t, op)
  BY <1>1, <1>6, <1>7, <1>8, <1>9, <1>10, <1>11, <1>12 DEF Served
<1> QED BY <1>13

LEMMA StillNotAfter ==
  ASSUME NEW d, IsDoc(d), NEW m \in Nat, NEW n \in Nat, m <= n, NotAfter(d, m)
  PROVE  NotAfter(d, n)
<1>1. \A i \in DOMAIN d : d[i].updatedAt \in Nat
  BY DEF IsDoc, IsDrawable
<1> QED BY <1>1 DEF NotAfter

LEMMA ServedBoard ==
  ASSUME BoardInv, NEW t \in Tabs, NEW op, Served(t, op)
  PROVE  BoardInv' /\ Grows
<1>1. /\ serverSeq \in Nat /\ lamport \in Nat /\ lamport <= op.lamport /\ op.lamport \in Nat
      /\ IsDoc(doc) /\ NotAfter(doc, lamport) /\ doc = versions[serverSeq]
  BY DEF BoardInv, Served, IsEdit
<1>2. IsDoc(Apply(doc, op)) /\ NotAfter(Apply(doc, op), op.lamport)
  <2>1. IsForm(op, ListFields) /\ (op.type = "add" => op.shape.updatedAt <= op.lamport)
    BY <1>1 DEF Served, IsForm
  <2>2. NotAfter(doc, op.lamport)
    BY <1>1, StillNotAfter
  <2> QED BY <1>1, <2>1, <2>2, ApplyFacts, ApplyNotAfter
<1>3. ASSUME NEW n \in 0 .. serverSeq + 1
      PROVE  IsDoc(versions'[n]) /\ NotAfter(versions'[n], op.lamport)
  <2>1. CASE n = serverSeq + 1
    BY <1>2, <2>1 DEF Served
  <2>2. CASE n \in 0 .. serverSeq
    <3>1. versions'[n] = versions[n] /\ IsDoc(versions[n]) /\ NotAfter(versions[n], lamport)
      BY <2>2 DEF Served, BoardInv
    <3>2. NotAfter(versions[n], op.lamport)
      BY <1>1, <3>1, StillNotAfter
    <3> QED BY <3>1, <3>2
  <2> QED BY <1>1, <2>1, <2>2
<1>4. DOMAIN up' = Tabs
  BY DEF Served, BoardInv
<1> QED BY <1>1, <1>3, <1>4 DEF BoardInv, Served, Grows

\* No two shapes have one id: the id of an add is new to the board.
LEMMA ServedId ==
  ASSUME NEW t \in Tabs, Part(t), NEW op, Served(t, op), op.type = "add"
  PROVE  op.id \in IdsOf(t) /\ op.id \notin Past(serverSeq)
<1>1. /\ op.id = <<t, op.clientSeq>> /\ op.clientSeq = up[t][1].clientSeq
      /\ up[t] # <<>>
  BY DEF Served
<1>2. UpInv(t) /\ IdInv(t) /\ ClientInv(t) /\ Loaded(t)
  BY <1>1 DEF Part, UpInv
<1>3. ot[t].clientSeq \in 0 .. MaxEdits[t] /\ MaxEdits[t] \in Nat
  BY <1>2, BoundAssumption DEF ClientInv, IsClient
<1>4. Len(up[t]) \in Nat /\ 1 \in 1 .. Len(up[t])
  BY <1>1, <1>2, TailFacts DEF UpInv, IsSequence
<1>5. op.clientSeq \in 1 .. ot[t].clientSeq /\ op.clientSeq \in 1 .. MaxEdits[t]
  BY <1>1, <1>2, <1>3, <1>4 DEF UpInv
<1>6. op.id \in IdsOf(t)
  BY <1>1, <1>3, <1>5 DEF IdsOf
<1>7. ASSUME <<t, op.clientSeq>> \in Past(serverSeq) PROVE FALSE
  <2>1. op.clientSeq < up[t][1].clientSeq
    BY <1>2, <1>3, <1>4, <1>5, <1>7 DEF IdInv
  <2> QED BY <1>1, <1>5, <2>1
<1> QED BY <1>1, <1>6, <1>7

LEMMA ServerOpIInv ==
  ASSUME IInv, NEW t \in Tabs, NEW op, Served(t, op)
  PROVE  IInv'
<1>1. BoardInv /\ Part(t) /\ BoardInv' /\ Grows /\ serverSeq \in Nat
  BY ServedBoard DEF IInv, BoardInv
<1>2. PICK m, n : n = serverSeq /\ m = [type |-> "op", op |-> op, from |-> t]
  OBVIOUS
<1>3. /\ n \in Nat /\ serverSeq = n /\ serverSeq' = n + 1 /\ n \in 0 .. serverSeq
      /\ m.type = "op" /\ m.op = op /\ m.from = t
  BY <1>1, <1>2 DEF Served
<1>4. IsUpdate(m, n + 1)'
  <2>1. /\ n + 1 \in 1 .. serverSeq' /\ op.serverSeq = n + 1 /\ IsEdit(op, ListFields)
        /\ op.clientId = UserOf[t]
        /\ versions'[n + 1] = Apply(versions[n], op) /\ versions'[n] = versions[n]
    BY <1>1, <1>3 DEF Served, BoardInv
  <2>2. op.type = "add" => op.shape.updatedAt = 0 /\ op.id \in IdsOf(t) /\ op.id \notin Past(n)'
    BY <1>1, <1>3, ServedId, PastKept DEF Served
  <2>3. (n + 1) - 1 = n
    BY <1>3
  <2> QED BY <1>3, <2>1, <2>2, <2>3 DEF IsUpdate
<1>5. Past(n + 1)' \subseteq Past(n) \cup {i \in {op.id} : op.type = "add"}
  <2>1. 0 .. n + 1 = (0 .. n) \cup {n + 1} /\ \A k \in 0 .. n : versions'[k] = versions[k]
    BY <1>3 DEF Served
  <2>2. DOMAIN versions'[n + 1] \subseteq DOMAIN versions[n] \cup {i \in {op.id} : op.type = "add"}
    <3>1. versions'[n + 1] = Apply(versions[n], op) /\ IsDoc(versions[n]) /\ IsForm(op, ListFields)
      BY <1>1, <1>3 DEF Served, BoardInv, IsForm, IsEdit
    <3> QED BY <3>1, ApplyFacts
  <2>3. DOMAIN versions[n] \subseteq Past(n)
    BY <1>3, PastGrows
  <2> QED BY <2>1, <2>2, <2>3 DEF Past
<1>6. ASSUME NEW x \in Tabs PROVE Part(x)'
  <2>1. ClientInv(x) /\ UpInv(x) /\ DownInv(x) /\ IdInv(x) /\ Stays(x)
    BY DEF IInv, Part, Stays, Served
  <2>2. ClientInv(x)'
    BY <1>1, <2>1, ClientKept
  <2>3. /\ UpInv(x)'
        /\ x # t => up'[x] = up[x]
        /\ x = t => /\ Len(up'[t]) = Len(up[t]) - 1 /\ Len(up[t]) \in Nat
                    /\ \A k \in 1 .. Len(up'[t]) : up'[t][k] = up[t][k + 1]
    <3>1. CASE x # t
      <4>1. up'[x] = up[x]
        BY <1>1, <3>1 DEF Served, BoardInv
      <4> QED BY <2>1, <3>1, <4>1, UpKept
    <3>2. CASE x = t
      <4>1. up'[t] = Tail(up[t]) /\ up[t] # <<>> /\ ot'[t] = ot[t]
        BY <1>1 DEF Served, BoardInv
      <4> QED BY <2>1, <3>2, <4>1, UpShifts
    <3> QED BY <3>1, <3>2
  <2>4. DownInv(x)'
    <3>1. CASE x \notin live
      <4>1. down'[x] = <<>> /\ x \notin live' /\ ~Loaded(x)' = ~Loaded(x)
        BY <2>1, <3>1 DEF Served, DownInv, Stays, Loaded
      <4> QED BY <4>1 DEF DownInv, IsSequence
    <3>2. CASE x \in live
      <4>1. down'[x] = Append(down[x], m) /\ IsSequence(down[x]) /\ Len(down[x]) \in Nat
        BY <1>2, <2>1, <3>2 DEF Served, DownInv, IsSequence
      <4>2. PICK l : l = Len(down[x])
        OBVIOUS
      <4>3. /\ IsSequence(down'[x]) /\ Len(down'[x]) = l + 1 /\ down'[x][l + 1] = m
            /\ l \in Nat /\ \A j \in 1 .. l : down'[x][j] = down[x][j]
        BY <4>1, <4>2, AppendFacts
      <4>4. /\ x \in live' /\ (Loaded(x)' <=> Loaded(x)) /\ (~Loaded(x) => l >= 1)
            /\ Loaded(x) => seen'[x] = serverSeq' - (l + 1)
            /\ ~Loaded(x) => seen'[x] = serverSeq' - (l + 1) + 1
        <5>1. ~Loaded(x) => l >= 1
          BY <2>1, <3>2, <4>1, <4>2, SequenceOfLengthZero DEF DownInv
        <5>2. /\ Loaded(x) => seen[x] = n - l
              /\ ~Loaded(x) => seen[x] = n - l + 1
          BY <1>3, <2>1, <3>2, <4>2 DEF DownInv
        <5>3. seen'[x] = seen[x] /\ (Loaded(x)' <=> Loaded(x)) /\ x \in live'
          BY <2>1, <3>2 DEF Stays, Loaded
        <5>4. n - l = (n + 1) - (l + 1)
          BY <1>3, <4>3
        <5> QED BY <1>3, <5>1, <5>2, <5>3, <5>4
      <4>5. ASSUME NEW j \in 1 .. l + 1
            PROVE  (IF j = 1 /\ ~Loaded(x)
                      THEN IsWelcome(down[x][j], serverSeq - Len(down[x]) + j)
                      ELSE IsUpdate(down[x][j], serverSeq - Len(down[x]) + j))'
        <5>1. PICK k : k = n - l + j
          OBVIOUS
        <5>2. serverSeq' - Len(down'[x]) + j = k
          BY <1>3, <4>3, <5>1
        <5>3. CASE j = l + 1
          <6>1. down'[x][j] = m /\ k = n + 1 /\ ~(j = 1 /\ ~Loaded(x))
            BY <1>3, <4>3, <4>4, <5>1, <5>3
          <6>2. IsUpdate(m, k)'
            BY <1>4, <6>1
          <6> QED BY <4>4, <5>2, <6>1, <6>2
        <5>4. CASE j \in 1 .. l
          <6>1. PICK q : q = down[x][j]
            OBVIOUS
          <6>2. IF j = 1 /\ ~Loaded(x) THEN IsWelcome(q, k) ELSE IsUpdate(q, k)
            BY <1>3, <2>1, <4>2, <5>1, <5>4, <6>1 DEF DownInv
          <6>3. IF j = 1 /\ ~Loaded(x) THEN IsWelcome(q, k)' ELSE IsUpdate(q, k)'
            BY <1>1, <6>2, MessagesKept
          <6>4. down'[x][j] = q
            BY <4>3, <5>4, <6>1
          <6> QED BY <4>4, <5>2, <6>3, <6>4
        <5> QED BY <4>3, <5>3, <5>4
      <4> QED BY <4>3, <4>4, <4>5 DEF DownInv
    <3> QED BY <3>1, <3>2
  <2>5. IdInv(x)'
    <3>1. ASSUME NEW c \in 1 .. MaxEdits[x], <<x, c>> \in Past(serverSeq)'
          PROVE  Loaded(x) /\ c <= ot[x].clientSeq /\ \A k \in 1 .. Len(up'[x]) : c < up'[x][k].clientSeq
      <4>1. <<x, c>> \in Past(n) \/ (op.type = "add" /\ <<x, c>> = op.id)
        BY <1>3, <1>5, <3>1
      <4>2. CASE <<x, c>> \in Past(n)
        <5>1. Loaded(x) /\ c <= ot[x].clientSeq /\ \A k \in 1 .. Len(up[x]) : c < up[x][k].clientSeq
          BY <1>3, <2>1, <4>2 DEF IdInv
        <5>2. ASSUME \A k \in 1 .. Len(up[x]) : c < up[x][k].clientSeq
              PROVE  \A k \in 1 .. Len(up'[x]) : c < up'[x][k].clientSeq
          <6>1. CASE x # t
            BY <2>3, <5>2, <6>1
          <6>2. CASE x = t
            <7>1. \A k \in 1 .. Len(up'[t]) : k + 1 \in 1 .. Len(up[t])
              BY <2>3, <6>2
            <7> QED BY <2>3, <5>2, <6>2, <7>1
          <6> QED BY <6>1, <6>2
        <5> QED BY <5>1, <5>2
      <4>3. CASE op.type = "add" /\ <<x, c>> = op.id
        <5>1. x = t /\ c = up[t][1].clientSeq /\ up[t] # <<>>
          BY <4>3 DEF Served
        <5>2. Len(up[t]) >= 1 /\ Len(up[t]) \in Nat /\ Loaded(t)
          BY <2>1, <5>1, TailFacts DEF UpInv, IsSequence
        <5>3. c <= ot[t].clientSeq
          <6>1. up[t][1].clientSeq \in 1 .. ot[t].clientSeq /\ ot[t].clientSeq \in Nat
            BY <2>1, <5>1, <5>2 DEF UpInv, ClientInv, IsClient
          <6> QED BY <5>1, <6>1
        <5>4. ASSUME NEW k \in 1 .. Len(up'[t]) PROVE c < up'[t][k].clientSeq
          <6>1. k + 1 \in 1 .. Len(up[t]) /\ 1 \in 1 .. Len(up[t]) /\ 1 < k + 1 /\ up'[t][k] = up[t][k + 1]
            BY SMTT(30), <2>3, <5>1, <5>2
          <6> QED BY <2>1, <5>1, <6>1 DEF UpInv
        <5> QED BY <5>1, <5>2, <5>3, <5>4
      <4> QED BY <4>1, <4>2, <4>3
    <3>2. /\ ot'[x] = ot[x] /\ seen'[x] = seen[x] /\ (Loaded(x)' <=> Loaded(x))
          /\ seen[x] \in 0 .. serverSeq
      BY <2>1 DEF Stays, Loaded, ClientInv
    <3>3. Past(seen[x])' = Past(seen[x])
      BY <1>1, <3>2, PastKept
    <3> QED BY <2>1, <3>1, <3>2, <3>3 DEF IdInv
  <2> QED BY <2>2, <2>3, <2>4, <2>5 DEF Part
<1> QED BY <1>1, <1>6 DEF IInv

-------------------------------------------------------------------------------
(* The first part holds throughout *)

\* No step leads out of IInv: whoever the users are, whatever is refused, and whenever
\* a page is loaded or left (useRoom.ts:58-163, room.ts:98-140, otClient.ts:36-94).
THEOREM StepIInv == IInv /\ [Next]_vars => IInv'
<1> SUFFICES ASSUME IInv, [Next]_vars PROVE IInv'
  OBVIOUS
<1>1. ASSUME NEW t \in Tabs, Open(t) PROVE IInv'
  BY <1>1, OpenIInv
<1>2. ASSUME NEW t \in Tabs, Close(t) PROVE IInv'
  BY <1>2, CloseIInv
<1>3. ASSUME NEW t \in Tabs, Edit(t) PROVE IInv'
  BY <1>3, EditIInv
<1>4. ASSUME NEW t \in Tabs, Receive(t) PROVE IInv'
  BY <1>4, WelcomeIInv, ReceiveOpIInv
<1>5. ASSUME NEW t \in Tabs, ServerOp(t) PROVE IInv'
  BY <1>5, IsServed, ServerOpIInv
<1>6. ASSUME NEW t \in Tabs, ServerReject(t) PROVE IInv'
  BY <1>6, RejectIInv
<1>7. CASE UNCHANGED vars
  <2>1. /\ UNCHANGED <<doc, lamport, serverSeq, opened, live, versions>>
        /\ UNCHANGED <<up, down, ot, rejects, seen, unacked, ghost>>
    BY <1>7 DEF vars, board, sockets
  <2>2. BoardInv /\ BoardInv'
    BY <2>1 DEF IInv, BoardInv
  <2>3. ASSUME NEW x \in Tabs PROVE Part(x)'
    BY <2>1, <2>2, Elsewhere DEF IInv, ServerStays, Stays
  <2> QED BY <2>2, <2>3 DEF IInv
<1> QED BY <1>1, <1>2, <1>3, <1>4, <1>5, <1>6, <1>7 DEF Next

THEOREM Invariance == Spec => []IInv
<1>1. Init => IInv
  BY InitIInv
<1>2. IInv /\ [Next]_vars => IInv'
  BY StepIInv
<1> QED BY <1>1, <1>2, PTL DEF Spec

\* The clients, the channels and the history keep the shape that useRoom and
\* handleConnection expect of them.
THEOREM TypeCorrect == Spec => []TypeOK
<1>1. IInv => TypeOK
  <2> SUFFICES ASSUME IInv PROVE TypeOK
    OBVIOUS
  <2>1. /\ opened \subseteq Tabs /\ live \subseteq opened
        /\ lamport \in Nat /\ serverSeq \in Nat /\ rejects \in 0 .. MaxRejects
        /\ DOMAIN versions = 0 .. serverSeq /\ doc = versions[serverSeq]
    BY DEF IInv, BoardInv, Part, ClientInv
  <2>2. ASSUME NEW t \in Tabs
        PROVE  /\ seen[t] \in 0 .. serverSeq
               /\ Loaded(t) => t \in opened
               /\ Loaded(t) =>
                    /\ ot[t].userId = UserOf[t] /\ ot[t].clientSeq \in 0 .. MaxEdits[t]
                    /\ \A i \in DOMAIN ot[t].pending : ot[t].pending[i].clientSeq \in 1 .. ot[t].clientSeq
               /\ \A i \in 1 .. Len(down[t]) : down[t][i].type \in {"welcome", "op"}
    <3>1. ClientInv(t) /\ DownInv(t)
      BY DEF IInv, Part
    <3>2. ASSUME Loaded(t)
          PROVE  /\ ot[t].userId = UserOf[t] /\ ot[t].clientSeq \in 0 .. MaxEdits[t]
                 /\ \A i \in DOMAIN ot[t].pending : ot[t].pending[i].clientSeq \in 1 .. ot[t].clientSeq
      <4>1. IsClient(ot[t], UserOf[t], MaxEdits[t])
        BY <3>1, <3>2 DEF ClientInv
      <4>2. ot[t].userId = UserOf[t] /\ ot[t].clientSeq \in 0 .. MaxEdits[t] /\ IsSequence(ot[t].pending)
        BY <4>1 DEF IsClient
      <4>3. DOMAIN ot[t].pending = 1 .. Len(ot[t].pending)
        BY <4>2 DEF IsSequence
      <4> QED BY <4>1, <4>2, <4>3 DEF IsClient
    <3>3. ASSUME NEW i \in 1 .. Len(down[t]) PROVE down[t][i].type \in {"welcome", "op"}
      BY <3>1 DEF DownInv, IsWelcome, IsUpdate
    <3> QED BY <3>1, <3>2, <3>3 DEF ClientInv
  <2> QED BY <2>1, <2>2 DEF TypeOK
<1> QED BY <1>1, Invariance, PTL

\* A tab's stream has no hole and no repetition, however the ops of all tabs interleave
\* and whenever it loads (room.ts:137-140, index.ts:197-215).
THEOREM StreamGapless == Spec => []StreamIsGapless
<1>1. IInv => StreamIsGapless
  <2> SUFFICES ASSUME IInv, NEW t \in Tabs, NEW i \in 1 .. Len(down[t]), down[t][i].type = "op"
               PROVE  down[t][i].op.serverSeq = 1 +
                        (IF i = 1 THEN seen[t]
                         ELSE IF down[t][i - 1].type = "op" THEN down[t][i - 1].op.serverSeq
                         ELSE down[t][i - 1].serverSeq)
    BY DEF StreamIsGapless
  <2>1. DownInv(t) /\ BoardInv /\ ClientInv(t)
    BY DEF IInv, Part
  <2>2. PICK n : n = serverSeq - Len(down[t])
    OBVIOUS
  <2>3. IsSequence(down[t]) /\ Len(down[t]) \in Nat /\ serverSeq \in Nat /\ n \in Int /\ seen[t] \in Nat
    BY <2>1, <2>2 DEF DownInv, BoardInv, IsSequence, ClientInv
  <2>4. \A j \in 1 .. Len(down[t]) :
          IF j = 1 /\ ~Loaded(t) THEN IsWelcome(down[t][j], n + j) ELSE IsUpdate(down[t][j], n + j)
    BY <2>1, <2>2 DEF DownInv
  <2>5. ~(i = 1 /\ ~Loaded(t)) /\ down[t][i].op.serverSeq = n + i
    BY <2>4 DEF IsWelcome, IsUpdate
  <2>6. CASE i = 1
    <3>1. t \in live
      BY <2>1, <2>3 DEF DownInv
    <3>2. seen[t] = n
      BY <2>1, <2>2, <2>5, <2>6, <3>1 DEF DownInv
    <3> QED BY <2>3, <2>5, <2>6, <3>2
  <2>7. CASE i # 1
    <3>1. i - 1 \in 1 .. Len(down[t]) /\ n + i = 1 + (n + (i - 1))
      BY <2>3, <2>7
    <3>2. \/ down[t][i - 1].type = "op" /\ down[t][i - 1].op.serverSeq = n + (i - 1)
          \/ down[t][i - 1].type = "welcome" /\ down[t][i - 1].serverSeq = n + (i - 1)
      BY <2>4, <3>1 DEF IsWelcome, IsUpdate
    <3> QED BY <2>5, <2>7, <3>1, <3>2
  <2> QED BY <2>6, <2>7
<1> QED BY <1>1, Invariance, PTL

\* The clock of a client covers all that it shows, whatever arrives in whatever order
\* (otClient.ts:41, 65): its next patch is later than every patch it has applied.
THEOREM LamportCoversSeen == Spec => []LamportCovers
<1>1. IInv => LamportCovers
  BY DEF IInv, Part, ClientInv, IsClient, NotAfter, LamportCovers
<1> QED BY <1>1, Invariance, PTL

-------------------------------------------------------------------------------
(* What is in flight *)

LEMMA LatestInOrder ==
  ASSUME NEW U, Len(U) \in Nat, NEW n \in Int, AreLatest(U, n)
  PROVE  /\ \A k \in 1 .. Len(U) : U[k].clientSeq \in Int
         /\ \A j, k \in 1 .. Len(U) : j < k => U[j].clientSeq < U[k].clientSeq
         /\ \A j, k \in 1 .. Len(U) : U[j].clientSeq = U[k].clientSeq => j = k
<1>1. \A k \in 1 .. Len(U) : U[k].clientSeq = n - Len(U) + k
  BY DEF AreLatest
<1> QED BY <1>1

\* A local op goes to the end of what is on its way to the server.
LEMMA FlightWithMore ==
  ASSUME NEW U, IsSequence(U), NEW u, IsSequence(u), NEW d, NEW t, InFlight(U, u, d, t), NEW op
  PROVE  InFlight(Append(U, op), Append(u, op), d, t)
<1> DEFINE W == Append(U, op)
           w == Append(u, op)
           e == EchoesIn(d, t)
<1>1. /\ Len(U) \in Nat /\ Len(u) \in Nat /\ Len(W) = Len(U) + 1 /\ Len(w) = Len(u) + 1
      /\ W[Len(U) + 1] = op /\ w[Len(u) + 1] = op
      /\ \A k \in 1 .. Len(U) : W[k] = U[k]
      /\ \A k \in 1 .. Len(u) : w[k] = u[k]
  BY AppendFacts DEF IsSequence
<1> HIDE DEF W, w, e
<1>2. PICK a : a = Len(U) - Len(u)
  OBVIOUS
<1>3. /\ a \in Nat /\ Len(W) - Len(w) = a
      /\ \A k \in 1 .. Len(u) : u[k] = U[a + k]
      /\ \A j \in e : \E k \in 1 .. a : SameEdit(d[j].op, U[k]) /\ d[j].op.clientSeq = U[k].clientSeq
      /\ \A i, j \in e : i < j => d[i].op.clientSeq < d[j].op.clientSeq
      /\ \A k \in 1 .. a : \E j \in e : d[j].op.clientSeq = U[k].clientSeq
  BY <1>1, <1>2 DEF InFlight, e
<1>4. \A k \in 1 .. a : k \in 1 .. Len(U) /\ W[k] = U[k]
  BY <1>1, <1>2, <1>3
<1>5. ASSUME NEW k \in 1 .. Len(w) PROVE w[k] = W[a + k]
  <2>1. CASE k = Len(u) + 1
    BY <1>1, <1>2, <2>1
  <2>2. CASE k \in 1 .. Len(u)
    <3>1. a + k \in 1 .. Len(U)
      BY <1>1, <1>2, <1>3, <2>2
    <3> QED BY <1>1, <1>3, <2>2, <3>1
  <2> QED BY <1>1, <2>1, <2>2
<1>6. ASSUME NEW j \in e
      PROVE  \E k \in 1 .. a : SameEdit(d[j].op, W[k]) /\ d[j].op.clientSeq = W[k].clientSeq
  <2>1. PICK k \in 1 .. a : SameEdit(d[j].op, U[k]) /\ d[j].op.clientSeq = U[k].clientSeq
    BY <1>3, <1>6
  <2> QED BY <1>4, <2>1
<1>7. \A k \in 1 .. a : \E j \in e : d[j].op.clientSeq = W[k].clientSeq
  BY SMTT(30), <1>3, <1>4
<1>8. Len(W) - Len(w) >= 0
  BY <1>3
<1> QED BY <1>3, <1>5, <1>6, <1>7, <1>8 DEF InFlight, W, w, e

\* What remains of the messages after the first.
LEMMA EchoesOfTail ==
  ASSUME NEW d, IsSequence(d), d # <<>>, NEW t
  PROVE  /\ Len(d) \in Nat /\ Len(d) >= 1
         /\ \A j \in EchoesIn(Tail(d), t) :
              j \in Nat /\ j + 1 \in EchoesIn(d, t) /\ j + 1 > 1 /\ Tail(d)[j] = d[j + 1]
         /\ \A j \in EchoesIn(d, t) \ {1} :
              j - 1 \in EchoesIn(Tail(d), t) /\ Tail(d)[j - 1] = d[j]
<1>1. /\ Len(d) \in Nat /\ Len(d) >= 1 /\ Len(Tail(d)) = Len(d) - 1
      /\ \A j \in 1 .. Len(d) - 1 : Tail(d)[j] = d[j + 1]
  BY TailFacts DEF IsSequence
<1>2. ASSUME NEW j \in EchoesIn(Tail(d), t)
      PROVE  j \in Nat /\ j + 1 \in EchoesIn(d, t) /\ j + 1 > 1 /\ Tail(d)[j] = d[j + 1]
  <2>1. j \in 1 .. Len(d) - 1 /\ Tail(d)[j].type = "op" /\ Tail(d)[j].from = t
    BY <1>1 DEF EchoesIn
  <2>2. j \in Nat /\ j + 1 \in 1 .. Len(d) /\ j + 1 > 1 /\ Tail(d)[j] = d[j + 1]
    BY <1>1, <2>1
  <2> QED BY <2>1, <2>2 DEF EchoesIn
<1>3. ASSUME NEW j \in EchoesIn(d, t) \ {1}
      PROVE  j - 1 \in EchoesIn(Tail(d), t) /\ Tail(d)[j - 1] = d[j]
  <2>1. j \in 1 .. Len(d) /\ j # 1 /\ d[j].type = "op" /\ d[j].from = t
    BY DEF EchoesIn
  <2>2. j - 1 \in 1 .. Len(d) - 1 /\ (j - 1) + 1 = j
    BY <1>1, <2>1
  <2>3. Tail(d)[j - 1] = d[j]
    BY <1>1, <2>2
  <2> QED BY <1>1, <2>1, <2>2, <2>3 DEF EchoesIn
<1> QED BY <1>1, <1>2, <1>3

\* Another's op arrives.
LEMMA FlightPassed ==
  ASSUME NEW U, NEW u, NEW d, IsSequence(d), d # <<>>, NEW t, InFlight(U, u, d, t),
         1 \notin EchoesIn(d, t)
  PROVE  InFlight(U, u, Tail(d), t)
<1>1. PICK a : a = Len(U) - Len(u)
  OBVIOUS
<1> DEFINE e == EchoesIn(d, t)
           f == EchoesIn(Tail(d), t)
           g == Tail(d)
<1>2. /\ \A j \in f : j \in Nat /\ j + 1 \in e /\ g[j] = d[j + 1]
      /\ \A j \in e : j - 1 \in f /\ g[j - 1] = d[j]
  BY EchoesOfTail
<1> HIDE DEF e, f, g
<1>3. /\ a >= 0
      /\ \A k \in 1 .. Len(u) : u[k] = U[a + k]
      /\ \A j \in e : \E k \in 1 .. a : SameEdit(d[j].op, U[k]) /\ d[j].op.clientSeq = U[k].clientSeq
      /\ \A i, j \in e : i < j => d[i].op.clientSeq < d[j].op.clientSeq
      /\ \A k \in 1 .. a : \E j \in e : d[j].op.clientSeq = U[k].clientSeq
  BY <1>1 DEF InFlight, e
<1>4. ASSUME NEW j \in f
      PROVE  \E k \in 1 .. a : SameEdit(g[j].op, U[k]) /\ g[j].op.clientSeq = U[k].clientSeq
  BY <1>2, <1>3
<1>5. ASSUME NEW i \in f, NEW j \in f, i < j PROVE g[i].op.clientSeq < g[j].op.clientSeq
  <2>1. i + 1 < j + 1
    BY <1>2, <1>5
  <2> QED BY <1>2, <1>3, <2>1
<1>6. ASSUME NEW k \in 1 .. a PROVE \E j \in f : g[j].op.clientSeq = U[k].clientSeq
  <2>1. PICK j \in e : d[j].op.clientSeq = U[k].clientSeq
    BY <1>3
  <2>2. j - 1 \in f /\ g[j - 1] = d[j]
    BY <1>2
  <2>3. g[j - 1].op.clientSeq = U[k].clientSeq
    BY <2>1, <2>2, Zenon
  <2> QED BY <2>2, <2>3
<1> QED BY <1>1, <1>3, <1>4, <1>5, <1>6 DEF InFlight, f, g

\* One's own op arrives: it is the oldest in flight.
LEMMA FlightAnswered ==
  ASSUME NEW U, IsSequence(U), NEW u, IsSequence(u), NEW d, IsSequence(d), d # <<>>, NEW t,
         InFlight(U, u, d, t), NEW n \in Int, AreLatest(U, n), 1 \in EchoesIn(d, t)
  PROVE  /\ U # <<>> /\ SameEdit(d[1].op, U[1]) /\ d[1].op.clientSeq = U[1].clientSeq
         /\ InFlight(Tail(U), u, Tail(d), t)
<1>1. PICK a : a = Len(U) - Len(u)
  OBVIOUS
<1> DEFINE e == EchoesIn(d, t)
           f == EchoesIn(Tail(d), t)
           g == Tail(d)
           W == Tail(U)
<1>2. /\ \A j \in f : j \in Nat /\ j + 1 \in e /\ j + 1 > 1 /\ g[j] = d[j + 1]
      /\ \A j \in e \ {1} : j - 1 \in f /\ g[j - 1] = d[j]
      /\ \A j \in e : j \in Nat /\ j >= 1
  BY EchoesOfTail DEF EchoesIn
<1> HIDE DEF e, f, g
<1>3. /\ a \in Nat /\ Len(U) \in Nat /\ Len(u) \in Nat /\ a <= Len(U)
      /\ \A k \in 1 .. Len(u) : u[k] = U[a + k]
      /\ \A j \in e : \E k \in 1 .. a : SameEdit(d[j].op, U[k]) /\ d[j].op.clientSeq = U[k].clientSeq
      /\ \A i, j \in e : i < j => d[i].op.clientSeq < d[j].op.clientSeq
      /\ \A k \in 1 .. a : \E j \in e : d[j].op.clientSeq = U[k].clientSeq
  BY <1>1 DEF InFlight, e, IsSequence
<1>4. /\ \A k \in 1 .. Len(U) : U[k].clientSeq \in Int
      /\ \A j, k \in 1 .. Len(U) : j < k => U[j].clientSeq < U[k].clientSeq
      /\ \A j, k \in 1 .. Len(U) : U[j].clientSeq = U[k].clientSeq => j = k
  BY <1>3, LatestInOrder
<1>5. PICK k0 \in 1 .. a : SameEdit(d[1].op, U[k0]) /\ d[1].op.clientSeq = U[k0].clientSeq
  BY <1>3 DEF e
<1>6. a >= 1 /\ 1 \in 1 .. a /\ 1 \in 1 .. Len(U) /\ k0 \in 1 .. Len(U)
  BY SMTT(30), <1>3, <1>5
<1>7. PICK j0 \in e : d[j0].op.clientSeq = U[1].clientSeq
  BY <1>3, <1>6
<1>8. k0 = 1
  <2>1. CASE j0 = 1
    BY <1>4, <1>5, <1>6, <1>7, <2>1
  <2>2. CASE j0 # 1
    <3>1. d[1].op.clientSeq < d[j0].op.clientSeq
      BY <1>2, <1>3, <1>7, <2>2 DEF e
    <3>2. k0 # 1 => U[1].clientSeq < U[k0].clientSeq
      BY <1>4, <1>6
    <3>3. U[1].clientSeq \in Int /\ U[k0].clientSeq \in Int
      BY <1>4, <1>6
    <3> QED BY <1>5, <1>7, <3>1, <3>2, <3>3
  <2> QED BY <2>1, <2>2
<1>9. U # <<>>
  BY <1>6
<1>10. /\ Len(W) = Len(U) - 1 /\ \A k \in 1 .. Len(U) - 1 : W[k] = U[k + 1]
  BY <1>9, TailFacts
<1> HIDE DEF W
<1>11. PICK b \in Nat : b = a - 1 /\ b = Len(W) - Len(u)
  <2>1. a - 1 \in Nat
    BY <1>3, <1>6
  <2>2. a - 1 = Len(W) - Len(u)
    BY <1>1, <1>3, <1>10
  <2> QED BY <2>1, <2>2
<1>12. ASSUME NEW k \in 1 .. Len(u) PROVE u[k] = W[b + k]
  <2>1. b + k \in 1 .. Len(U) - 1 /\ (b + k) + 1 = a + k
    BY <1>1, <1>3, <1>11
  <2> QED BY <1>3, <1>10, <2>1
<1>13. ASSUME NEW j \in f
       PROVE  \E k \in 1 .. b : SameEdit(g[j].op, W[k]) /\ g[j].op.clientSeq = W[k].clientSeq
  <2>1. j + 1 \in e /\ 1 < j + 1 /\ g[j] = d[j + 1]
    BY <1>2
  <2>2. PICK k \in 1 .. a : SameEdit(g[j].op, U[k]) /\ g[j].op.clientSeq = U[k].clientSeq
    BY <1>3, <2>1
  <2>3. d[1].op.clientSeq < g[j].op.clientSeq
    BY <1>3, <2>1 DEF e
  <2>4. k # 1
    BY <1>4, <1>5, <1>6, <1>8, <2>2, <2>3
  <2>5. k - 1 \in 1 .. b /\ k - 1 \in 1 .. Len(U) - 1 /\ (k - 1) + 1 = k
    BY <1>3, <1>11, <2>4
  <2>6. W[k - 1] = U[k]
    BY <1>10, <2>5
  <2> QED BY <2>2, <2>5, <2>6
<1>14. ASSUME NEW i \in f, NEW j \in f, i < j PROVE g[i].op.clientSeq < g[j].op.clientSeq
  <2>1. i + 1 < j + 1
    BY <1>2, <1>14
  <2> QED BY <1>2, <1>3, <2>1
<1>15. ASSUME NEW k \in 1 .. b PROVE \E j \in f : g[j].op.clientSeq = W[k].clientSeq
  <2>1. k + 1 \in 1 .. a /\ k \in 1 .. Len(U) - 1 /\ k + 1 \in 1 .. Len(U) /\ k + 1 # 1
    BY <1>3, <1>11
  <2>2. PICK j \in e : d[j].op.clientSeq = U[k + 1].clientSeq
    BY <1>3, <2>1
  <2>3. j # 1
    BY <1>4, <1>5, <1>6, <1>8, <2>1, <2>2
  <2> QED BY <1>2, <1>10, <2>1, <2>2, <2>3
<1>16. Len(W) - Len(u) >= 0
  BY <1>11
<1>17. InFlight(W, u, g, t)
  BY <1>11, <1>12, <1>13, <1>14, <1>15, <1>16 DEF InFlight, f, g
<1> QED BY <1>5, <1>8, <1>9, <1>17 DEF W, g

LEMMA EchoesOfAppend ==
  ASSUME NEW d, IsSequence(d), NEW m, NEW t
  PROVE  LET g == Append(d, m) IN
         /\ Len(d) \in Nat /\ g[Len(d) + 1] = m
         /\ \A j \in EchoesIn(d, t) : j \in 1 .. Len(d) /\ j \in EchoesIn(g, t) /\ g[j] = d[j]
         /\ \A j \in EchoesIn(g, t) :
              j \in EchoesIn(d, t) \/ (j = Len(d) + 1 /\ m.type = "op" /\ m.from = t)
         /\ m.type = "op" /\ m.from = t => Len(d) + 1 \in EchoesIn(g, t)
<1> DEFINE g == Append(d, m)
<1>1. /\ Len(d) \in Nat /\ Len(g) = Len(d) + 1 /\ g[Len(d) + 1] = m
      /\ \A j \in 1 .. Len(d) : g[j] = d[j]
  BY AppendFacts DEF IsSequence
<1> HIDE DEF g
<1>2. ASSUME NEW j \in EchoesIn(d, t)
      PROVE  j \in 1 .. Len(d) /\ j \in EchoesIn(g, t) /\ g[j] = d[j]
  BY <1>1 DEF EchoesIn
<1>3. ASSUME NEW j \in EchoesIn(g, t)
      PROVE  j \in EchoesIn(d, t) \/ (j = Len(d) + 1 /\ m.type = "op" /\ m.from = t)
  <2>1. j \in 1 .. Len(d) + 1 /\ g[j].type = "op" /\ g[j].from = t
    BY <1>1 DEF EchoesIn
  <2>2. CASE j = Len(d) + 1
    BY <1>1, <2>1, <2>2
  <2>3. CASE j \in 1 .. Len(d)
    BY <1>1, <2>1, <2>3 DEF EchoesIn
  <2> QED BY <1>1, <2>1, <2>2, <2>3
<1>4. m.type = "op" /\ m.from = t => Len(d) + 1 \in EchoesIn(g, t)
  BY <1>1 DEF EchoesIn
<1> QED BY <1>1, <1>2, <1>3, <1>4 DEF g

\* Another's op is sent to t.
LEMMA FlightBehind ==
  ASSUME NEW U, NEW u, NEW d, IsSequence(d), NEW m, NEW t, InFlight(U, u, d, t), m.from # t
  PROVE  InFlight(U, u, Append(d, m), t) /\ EchoesIn(Append(d, m), t) = EchoesIn(d, t)
<1> DEFINE g == Append(d, m)
           e == EchoesIn(d, t)
<1>1. EchoesIn(g, t) = e /\ \A j \in e : g[j] = d[j]
  BY EchoesOfAppend
<1> HIDE DEF g, e
<1>2. PICK a : a = Len(U) - Len(u)
  OBVIOUS
<1>3. /\ a >= 0
      /\ \A k \in 1 .. Len(u) : u[k] = U[a + k]
      /\ \A j \in e : \E k \in 1 .. a : SameEdit(d[j].op, U[k]) /\ d[j].op.clientSeq = U[k].clientSeq
      /\ \A i, j \in e : i < j => d[i].op.clientSeq < d[j].op.clientSeq
      /\ \A k \in 1 .. a : \E j \in e : d[j].op.clientSeq = U[k].clientSeq
  BY <1>2 DEF InFlight, e
<1>4. /\ \A j \in e : \E k \in 1 .. a : SameEdit(g[j].op, U[k]) /\ g[j].op.clientSeq = U[k].clientSeq
      /\ \A i, j \in e : i < j => g[i].op.clientSeq < g[j].op.clientSeq
      /\ \A k \in 1 .. a : \E j \in e : g[j].op.clientSeq = U[k].clientSeq
  BY <1>1, <1>3
<1>5. InFlight(U, u, g, t)
  BY <1>1, <1>2, <1>3, <1>4 DEF InFlight
<1> QED BY <1>1, <1>5 DEF g, e

\* The server has taken t's first op on its way and sends t the echo.
LEMMA FlightServed ==
  ASSUME NEW U, IsSequence(U), NEW u, IsSequence(u), u # <<>>, NEW d, IsSequence(d), NEW t,
         InFlight(U, u, d, t), NEW n \in Int, AreLatest(U, n),
         NEW m, m.type = "op", m.from = t, SameEdit(m.op, u[1]), m.op.clientSeq = u[1].clientSeq
  PROVE  InFlight(U, Tail(u), Append(d, m), t)
<1>1. PICK a : a = Len(U) - Len(u)
  OBVIOUS
<1> DEFINE e == EchoesIn(d, t)
           f == EchoesIn(Append(d, m), t)
           g == Append(d, m)
           w == Tail(u)
           l == Len(d) + 1
<1>2. /\ Len(d) \in Nat /\ g[l] = m /\ l \in f
      /\ \A j \in e : j \in 1 .. Len(d) /\ j \in f /\ g[j] = d[j]
      /\ \A j \in f : j \in e \/ j = l
  BY EchoesOfAppend
<1>3. /\ a \in Nat /\ Len(U) \in Nat /\ Len(u) \in Nat /\ Len(U) = a + Len(u)
      /\ \A k \in 1 .. Len(u) : u[k] = U[a + k]
      /\ \A j \in e : \E k \in 1 .. a : SameEdit(d[j].op, U[k]) /\ d[j].op.clientSeq = U[k].clientSeq
      /\ \A i, j \in e : i < j => d[i].op.clientSeq < d[j].op.clientSeq
      /\ \A k \in 1 .. a : \E j \in e : d[j].op.clientSeq = U[k].clientSeq
  BY <1>1 DEF InFlight, IsSequence
<1>4. /\ Len(u) >= 1 /\ Len(w) = Len(u) - 1 /\ \A k \in 1 .. Len(u) - 1 : w[k] = u[k + 1]
  BY TailFacts
<1>5. /\ \A k \in 1 .. Len(U) : U[k].clientSeq \in Int
      /\ \A j, k \in 1 .. Len(U) : j < k => U[j].clientSeq < U[k].clientSeq
  BY <1>3, LatestInOrder
<1> HIDE DEF e, f, g, w, l
<1>6. PICK b \in Nat : b = a + 1 /\ b = Len(U) - Len(w) /\ b \in 1 .. Len(U) /\ b \in 1 .. b
  <2>1. a + 1 \in Nat /\ a + 1 \in 1 .. Len(U) /\ a + 1 \in 1 .. a + 1
    BY <1>3, <1>4
  <2>2. a + 1 = Len(U) - Len(w)
    BY <1>3, <1>4
  <2> QED BY <2>1, <2>2
<1>7. SameEdit(m.op, U[b]) /\ m.op.clientSeq = U[b].clientSeq
  <2>1. u[1] = U[b]
    BY <1>3, <1>4, <1>6
  <2> QED BY <2>1
<1>8. ASSUME NEW k \in 1 .. Len(w) PROVE w[k] = U[b + k]
  <2>1. k \in 1 .. Len(u) - 1 /\ k + 1 \in 1 .. Len(u) /\ a + (k + 1) = b + k
    BY <1>3, <1>4, <1>6
  <2> QED BY <1>3, <1>4, <2>1
<1>9. ASSUME NEW j \in f
      PROVE  \E k \in 1 .. b : SameEdit(g[j].op, U[k]) /\ g[j].op.clientSeq = U[k].clientSeq
  <2>1. CASE j = l
    BY <1>2, <1>6, <1>7, <2>1
  <2>2. CASE j \in e
    <3>1. PICK k \in 1 .. a : SameEdit(d[j].op, U[k]) /\ d[j].op.clientSeq = U[k].clientSeq
      BY <1>3, <2>2
    <3>2. k \in 1 .. b /\ g[j] = d[j]
      BY <1>2, <1>3, <1>6, <2>2
    <3> QED BY <3>1, <3>2
  <2> QED BY <1>2, <2>1, <2>2
<1>10. ASSUME NEW i \in f, NEW j \in f, i < j PROVE g[i].op.clientSeq < g[j].op.clientSeq
  <2>1. i \in e /\ g[i] = d[i] /\ i \in Nat
    BY <1>2, <1>10 DEF l
  <2>2. CASE j \in e
    BY <1>2, <1>3, <1>10, <2>1, <2>2
  <2>3. CASE j = l
    <3>1. PICK k \in 1 .. a : d[i].op.clientSeq = U[k].clientSeq
      BY <1>3, <2>1
    <3>2. k < b /\ k \in 1 .. Len(U)
      BY <1>3, <1>6
    <3>3. U[k].clientSeq < U[b].clientSeq
      BY <1>5, <1>6, <3>2
    <3> QED BY <1>2, <1>7, <2>1, <2>3, <3>1, <3>3
  <2> QED BY <1>2, <2>2, <2>3
<1>11. ASSUME NEW k \in 1 .. b PROVE \E j \in f : g[j].op.clientSeq = U[k].clientSeq
  <2>1. CASE k = b
    BY <1>2, <1>7, <2>1
  <2>2. CASE k \in 1 .. a
    <3>1. PICK j \in e : d[j].op.clientSeq = U[k].clientSeq
      BY <1>3, <2>2
    <3> QED BY <1>2, <3>1
  <2> QED BY <1>3, <1>6, <2>1, <2>2
<1>12. Len(U) - Len(w) = b /\ b >= 0
  BY <1>6
<1>13. InFlight(U, w, g, t)
  BY <1>8, <1>9, <1>10, <1>11, <1>12 DEF InFlight, f, g
<1> QED BY <1>13 DEF g, w

-------------------------------------------------------------------------------
(* What the client makes of its own edits *)

LEMMA DraftWithMore ==
  ASSUME NEW c, NEW u, NEW n \in Nat, IsClient(c, u, n), c.clientSeq < n, NEW edit,
         NEW U, NEW v, NEW names, IsDraft(U, c, v, names),
         IsEdit(Stamped(c, edit), ListFields), Stamped(c, edit).id \in names
  PROVE  IsDraft(Append(U, Stamped(c, edit)), LocalOp(c, edit), v, names)
<1> DEFINE op == Stamped(c, edit)
           d == LocalOp(c, edit)
           W == Append(U, op)
<1>1. /\ d.serverState = c.serverState /\ d.clientSeq = c.clientSeq + 1
      /\ Len(d.pending) = Len(c.pending) + 1 /\ d.pending[Len(c.pending) + 1] = op
      /\ \A k \in 1 .. Len(c.pending) : d.pending[k] = c.pending[k]
  BY LocalOpFacts
<1>2. op.clientSeq = c.clientSeq + 1
  BY ClientStamps
<1>3. /\ IsSequence(U) /\ Len(U) \in Nat /\ c.clientSeq \in Nat /\ Len(c.pending) = Len(U)
      /\ \A k \in 1 .. Len(U) :
           /\ IsEdit(U[k], ListFields) /\ U[k].clientSeq = c.clientSeq - Len(U) + k
           /\ U[k].id \in names /\ Derived(c.pending[k], U[k])
      /\ Agree(c.serverState, v, U)
  BY DEF IsDraft, IsBacklog, AreLatest, AreAbout, AreDerived, IsSequence, IsClient
<1>4. /\ IsSequence(W) /\ Len(W) = Len(U) + 1 /\ W[Len(U) + 1] = op
      /\ \A k \in 1 .. Len(U) : W[k] = U[k]
  BY <1>3, AppendFacts
<1>5. Agree(d.serverState, v, W)
  BY <1>1, <1>3, AgreeWithMore
<1> HIDE DEF op, d, W
<1>6. ASSUME NEW k \in 1 .. Len(W)
      PROVE  /\ IsEdit(W[k], ListFields) /\ W[k].clientSeq = d.clientSeq - Len(W) + k
             /\ W[k].id \in names /\ Derived(d.pending[k], W[k])
  <2>1. CASE k = Len(U) + 1
    <3>1. W[k] = op /\ d.pending[k] = op
      BY <1>1, <1>3, <1>4, <2>1
    <3>2. Derived(op, op)
      BY DEF Derived
    <3>3. W[k].clientSeq = d.clientSeq - Len(W) + k
      BY <1>1, <1>2, <1>3, <1>4, <2>1, <3>1
    <3> QED BY <3>1, <3>2, <3>3 DEF op
  <2>2. CASE k \in 1 .. Len(U)
    <3>1. W[k] = U[k] /\ d.pending[k] = c.pending[k]
      BY <1>1, <1>3, <1>4, <2>2
    <3>2. W[k].clientSeq = d.clientSeq - Len(W) + k
      BY <1>1, <1>3, <1>4, <2>2, <3>1
    <3>3. IsEdit(U[k], ListFields) /\ U[k].id \in names /\ Derived(c.pending[k], U[k])
      BY <1>3, <2>2
    <3> QED BY <3>1, <3>2, <3>3
  <2> QED BY <1>3, <1>4, <2>1, <2>2
<1>7. Len(d.pending) = Len(W)
  BY <1>1, <1>3, <1>4
<1> HIDE DEF IsEdit
<1>8. IsDraft(W, d, v, names)
  BY <1>4, <1>5, <1>6, <1>7 DEF IsDraft, IsBacklog, AreLatest, AreAbout, AreDerived
<1> QED BY <1>8 DEF op, d, W

LEMMA DraftAnswered ==
  ASSUME NEW c, NEW u, NEW n, IsClient(c, u, n), NEW U, U # <<>>, NEW v, IsDoc(v), NEW names,
         IsDraft(U, c, v, names), NEW op, IsEdit(op, ListFields), SameEdit(op, U[1]),
         op.clientSeq = U[1].clientSeq
  PROVE  IsDraft(Tail(U), OnEcho(c, op), Apply(v, op), names)
<1> DEFINE d == OnEcho(c, op)
           W == Tail(U)
           p == c.pending
           q == Tail(c.pending)
<1>1. /\ IsBacklog(U, ListFields) /\ IsSequence(U) /\ Len(U) \in Nat /\ c.clientSeq \in Nat
      /\ Len(p) = Len(U) /\ IsSequence(p) /\ IsDoc(c.serverState)
      /\ \A k \in 1 .. Len(U) :
           /\ IsEdit(U[k], ListFields) /\ U[k].clientSeq = c.clientSeq - Len(U) + k
           /\ U[k].id \in names /\ Derived(p[k], U[k])
      /\ Agree(c.serverState, v, U)
  BY DEF IsDraft, IsBacklog, AreLatest, AreAbout, AreDerived, IsSequence, IsClient
<1>2. /\ Len(U) >= 1 /\ IsSequence(W) /\ Len(W) = Len(U) - 1
      /\ \A k \in 1 .. Len(U) - 1 : W[k] = U[k + 1]
  BY <1>1, TailFacts
<1>3. p # <<>>
  BY <1>1, <1>2
<1>4. /\ Len(q) = Len(p) - 1 /\ \A k \in 1 .. Len(p) - 1 : q[k] = p[k + 1]
  BY <1>1, <1>3, TailFacts
<1> HIDE DEF W, p, q, d
<1>5. After(p, op.clientSeq) = q
  <2>1. ASSUME NEW k \in 1 .. Len(p) PROVE p[k].clientSeq = op.clientSeq + (k - 1)
    <3>1. p[k].clientSeq = U[k].clientSeq
      BY <1>1 DEF Derived
    <3>2. U[k].clientSeq = c.clientSeq - Len(U) + k /\ U[1].clientSeq = c.clientSeq - Len(U) + 1
      BY <1>1, <1>2
    <3> QED BY <1>1, <3>1, <3>2
  <2>2. op.clientSeq \in Nat
    <3>1. p[1].clientSeq = U[1].clientSeq /\ p[1].clientSeq \in 1 .. c.clientSeq
      BY <1>1, <1>2 DEF IsClient, Derived, p
    <3> QED BY <1>1, <3>1
  <2>3. NumberedFrom(p, op.clientSeq)
    BY <2>1 DEF NumberedFrom
  <2> QED BY <1>1, <1>3, <2>2, <2>3, AfterFirst DEF p, q
<1>6. d.serverState = Apply(c.serverState, op) /\ d.pending = q /\ d.clientSeq = c.clientSeq
  BY <1>5 DEF OnEcho, d, p
<1>7. Agree(Apply(c.serverState, op), Apply(v, op), W)
  BY <1>1, AgreeAfterEcho DEF W
<1>8. ASSUME NEW k \in 1 .. Len(W)
      PROVE  /\ IsEdit(W[k], ListFields) /\ W[k].clientSeq = c.clientSeq - Len(W) + k
             /\ W[k].id \in names /\ Derived(q[k], W[k])
  <2>1. k \in 1 .. Len(U) - 1 /\ k + 1 \in 1 .. Len(U) /\ W[k] = U[k + 1] /\ q[k] = p[k + 1]
    BY <1>1, <1>2, <1>4
  <2>2. c.clientSeq - Len(W) + k = c.clientSeq - Len(U) + (k + 1)
    <3>1. c.clientSeq \in Nat /\ Len(U) \in Nat /\ Len(W) = Len(U) - 1 /\ k \in Nat
      BY <1>1, <1>2
    <3> QED BY SMTT(30), <3>1
  <2>3. IsEdit(U[k + 1], ListFields) /\ U[k + 1].clientSeq = c.clientSeq - Len(U) + (k + 1)
        /\ U[k + 1].id \in names /\ Derived(p[k + 1], U[k + 1])
    BY <1>1, <2>1
  <2> QED BY <2>1, <2>2, <2>3
<1>9. Len(q) = Len(W)
  BY <1>1, <1>2, <1>4
<1>10. IsDraft(W, d, Apply(v, op), names)
  BY <1>2, <1>6, <1>7, <1>8, <1>9 DEF IsDraft, IsBacklog, AreLatest, AreAbout, AreDerived
<1> QED BY <1>10 DEF W, d

LEMMA DraftRebased ==
  ASSUME NEW c, NEW u, NEW n, IsClient(c, u, n), NEW U, NEW v, IsDoc(v), NEW names,
         IsDraft(U, c, v, names), NEW op, IsEdit(op, ListFields), op.type = "add" => op.id \notin names
  PROVE  IsDraft(U, OnRemote(c, op), Apply(v, op), names)
<1> DEFINE d == OnRemote(c, op)
           walk == Rebase(c.pending, op)
<1>1. /\ IsBacklog(U, ListFields) /\ AreLatest(U, c.clientSeq) /\ AreAbout(U, names)
      /\ AreDerived(c.pending, U) /\ Agree(c.serverState, v, U) /\ IsDoc(c.serverState)
      /\ AreForms(c.pending, ListFields)
  BY DEF IsDraft, IsClient, AreForms
<1>2. op.type = "add" => ~Mentions(U, op.id)
  BY <1>1 DEF AreAbout, Mentions
<1>3. Fate(walk.remote, op, U) /\ AreDerived(walk.rebased, U)
  BY <1>1, <1>2, RebaseFate
<1>4. /\ d.serverState = Apply(c.serverState, walk.remote) /\ d.pending = walk.rebased
      /\ d.clientSeq = c.clientSeq
  BY DEF OnRemote
<1> HIDE DEF walk, d
<1>5. Agree(Apply(c.serverState, walk.remote), Apply(v, op), U)
  BY <1>1, <1>3, AgreeAfterRemote
<1> QED BY <1>1, <1>3, <1>4, <1>5 DEF IsDraft, d

-------------------------------------------------------------------------------
(* The second part holds throughout, when every tab has a user of its own *)

OwnUsers == \A t, u \in Tabs : UserOf[t] = UserOf[u] => t = u

TabStays(x) ==
  Stays(x) /\ up'[x] = up[x] /\ down'[x] = down[x] /\ unacked'[x] = unacked[x] /\ ghost'[x] = ghost[x]

LEMMA TabKept ==
  ASSUME NEW x \in Tabs, TabStays(x), Grows, ClientInv(x), TabInv(x)
  PROVE  TabInv(x)'
<1>1. /\ seen'[x] = seen[x] /\ ot'[x] = ot[x] /\ (x \in live' <=> x \in live)
      /\ unacked'[x] = unacked[x] /\ ghost'[x] = ghost[x] /\ up'[x] = up[x] /\ down'[x] = down[x]
      /\ versions'[seen[x]] = versions[seen[x]] /\ seen[x] \in 0 .. serverSeq
  BY DEF TabStays, Stays, Grows, ClientInv
<1>2. Past(seen[x])' = Past(seen[x])
  BY <1>1, PastKept
<1> QED BY <1>1, <1>2 DEF TabInv, Loaded

\* The steps of one tab, as far as the others are concerned.
LEMMA OthersKept ==
  ASSUME IInv, NEW t \in Tabs, ServerStays, \A x \in Tabs \ {t} : TabStays(x),
         \A x \in Tabs : TabInv(x), TabInv(t)'
  PROVE  \A x \in Tabs : TabInv(x)'
<1>1. Grows
  BY DEF Grows, ServerStays, IInv, BoardInv
<1> QED BY <1>1, TabKept DEF IInv, Part

LEMMA OpenTabs ==
  ASSUME IInv, NEW t \in Tabs, Open(t), \A x \in Tabs : TabInv(x)
  PROVE  \A x \in Tabs : TabInv(x)'
<1>1. BoardInv
  BY DEF IInv
<1> DEFINE welcome == [type |-> "welcome", drawables |-> Drawables(doc), lamport |-> lamport,
                       serverSeq |-> serverSeq]
<1>2. /\ ServerStays /\ ~Loaded(t) /\ ot'[t] = ot[t] /\ unacked'[t] = <<>> /\ down'[t] = <<welcome>>
      /\ \A x \in Tabs \ {t} : TabStays(x)
  <2>1. ~Loaded(t)
    BY DEF Open, IInv, Part, ClientInv
  <2>2. unacked[t] = <<>>
    BY <2>1 DEF TabInv
  <2> QED BY <1>1, <2>1, <2>2 DEF Open, board, BoardInv, ServerStays, TabStays, Stays
<1>3. welcome.type = "welcome"
  OBVIOUS
<1> HIDE DEF welcome
<1>4. EchoesIn(<<welcome>>, t) = {}
  BY <1>3 DEF EchoesIn
<1>5. TabInv(t)'
  BY <1>2, <1>4 DEF TabInv, Loaded
<1> QED BY <1>2, <1>5, OthersKept

LEMMA CloseTabs ==
  ASSUME IInv, NEW t \in Tabs, Close(t), \A x \in Tabs : TabInv(x)
  PROVE  \A x \in Tabs : TabInv(x)'
<1>1. BoardInv /\ ClientInv(t)
  BY DEF IInv, Part
<1>2. /\ ServerStays /\ ot' = ot /\ unacked' = unacked /\ ghost' = ghost /\ seen' = seen
      /\ down'[t] = <<>> /\ t \notin live' /\ versions' = versions
      /\ \A x \in Tabs \ {t} : TabStays(x)
  BY <1>1 DEF Close, board, BoardInv, ServerStays, TabStays, Stays
<1>3. EchoesIn(<<>>, t) = {}
  BY DEF EchoesIn
<1>4. Past(seen[t])' = Past(seen[t])
  BY <1>2 DEF Past
<1>5. TabInv(t)'
  BY <1>2, <1>3, <1>4 DEF TabInv, Loaded
<1> QED BY <1>2, <1>5, OthersKept

LEMMA RejectTabs ==
  ASSUME IInv, NEW t \in Tabs, ServerReject(t), \A x \in Tabs : TabInv(x)
  PROVE  \A x \in Tabs : TabInv(x)'
<1>1. BoardInv /\ UpInv(t)
  BY DEF IInv, Part
<1>2. /\ ServerStays /\ ot' = ot /\ ghost'[t] = TRUE /\ up[t] # <<>>
      /\ \A x \in Tabs \ {t} : TabStays(x)
  BY <1>1 DEF ServerReject, BoardInv, ServerStays, TabStays, Stays, board, sockets
<1>3. TabInv(t)'
  BY <1>1, <1>2 DEF TabInv, Loaded, UpInv
<1> QED BY <1>2, <1>3, OthersKept

LEMMA EditTabs ==
  ASSUME IInv, NEW t \in Tabs, Edit(t), \A x \in Tabs : TabInv(x)
  PROVE  \A x \in Tabs : TabInv(x)'
<1>1. BoardInv /\ ClientInv(t) /\ IdInv(t) /\ UpInv(t) /\ Loaded(t) /\ ot[t].clientSeq < MaxEdits[t]
  BY DEF IInv, Part, Edit
<1>2. PICK edit \in Edits(t) :
        /\ ot' = [ot EXCEPT ![t] = LocalOp(@, edit)]
        /\ up' = [up EXCEPT ![t] = IF t \in live THEN Append(@, Stamped(ot[t], edit)) ELSE @]
        /\ unacked' = [unacked EXCEPT ![t] = Append(@, Stamped(ot[t], edit))]
  BY DEF Edit
<1>3. /\ live' = live /\ opened' = opened /\ down' = down /\ seen' = seen
      /\ ServerStays /\ ghost' = ghost /\ versions' = versions
  BY DEF Edit, board, sockets, ServerStays
<1>4. PICK c, op : c = ot[t] /\ op = Stamped(c, edit)
  OBVIOUS
<1>5. /\ ot'[t] = LocalOp(c, edit) /\ unacked'[t] = Append(unacked[t], op)
      /\ t \in live => up'[t] = Append(up[t], op)
      /\ \A x \in Tabs \ {t} : TabStays(x)
  BY <1>1, <1>2, <1>3, <1>4 DEF BoardInv, TabStays, Stays
<1>6. IsEdit(op, ListFields) /\ op.id \in Past(seen[t]) \cup IdsOf(t)
  BY <1>1, <1>4, EditFacts DEF IsOwnEdit
<1>7. Past(seen[t])' = Past(seen[t])
  BY <1>3 DEF Past
<1>8. ASSUME ~ghost[t]
      PROVE  /\ IsDraft(unacked'[t], ot'[t], versions[seen[t]], Past(seen[t]) \cup IdsOf(t))
             /\ t \in live => InFlight(unacked'[t], up'[t], down[t], t)
  <2>1. /\ IsDraft(unacked[t], c, versions[seen[t]], Past(seen[t]) \cup IdsOf(t))
        /\ t \in live => InFlight(unacked[t], up[t], down[t], t)
    BY <1>1, <1>4, <1>8 DEF TabInv
  <2>2. IsClient(c, UserOf[t], MaxEdits[t]) /\ c.clientSeq < MaxEdits[t] /\ MaxEdits[t] \in Nat
    BY <1>1, <1>4, BoundAssumption DEF ClientInv
  <2>3. IsSequence(unacked[t]) /\ IsSequence(up[t])
    BY <1>1, <2>1 DEF UpInv, IsDraft, IsBacklog
  <2>4. PICK names : names = Past(seen[t]) \cup IdsOf(t)
    OBVIOUS
  <2>5. IsDraft(Append(unacked[t], op), LocalOp(c, edit), versions[seen[t]], names)
    BY <1>4, <1>6, <2>1, <2>2, <2>4, DraftWithMore
  <2>6. t \in live => InFlight(Append(unacked[t], op), Append(up[t], op), down[t], t)
    BY <2>1, <2>3, FlightWithMore
  <2> QED BY <1>5, <2>4, <2>5, <2>6
<1>9. Loaded(t)'
  <2>1. LocalOp(c, edit).userId = UserOf[t]
    BY <1>1, <1>4 DEF LocalOp, ClientInv, IsClient
  <2> QED BY <1>5, <2>1, IsLoaded DEF Loaded
<1>10. TabInv(t)'
  BY <1>3, <1>7, <1>8, <1>9 DEF TabInv
<1> QED BY <1>3, <1>5, <1>10, OthersKept

LEMMA WelcomeTabs ==
  ASSUME IInv, NEW t \in Tabs, Receive(t), ~Loaded(t), \A x \in Tabs : TabInv(x)
  PROVE  \A x \in Tabs : TabInv(x)'
<1>1. BoardInv /\ DownInv(t) /\ down[t] # <<>>
  BY DEF IInv, Part, Receive
<1>2. /\ Loaded(t)' /\ ot'[t].serverState = versions[seen'[t]] /\ seen'[t] \in 0 .. serverSeq
      /\ unacked' = unacked /\ up[t] = <<>> /\ ot'[t].clientSeq = 0 /\ ot'[t].pending = <<>>
      /\ ot'[t].userId = UserOf[t]
  BY WelcomeIInv
<1>3. /\ down' = [down EXCEPT ![t] = Tail(@)] /\ ServerStays /\ up' = up /\ versions' = versions
      /\ ghost' = ghost /\ live' = live /\ opened' = opened
      /\ \A x \in Tabs \ {t} : TabStays(x)
  BY <1>1, <1>2 DEF Receive, BoardInv, ServerStays, TabStays, Stays, board, sockets
<1>4. unacked[t] = <<>> /\ EchoesIn(down[t], t) = {}
  BY DEF TabInv
<1>5. EchoesIn(Tail(down[t]), t) = {}
  BY <1>1, <1>4, EchoesOfTail DEF DownInv
<1>6. Len(<<>>) = 0 /\ IsSequence(<<>>)
  BY DEF IsSequence
<1>7. \A v, names, c : c.serverState = v /\ c.pending = <<>> => IsDraft(<<>>, c, v, names)
  BY <1>6, AgreeWithItself DEF IsDraft, IsBacklog, AreLatest, AreAbout, AreDerived
<1>8. InFlight(<<>>, <<>>, Tail(down[t]), t)
  BY <1>5, <1>6 DEF InFlight
<1>9. TabInv(t)'
  <2>1. PICK c, v, names : /\ c = ot'[t] /\ v = versions[seen'[t]]
                           /\ names = (Past(seen[t]) \cup IdsOf(t))'
    OBVIOUS
  <2>2. IsDraft(<<>>, c, v, names)
    BY <1>2, <1>7, <2>1
  <2>3. down'[t] = Tail(down[t])
    BY <1>1, <1>3 DEF BoardInv
  <2> QED BY <1>2, <1>3, <1>4, <1>8, <2>1, <2>2, <2>3 DEF TabInv
<1> QED BY <1>3, <1>9, OthersKept

LEMMA ReceiveTabs ==
  ASSUME IInv, OwnUsers, NEW t \in Tabs, Receive(t), Loaded(t), \A x \in Tabs : TabInv(x)
  PROVE  \A x \in Tabs : TabInv(x)'
<1>1. BoardInv /\ ClientInv(t) /\ UpInv(t) /\ DownInv(t)
  BY DEF IInv, Part
<1>2. PICK m, n, c, U, v : m = down[t][1] /\ n = seen[t] + 1 /\ c = ot[t] /\ U = unacked[t]
                           /\ v = versions[seen[t]]
  OBVIOUS
<1>3. /\ t \in live /\ IsSequence(down[t]) /\ down[t] # <<>> /\ seen[t] \in Nat
      /\ n - 1 = seen[t] /\ n \in Nat /\ IsUpdate(m, n)
      /\ ot'[t] = OnServerOp(c, m.op) /\ seen'[t] = n
      /\ unacked'[t] = IF m.from = t THEN Tail(U) ELSE U
      /\ down'[t] = Tail(down[t]) /\ up' = up /\ ghost' = ghost /\ versions' = versions
      /\ live' = live /\ opened' = opened /\ ServerStays
  <2>1. t \in live /\ IsSequence(down[t]) /\ down[t] # <<>> /\ seen[t] \in Nat
    BY ReceiveOpFacts
  <2>2. n - 1 = seen[t] /\ n \in Nat
    BY <1>2, <2>1
  <2>3. IsUpdate(m, n)
    BY <1>2, ReceiveOpFacts
  <2>0. t \in DOMAIN ot /\ t \in DOMAIN seen /\ t \in DOMAIN unacked /\ t \in DOMAIN down
    BY <1>1 DEF BoardInv
  <2>4. /\ ot'[t] = OnServerOp(c, m.op) /\ seen'[t] = n
        /\ unacked'[t] = IF m.from = t THEN Tail(U) ELSE U
        /\ down'[t] = Tail(down[t])
    <3>1. ot'[t] = OnServerOp(c, m.op)
      BY <1>2, <2>0, ReceiveOpFacts, Zenon
    <3>2. seen'[t] = n
      BY <1>2, <2>0, ReceiveOpFacts, Zenon
    <3>3. unacked'[t] = IF m.from = t THEN Tail(U) ELSE U
      BY <1>2, <2>0, ReceiveOpFacts, Zenon
    <3>4. down'[t] = Tail(down[t])
      BY <2>0, ReceiveOpFacts, Zenon
    <3> QED BY <3>1, <3>2, <3>3, <3>4, Zenon
  <2>5. up' = up /\ ghost' = ghost /\ versions' = versions /\ live' = live /\ opened' = opened /\ ServerStays
    BY ReceiveOpFacts DEF board, sockets, ServerStays
  <2> QED BY <2>1, <2>2, <2>3, <2>4, <2>5
<1>4. \A x \in Tabs \ {t} : TabStays(x)
  BY <1>1, <1>3, ReceiveOpFacts DEF BoardInv, TabStays, Stays
<1>5. Loaded(t)'
  BY ReceiveOpIInv
<1>6. /\ IsClient(c, UserOf[t], MaxEdits[t]) /\ c.userId = UserOf[t] /\ c.clientSeq \in Nat
      /\ IsDoc(v) /\ IsSequence(up[t])
      /\ IsEdit(m.op, ListFields) /\ m.type = "op" /\ m.from \in Tabs /\ m.op.clientId = UserOf[m.from]
      /\ versions[n] = Apply(v, m.op)
      /\ m.op.type = "add" => m.op.id \in IdsOf(m.from) /\ m.op.id \notin Past(seen[t])
  <2>1. IsClient(c, UserOf[t], MaxEdits[t])
    BY <1>1, <1>2 DEF ClientInv
  <2>2. c.userId = UserOf[t] /\ c.clientSeq \in Nat
    BY <2>1 DEF IsClient
  <2>3. IsDoc(v) /\ IsSequence(up[t])
    BY <1>1, <1>2 DEF BoardInv, UpInv, ClientInv
  <2>4. /\ IsEdit(m.op, ListFields) /\ m.type = "op" /\ m.from \in Tabs
        /\ m.op.clientId = UserOf[m.from] /\ versions[n] = Apply(versions[n - 1], m.op)
        /\ m.op.type = "add" => m.op.id \in IdsOf(m.from) /\ m.op.id \notin Past(n - 1)
    BY <1>3 DEF IsUpdate
  <2> QED BY <1>2, <1>3, <2>1, <2>2, <2>3, <2>4
<1>7. PICK names, later : names = Past(seen[t]) \cup IdsOf(t) /\ later = Past(n) \cup IdsOf(t)
  OBVIOUS
<1>8. names \subseteq later
  BY <1>3, <1>7, PastGrows
<1>9. \A W, d, w : IsDraft(W, d, w, names) => IsDraft(W, d, w, later)
  BY <1>8 DEF IsDraft, AreAbout
<1>10. ASSUME ~ghost[t]
       PROVE  IsDraft(unacked'[t], ot'[t], versions[n], later) /\ InFlight(unacked'[t], up[t], Tail(down[t]), t)
  <2>1. IsDraft(U, c, v, names) /\ InFlight(U, up[t], down[t], t)
    BY <1>2, <1>3, <1>7, <1>10 DEF TabInv
  <2>2. IsSequence(U) /\ AreLatest(U, c.clientSeq)
    BY <2>1 DEF IsDraft, IsBacklog
  <2>3. CASE m.from = t
    <3>1. 1 \in EchoesIn(down[t], t)
      BY <1>2, <1>3, <1>6, <2>3, TailFacts DEF EchoesIn, IsSequence
    <3>2. /\ U # <<>> /\ SameEdit(m.op, U[1]) /\ m.op.clientSeq = U[1].clientSeq
          /\ InFlight(Tail(U), up[t], Tail(down[t]), t)
      BY <1>2, <1>3, <1>6, <2>1, <2>2, <3>1, FlightAnswered
    <3>3. OnServerOp(c, m.op) = OnEcho(c, m.op)
      BY <1>6, <2>3 DEF OnServerOp
    <3>4. IsDraft(Tail(U), OnEcho(c, m.op), Apply(v, m.op), names)
      BY <1>6, <2>1, <3>2, DraftAnswered
    <3> QED BY <1>3, <1>6, <1>9, <2>3, <3>2, <3>3, <3>4
  <2>4. CASE m.from # t
    <3>1. 1 \notin EchoesIn(down[t], t)
      BY <1>2, <2>4 DEF EchoesIn
    <3>2. InFlight(U, up[t], Tail(down[t]), t)
      BY <1>3, <2>1, <3>1, FlightPassed
    <3>3. OnServerOp(c, m.op) = OnRemote(c, m.op)
      BY <1>6, <2>4 DEF OnServerOp, OwnUsers
    <3>4. m.op.type = "add" => m.op.id \notin names
      BY <1>6, <1>7, <2>4 DEF IdsOf
    <3>5. IsDraft(U, OnRemote(c, m.op), Apply(v, m.op), names)
      BY <1>6, <2>1, <3>4, DraftRebased
    <3> QED BY <1>3, <1>6, <1>9, <2>4, <3>2, <3>3, <3>5
  <2> QED BY <2>3, <2>4
<1>11. TabInv(t)'
  <2>1. Past(n)' = Past(n)
    BY <1>3 DEF Past
  <2> QED BY <1>3, <1>5, <1>7, <1>10, <2>1 DEF TabInv
<1> QED BY <1>3, <1>4, <1>11, OthersKept

LEMMA ServerOpTabs ==
  ASSUME IInv, NEW t \in Tabs, NEW op, Served(t, op), \A x \in Tabs : TabInv(x)
  PROVE  \A x \in Tabs : TabInv(x)'
<1>1. BoardInv /\ Grows
  BY ServedBoard DEF IInv
<1>2. PICK m : m = [type |-> "op", op |-> op, from |-> t]
  OBVIOUS
<1>3. m.type = "op" /\ m.op = op /\ m.from = t
  BY <1>2
<1>4. ASSUME NEW x \in Tabs PROVE TabInv(x)'
  <2>1. /\ ClientInv(x) /\ UpInv(x) /\ DownInv(x) /\ TabInv(x)
        /\ seen'[x] = seen[x] /\ ot'[x] = ot[x] /\ unacked'[x] = unacked[x] /\ ghost'[x] = ghost[x]
        /\ (x \in live' <=> x \in live) /\ (Loaded(x)' <=> Loaded(x)) /\ seen[x] \in 0 .. serverSeq
    BY DEF IInv, Part, Served, Loaded, ClientInv
  <2>2. versions'[seen[x]] = versions[seen[x]] /\ Past(seen[x])' = Past(seen[x])
    BY <1>1, <2>1, PastKept DEF Grows
  <2>3. /\ x \in live => down'[x] = Append(down[x], m)
        /\ x \notin live => down'[x] = down[x]
        /\ IsSequence(down[x]) /\ IsSequence(up[x])
        /\ x # t => up'[x] = up[x]
        /\ up'[t] = Tail(up[t])
    BY <1>1, <1>2, <2>1 DEF Served, DownInv, UpInv, BoardInv
  <2>4. ASSUME Loaded(x), ~ghost[x]
        PROVE  /\ IsDraft(unacked[x], ot[x], versions[seen[x]], Past(seen[x]) \cup IdsOf(x))
               /\ x \in live => InFlight(unacked[x], up'[x], down'[x], x)
    <3>1. /\ IsDraft(unacked[x], ot[x], versions[seen[x]], Past(seen[x]) \cup IdsOf(x))
          /\ x \in live => InFlight(unacked[x], up[x], down[x], x)
      BY <2>1, <2>4 DEF TabInv
    <3>2. CASE x \in live /\ x # t
      BY <1>3, <2>3, <3>1, <3>2, FlightBehind
    <3>3. CASE x \in live /\ x = t
      <4>1. /\ up[x] # <<>> /\ SameEdit(m.op, up[x][1])
            /\ m.op.clientSeq = up[x][1].clientSeq
        BY <1>3, <3>3 DEF Served
      <4>2. PICK n \in Int : n = ot[x].clientSeq
        BY <2>1, <2>4 DEF ClientInv, IsClient
      <4>3. IsSequence(unacked[x]) /\ AreLatest(unacked[x], n)
        BY <3>1, <4>2 DEF IsDraft, IsBacklog
      <4>4. InFlight(unacked[x], Tail(up[x]), Append(down[x], m), x)
        BY <1>3, <2>3, <3>1, <3>3, <4>1, <4>3, FlightServed
      <4> QED BY <2>3, <3>1, <3>3, <4>1, <4>4
    <3> QED BY <3>1, <3>2, <3>3
  <2>5. ASSUME ~Loaded(x)
        PROVE  unacked[x] = <<>> /\ EchoesIn(down'[x], x) = {}
    <3>1. unacked[x] = <<>> /\ EchoesIn(down[x], x) = {} /\ up[x] = <<>>
      BY <2>1, <2>5 DEF TabInv, UpInv
    <3>2. x # t
      BY <3>1 DEF Served
    <3>3. EchoesIn(Append(down[x], m), x) = {}
      BY <1>3, <2>3, <3>1, <3>2, EchoesOfAppend
    <3> QED BY <2>3, <3>1, <3>3
  <2> QED BY <2>1, <2>2, <2>4, <2>5 DEF TabInv
<1> QED BY <1>4

\* As long as no two tabs are of one user, no step leads out of OwnInv: pending and the
\* server state stay in step with what the server has still to answer
\* (otClient.ts:54-94, index.ts:233-262, room.ts:98-140).
THEOREM StepOwnInv ==
  ASSUME OwnUsers
  PROVE  OwnInv /\ [Next]_vars => OwnInv'
<1> SUFFICES ASSUME OwnInv, [Next]_vars PROVE OwnInv'
  OBVIOUS
<1>1. IInv /\ IInv' /\ \A x \in Tabs : TabInv(x)
  BY StepIInv DEF OwnInv
<1>2. ASSUME NEW t \in Tabs, Open(t) PROVE \A x \in Tabs : TabInv(x)'
  BY <1>1, <1>2, OpenTabs
<1>3. ASSUME NEW t \in Tabs, Close(t) PROVE \A x \in Tabs : TabInv(x)'
  BY <1>1, <1>3, CloseTabs
<1>4. ASSUME NEW t \in Tabs, Edit(t) PROVE \A x \in Tabs : TabInv(x)'
  BY <1>1, <1>4, EditTabs
<1>5. ASSUME NEW t \in Tabs, Receive(t) PROVE \A x \in Tabs : TabInv(x)'
  BY <1>1, <1>5, WelcomeTabs, ReceiveTabs
<1>6. ASSUME NEW t \in Tabs, ServerOp(t) PROVE \A x \in Tabs : TabInv(x)'
  BY <1>1, <1>6, IsServed, ServerOpTabs
<1>7. ASSUME NEW t \in Tabs, ServerReject(t) PROVE \A x \in Tabs : TabInv(x)'
  BY <1>1, <1>7, RejectTabs
<1>8. ASSUME UNCHANGED vars PROVE \A x \in Tabs : TabInv(x)'
  <2>1. /\ UNCHANGED <<serverSeq, opened, live, versions>>
        /\ UNCHANGED <<up, down, ot, seen, unacked, ghost>>
    BY <1>8 DEF vars, board, sockets
  <2>2. Grows
    BY <1>1, <2>1 DEF IInv, BoardInv, Grows
  <2> QED BY <1>1, <2>1, <2>2, TabKept DEF IInv, Part, TabStays, Stays
<1>9. \A x \in Tabs : TabInv(x)'
  BY <1>2, <1>3, <1>4, <1>5, <1>6, <1>7, <1>8 DEF Next
<1> QED BY <1>1, <1>9 DEF OwnInv

THEOREM OwnInvariance ==
  ASSUME OwnUsers
  PROVE  Spec => []OwnInv
<1>1. Init => OwnInv
  <2> SUFFICES ASSUME Init PROVE OwnInv
    OBVIOUS
  <2>1. IInv
    BY InitIInv
  <2>2. ASSUME NEW t \in Tabs PROVE TabInv(t)
    <3>1. ~Loaded(t) /\ unacked[t] = <<>> /\ down[t] = <<>>
      BY DEF Init, Loaded
    <3>2. EchoesIn(<<>>, t) = {}
      BY DEF EchoesIn
    <3> QED BY <3>1, <3>2 DEF TabInv
  <2> QED BY <2>1, <2>2 DEF OwnInv
<1>2. OwnInv /\ [Next]_vars => OwnInv'
  BY StepOwnInv
<1> QED BY <1>1, <1>2, PTL DEF Spec

\* An op leaves pending when its own echo arrives, not before and not later, whatever
\* rebasing made of it (otClient.ts:66-68, 84-89), in tabs that have had no op refused.
THEOREM PendingFollows ==
  ASSUME OwnUsers
  PROVE  Spec => []PendingIsUnacked
<1>1. OwnInv => PendingIsUnacked
  <2> SUFFICES ASSUME OwnInv, NEW t \in Tabs, Loaded(t), ~ghost[t]
               PROVE  [i \in DOMAIN ot[t].pending |-> ot[t].pending[i].clientSeq]
                        = [i \in DOMAIN unacked[t] |-> unacked[t][i].clientSeq]
    BY DEF PendingIsUnacked
  <2>1. ClientInv(t) /\ TabInv(t)
    BY DEF OwnInv, IInv, Part
  <2>2. /\ IsSequence(ot[t].pending) /\ IsSequence(unacked[t]) /\ Len(ot[t].pending) = Len(unacked[t])
        /\ \A i \in 1 .. Len(unacked[t]) : ot[t].pending[i].clientSeq = unacked[t][i].clientSeq
    BY <2>1 DEF TabInv, ClientInv, IsClient, IsDraft, IsBacklog, AreDerived, Derived
  <2>3. DOMAIN ot[t].pending = 1 .. Len(unacked[t]) /\ DOMAIN unacked[t] = 1 .. Len(unacked[t])
    BY <2>2 DEF IsSequence
  <2> QED BY <2>2, <2>3
<1>2. Spec => []OwnInv
  BY OwnInvariance
<1> QED BY <1>1, <1>2, PTL

\* Rebasing is sound: what a client keeps as the state of the server differs from the
\* document the server had at that point only where the client's own edits in flight
\* overwrite the difference, after any interleaving of remote ops, local edits and echoes
\* (otClient.ts:64-94).
THEOREM RebasingIsSound ==
  ASSUME OwnUsers
  PROVE  Spec => []RebaseSound
<1>1. OwnInv => RebaseSound
  <2> SUFFICES ASSUME OwnInv, NEW t \in Tabs, Loaded(t), ~ghost[t]
               PROVE  ApplyAll(ot[t].serverState, unacked[t]) = ApplyAll(versions[seen[t]], unacked[t])
    BY DEF RebaseSound
  <2>1. ClientInv(t) /\ TabInv(t) /\ BoardInv
    BY DEF OwnInv, IInv, Part
  <2>2. PICK c, U, v : c = ot[t] /\ U = unacked[t] /\ v = versions[seen[t]]
    OBVIOUS
  <2>3. /\ IsDoc(c.serverState) /\ IsDoc(v) /\ IsBacklog(U, ListFields) /\ Agree(c.serverState, v, U)
    BY <2>1, <2>2 DEF TabInv, ClientInv, IsClient, IsDraft, BoardInv
  <2>4. ApplyAll(c.serverState, U) = ApplyAll(v, U)
    BY <2>3, ApplyAllAgree
  <2> QED BY <2>2, <2>4
<1>2. Spec => []OwnInv
  BY OwnInvariance
<1> QED BY <1>1, <1>2, PTL

\* When nothing is in flight, every connected tab of which the server has refused nothing
\* shows the document of the server ("all clients converge on the same document state",
\* ARCHITECTURE.md:5-8).
THEOREM TabsConverge ==
  ASSUME OwnUsers
  PROVE  Spec => []ConvergedUnlessRefused
<1>1. OwnInv => ConvergedUnlessRefused
  <2> SUFFICES ASSUME OwnInv, Quiet, NEW t \in live, ~ghost[t]
               PROVE  Loaded(t) /\ Local(ot[t]) = doc
    BY DEF ConvergedUnlessRefused
  <2>1. t \in Tabs /\ up[t] = <<>> /\ down[t] = <<>>
    BY DEF OwnInv, IInv, BoardInv, Quiet
  <2>2. ClientInv(t) /\ DownInv(t) /\ TabInv(t) /\ BoardInv
    BY <2>1 DEF OwnInv, IInv, Part
  <2>3. Loaded(t)
    BY <2>1, <2>2 DEF DownInv
  <2>4. PICK c, U : c = ot[t] /\ U = unacked[t]
    OBVIOUS
  <2>5. /\ IsDraft(U, c, versions[seen[t]], Past(seen[t]) \cup IdsOf(t)) /\ InFlight(U, <<>>, <<>>, t)
        /\ IsClient(c, UserOf[t], MaxEdits[t])
    BY <2>1, <2>2, <2>3, <2>4 DEF TabInv, ClientInv
  <2>6. seen[t] = serverSeq /\ versions[seen[t]] = doc /\ IsDoc(doc)
    <3>1. Len(down[t]) = 0
      BY <2>1
    <3>2. serverSeq \in Nat /\ seen[t] = serverSeq - Len(down[t])
      BY <2>2, <2>3 DEF DownInv, BoardInv
    <3>3. seen[t] = serverSeq
      BY <3>1, <3>2
    <3> QED BY <2>2, <3>2, <3>3 DEF BoardInv
  <2>7. Len(U) = 0
    <3>1. EchoesIn(<<>>, t) = {} /\ Len(<<>>) = 0 /\ Len(U) \in Nat
      BY <2>5 DEF EchoesIn, IsDraft, IsBacklog, IsSequence
    <3>2. \A k \in 1 .. Len(U) - 0 : FALSE
      BY <2>5, <3>1 DEF InFlight
    <3> QED BY <3>1, <3>2
  <2>8. c.serverState = doc
    BY <2>5, <2>6, <2>7, AgreeOnNothing DEF IsDraft, IsClient
  <2>9. c.pending = <<>>
    <3>1. IsSequence(c.pending) /\ Len(c.pending) = 0
      BY <2>5, <2>7 DEF IsDraft, IsClient, AreDerived
    <3> QED BY <3>1, SequenceOfLengthZero
  <2>10. Local(c) = doc
    BY <2>8, <2>9, ApplyAllNothing DEF Local
  <2> QED BY <2>3, <2>4, <2>10
<1>2. Spec => []OwnInv
  BY OwnInvariance
<1> QED BY <1>1, <1>2, PTL

================================================================================
