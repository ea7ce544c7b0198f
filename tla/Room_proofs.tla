------------------------------ MODULE Room_proofs ------------------------------
(***************************************************************************)
(* The theorems about Room, for every set of clients and ops, every        *)
(* snapshot interval and every number of ops and crashes: IInv is          *)
(* inductive (one lemma per action), all safety properties follow from it, *)
(* and with it every step is a step of DurableLog or a stutter.            *)
(***************************************************************************)
EXTENDS Room, OT_proofs

-------------------------------------------------------------------------------
(* Documents *)

LEMMA EmptyDocKeyed == Keyed(EmptyDoc)
BY DEF Keyed, EmptyDoc

LEMMA PatchKeepsId ==
  ASSUME NEW d, "id" \in DOMAIN d, NEW p, NEW l
  PROVE  "id" \in DOMAIN ApplyPatch(d, p, l) /\ ApplyPatch(d, p, l).id = d.id
BY DEF ApplyPatch

\* Applying a well-formed op keeps a document keyed by the ids of its drawables.
THEOREM ApplyKeepsKeys ==
  ASSUME NEW d, Keyed(d), NEW op, WellFormed(op)
  PROVE  Keyed(Apply(d, op))
<1>1. CASE op.type = "add"
  <2>1. Apply(d, op) = ApplyAdd(d, op)
    BY <1>1 DEF Apply
  <2>2. DOMAIN ApplyAdd(d, op) = DOMAIN d \cup {op.id}
    BY DEF ApplyAdd, Override
  <2>3. ASSUME NEW i \in DOMAIN ApplyAdd(d, op)
        PROVE  /\ "id" \in DOMAIN ApplyAdd(d, op)[i]
               /\ ApplyAdd(d, op)[i].id = i
    <3>1. CASE i # op.id
      BY <3>1, <2>2 DEF ApplyAdd, Override, Keyed
    <3>2. CASE i = op.id
      <4>1. ApplyAdd(d, op)[i] = IF i \in DOMAIN d THEN MergeAdd(d[i], op) ELSE op.shape
        BY <3>2, <2>2 DEF ApplyAdd, Override
      <4> QED BY <4>1, <3>2, <1>1 DEF MergeAdd, WellFormed
    <3> QED BY <3>1, <3>2
  <2>4. ApplyAdd(d, op) = [i \in DOMAIN ApplyAdd(d, op) |-> ApplyAdd(d, op)[i]]
    BY DEF ApplyAdd, Override
  <2> QED BY <2>1, <2>3, <2>4 DEF Keyed
<1>2. CASE op.type = "remove"
  BY <1>2 DEF Apply, Delete, Restrict, Keyed
<1>3. CASE op.type = "patch"
  <2>1. CASE op.id \notin DOMAIN d
    BY <1>3, <2>1 DEF Apply
  <2>2. CASE op.id \in DOMAIN d
    <3>1. Apply(d, op) = [d EXCEPT ![op.id] = ApplyPatch(d[op.id], op.patch, op.lamport)]
      BY <1>3, <2>2 DEF Apply
    <3>2. "id" \in DOMAIN d[op.id] /\ d[op.id].id = op.id
      BY <2>2 DEF Keyed
    <3> DEFINE e == ApplyPatch(d[op.id], op.patch, op.lamport)
    <3>3. "id" \in DOMAIN e /\ e.id = op.id
      BY <3>2, PatchKeepsId
    <3> HIDE DEF e
    <3>4. Apply(d, op) = [d EXCEPT ![op.id] = e]
      BY <3>1 DEF e
    <3> QED BY <3>3, <3>4, <2>2 DEF Keyed
  <2> QED BY <2>1, <2>2
<1>4. CASE op.type \notin {"add", "remove", "patch"}
  BY <1>4 DEF Apply
<1> QED BY <1>1, <1>2, <1>3, <1>4

LEMMA StampFacts ==
  ASSUME NEW op \in Ops, NEW l, NEW s
  PROVE  /\ Stamp(op, l, s).lamport = l /\ Stamp(op, l, s).serverSeq = s
         /\ WellFormed(Stamp(op, l, s))
<1>1. Stamp(op, l, s).type = op.type
  BY OpsAssumption DEF Stamp
<1>2. op.type = "add" => Stamp(op, l, s).id = op.id /\ Stamp(op, l, s).shape = op.shape
  BY OpsAssumption DEF Stamp
<1> QED BY <1>1, <1>2, OpsAssumption DEF Stamp, WellFormed

-------------------------------------------------------------------------------
(* What a step that leaves the variables of a conjunct alone preserves. *)

LEMMA LogStable ==
  ASSUME LogIsReplayable, UNCHANGED <<ops, versions>>
  PROVE  LogIsReplayable'
BY DEF LogIsReplayable, Last, LamportAt, Keyed

LEMMA RowStable ==
  ASSUME RowIsVersion, UNCHANGED <<row, ops, versions>>
  PROVE  RowIsVersion'
BY DEF RowIsVersion, Last, LamportAt

LEMMA ChannelsStable ==
  ASSUME ChannelsAreGapless, UNCHANGED <<inbox, view, ops, versions>>
  PROVE  ChannelsAreGapless'
BY SMTT(30) DEF ChannelsAreGapless, Fits, WelcomeFits, OpFits, Before, SeqOf, Last

\* A message that keeps its place behind the same one still fits when the log
\* has grown.
LEMMA FitsStable ==
  ASSUME NEW c \in Clients, NEW i \in Nat \ {0}, Fits(c, i),
         inbox'[c][i] = inbox[c][i], i # 1 => inbox'[c][i - 1] = inbox[c][i - 1],
         view'[c] = view[c],
         Last \in Nat, Last' \in Nat, Last <= Last',
         \A n \in 1 .. Last : ops'[n] = ops[n],
         \A n \in 0 .. Last : versions'[n] = versions[n]
  PROVE  Fits(c, i)'
<1>1. Before(c, i)' = Before(c, i)
  BY DEF Before, SeqOf
<1>2. WelcomeFits(c, i) => WelcomeFits(c, i)'
  BY <1>1 DEF WelcomeFits
<1>3. OpFits(c, i) => OpFits(c, i)'
  BY <1>1 DEF OpFits
<1> QED BY <1>2, <1>3 DEF Fits

LEMMA MembersStable ==
  ASSUME MembersAreServed, UNCHANGED <<members, inbox, view>>, Published' = Published
  PROVE  MembersAreServed'
BY DEF MembersAreServed, Before, SeqOf

LEMMA ViewsStable ==
  ASSUME ViewsAreDurable, UNCHANGED <<view, ops, versions>>
  PROVE  ViewsAreDurable'
BY DEF ViewsAreDurable, Last

LEMMA LastInNat == TypeOK => Last \in Nat /\ DOMAIN ops = 1 .. Last
BY DEF TypeOK, IsSequence, Last

-------------------------------------------------------------------------------
(* Every action preserves the invariant. *)

LEMMA InitIInv == Init => IInv
<1> SUFFICES ASSUME Init PROVE IInv
  OBVIOUS
<1>1. IsSequence(<<>>) /\ Len(<<>>) = 0
  BY DEF IsSequence
<1>2. Last = 0
  BY <1>1 DEF Init, Last
<1>3. TypeOK
  BY <1>1, <1>2, BoundsAssumption DEF Init, TypeOK, NoRow
<1>4. LogIsReplayable
  BY <1>2, EmptyDocKeyed DEF Init, LogIsReplayable
<1>5. RowIsVersion
  BY <1>2 DEF Init, RowIsVersion, NoRow, LamportAt, Drawables, EmptyDoc
<1>6. MemoryIsDurable
  BY DEF Init, MemoryIsDurable
<1>7. ChannelsAreGapless /\ MembersAreServed
  BY <1>1 DEF Init, ChannelsAreGapless, MembersAreServed
<1>8. ViewsAreDurable
  BY <1>2 DEF Init, ViewsAreDurable
<1> QED BY <1>3, <1>4, <1>5, <1>6, <1>7, <1>8 DEF IInv

LEMMA PostRoomStep ==
  ASSUME IInv, PostRoom
  PROVE  IInv'
<1>1. Last' = Last /\ UNCHANGED <<phase, ops, versions, inbox, members, view>>
  BY DEF PostRoom, network, Last
<1>2. /\ row'.serverSeq = row.serverSeq /\ row'.lamport = row.lamport
      /\ row'.drawables = row.drawables
      /\ row' \in [exists : BOOLEAN, lamport : Nat, serverSeq : Nat, drawables : {row'.drawables}]
  BY DEF PostRoom, EnsureRoom, IInv, TypeOK
<1>3. TypeOK'
  BY <1>1, <1>2 DEF IInv, TypeOK, PostRoom, memory, network, IsSequence, Last
<1>4. LogIsReplayable'
  BY <1>1, LogStable DEF IInv
<1>5. RowIsVersion'
  BY <1>1, <1>2 DEF IInv, RowIsVersion, LamportAt
<1>6. MemoryIsDurable'
  BY <1>1, <1>2 DEF IInv, MemoryIsDurable, PostRoom, memory, LamportAt
<1>7. ChannelsAreGapless' /\ ViewsAreDurable'
  BY <1>1, ChannelsStable, ViewsStable DEF IInv
<1>8. MembersAreServed'
  BY <1>1, MembersStable DEF IInv, Published
<1> QED BY <1>3, <1>4, <1>5, <1>6, <1>7, <1>8 DEF IInv

LEMMA LoadRoomStep ==
  ASSUME IInv, LoadRoom
  PROVE  IInv'
<1>1. Last \in Nat /\ row.serverSeq \in 0 .. Last /\ Last' = Last
  BY LastInNat DEF IInv, RowIsVersion, LoadRoom, Last
<1>2. row'.serverSeq = row.serverSeq /\ row'.lamport = row.lamport
      /\ row'.drawables = row.drawables
  BY DEF LoadRoom, EnsureRoom, IInv, TypeOK
<1>3. TypeOK'
  <2>1. row' \in [exists : BOOLEAN, lamport : Nat, serverSeq : Nat, drawables : {row'.drawables}]
    BY DEF IInv, TypeOK, LoadRoom, EnsureRoom
  <2>2. lamport' \in Nat /\ serverSeq' \in Nat /\ 0 \in 0 .. SnapshotEvery - 1
    BY <2>1, BoundsAssumption DEF LoadRoom
  <2> QED BY <2>1, <2>2 DEF IInv, TypeOK, LoadRoom, network, IsSequence, Last
<1>4. LogIsReplayable'
  BY LogStable DEF IInv, LoadRoom
<1>5. RowIsVersion'
  BY <1>1, <1>2 DEF IInv, RowIsVersion, LoadRoom, LamportAt
<1>6. MemoryIsDurable'
  <2>1. doc' = versions[row.serverSeq]
    BY <1>1, <1>2, SnapshotRoundTrip DEF IInv, RowIsVersion, LogIsReplayable, LoadRoom
  <2> QED BY <1>1, <1>2, <2>1 DEF IInv, RowIsVersion, MemoryIsDurable, LoadRoom, LamportAt
<1>7. ChannelsAreGapless' /\ ViewsAreDurable'
  BY ChannelsStable, ViewsStable DEF IInv, LoadRoom, network
<1>8. MembersAreServed'
  BY <1>1, MembersStable DEF IInv, LoadRoom, network, Published
<1> QED BY <1>3, <1>4, <1>5, <1>6, <1>7, <1>8 DEF IInv

LEMMA ReplayOpStep ==
  ASSUME IInv, ReplayOp
  PROVE  IInv'
<1>1. Last \in Nat /\ DOMAIN ops = 1 .. Last /\ Last' = Last /\ serverSeq \in 0 .. Last
  BY LastInNat DEF IInv, MemoryIsDurable, ReplayOp, Last, disk
<1>2. PICK s \in PendingSeqs :
        /\ \A t \in PendingSeqs : s <= t
        /\ doc' = Apply(doc, ops[s])
        /\ lamport' = Larger(lamport, ops[s].lamport)
        /\ serverSeq' = Larger(serverSeq, ops[s].serverSeq)
  BY DEF ReplayOp
<1>3. s = serverSeq + 1 /\ s \in 1 .. Last
  <2>1. s \in 1 .. Last /\ s > serverSeq
    BY <1>1 DEF PendingSeqs
  <2>2. serverSeq + 1 \in PendingSeqs
    BY <1>1, <2>1 DEF PendingSeqs
  <2> QED BY <1>1, <1>2, <2>1, <2>2
<1>4. /\ ops[s].serverSeq = s
      /\ ops[s].lamport \in Nat /\ ops[s].lamport > LamportAt(s - 1)
      /\ versions[s] = Apply(versions[s - 1], ops[s])
  BY <1>3 DEF IInv, LogIsReplayable
<1>5. s - 1 = serverSeq /\ doc = versions[serverSeq] /\ lamport = LamportAt(serverSeq)
  BY <1>1, <1>3 DEF IInv, MemoryIsDurable, ReplayOp
<1>6. lamport \in Nat /\ serverSeq \in Nat
  BY DEF IInv, TypeOK
<1>7. serverSeq' = s /\ lamport' = ops[s].lamport /\ doc' = versions[s]
  BY <1>2, <1>3, <1>4, <1>5, <1>6 DEF Larger
<1>8. TypeOK'
  BY <1>3, <1>4, <1>7 DEF IInv, TypeOK, ReplayOp, disk, network, IsSequence, Last
<1>9. LogIsReplayable' /\ RowIsVersion' /\ ChannelsAreGapless' /\ ViewsAreDurable'
  BY LogStable, RowStable, ChannelsStable, ViewsStable DEF IInv, ReplayOp, disk, network
<1>10. MemoryIsDurable'
  <2>1. LamportAt(serverSeq)' = ops[s].lamport
    BY <1>3, <1>7 DEF LamportAt, ReplayOp, disk
  <2> QED BY <1>1, <1>3, <1>7, <2>1 DEF IInv, MemoryIsDurable, ReplayOp
<1>11. MembersAreServed'
  BY <1>1, MembersStable DEF IInv, ReplayOp, network, Published
<1> QED BY <1>8, <1>9, <1>10, <1>11 DEF IInv

LEMMA RoomReadyStep ==
  ASSUME IInv, RoomReady
  PROVE  IInv'
<1>1. Last \in Nat /\ DOMAIN ops = 1 .. Last /\ Last' = Last /\ serverSeq \in 0 .. Last
  BY LastInNat DEF IInv, MemoryIsDurable, RoomReady, Last, disk
<1>2. serverSeq = Last
  <2>1. Last \notin PendingSeqs
    BY DEF RoomReady
  <2> QED BY <1>1, <2>1 DEF PendingSeqs
<1>3. TypeOK'
  BY DEF IInv, TypeOK, RoomReady, memory, disk, network, IsSequence, Last
<1>4. LogIsReplayable' /\ RowIsVersion' /\ ChannelsAreGapless' /\ ViewsAreDurable'
  BY LogStable, RowStable, ChannelsStable, ViewsStable DEF IInv, RoomReady, disk, network
<1>5. MemoryIsDurable'
  BY <1>1, <1>2 DEF IInv, MemoryIsDurable, RoomReady, memory, disk, LamportAt
<1>6. MembersAreServed'
  BY <1>1, MembersStable DEF IInv, RoomReady, network, Published
<1> QED BY <1>3, <1>4, <1>5, <1>6 DEF IInv

LEMMA JoinStep ==
  ASSUME IInv, NEW c \in Clients, Join(c)
  PROVE  IInv'
<1> DEFINE m == [type |-> "welcome", serverSeq |-> serverSeq, drawables |-> Drawables(doc)]
<1>1. Last \in Nat /\ Last' = Last
  BY LastInNat DEF IInv, Join, Admit, Welcome, disk, Last
<1>2. serverSeq = Last /\ doc = versions[Last] /\ Published = Last /\ Published' = Last
  BY <1>1 DEF IInv, MemoryIsDurable, Join, Admit, Welcome, Published
<1>3. inbox'[c] = <<m>> /\ \A d \in Clients \ {c} : inbox'[d] = inbox[d]
  BY DEF Join, Admit, Welcome, IInv, TypeOK
<1>4. Len(<<m>>) = 1 /\ IsSequence(<<m>>) /\ <<m>>[1] = m
  BY DEF IsSequence
<1>5. view[c].seq \in 0 .. Last
  BY DEF IInv, ViewsAreDurable
<1> HIDE DEF m
<1>6. TypeOK'
  <2>1. \A d \in Clients : IsSequence(inbox'[d])
    BY <1>3, <1>4 DEF IInv, TypeOK
  <2>2. DOMAIN inbox' = Clients /\ members' \subseteq Clients
    BY DEF Join, Admit, Welcome, IInv, TypeOK
  <2> QED BY <2>1, <2>2 DEF IInv, TypeOK, Join, Admit, Welcome, memory, disk, IsSequence, Last
<1>7. LogIsReplayable' /\ RowIsVersion' /\ ViewsAreDurable'
  BY LogStable, RowStable, ViewsStable DEF IInv, Join, Admit, Welcome, disk
<1>8. MemoryIsDurable'
  BY <1>1 DEF IInv, MemoryIsDurable, Join, Admit, Welcome, memory, disk, LamportAt
<1>9. ChannelsAreGapless'
  <2> SUFFICES ASSUME NEW d \in Clients, NEW i \in 1 .. Len(inbox'[d])
               PROVE  Fits(d, i)'
    BY DEF ChannelsAreGapless
  <2>1. CASE d = c
    <3>1. i = 1 /\ inbox'[d][i] = m
      BY <2>1, <1>3, <1>4
    <3>2. Before(d, i)' = view[c].seq
      BY <3>1, <2>1 DEF Before, Join, Admit, Welcome
    <3>3. m.type = "welcome" /\ m.serverSeq = Last /\ m.drawables = Drawables(versions[Last])
      BY <1>2 DEF m
    <3>4. WelcomeFits(d, i)'
      BY <3>1, <3>2, <3>3, <1>1, <1>5 DEF WelcomeFits, Join, Admit, Welcome
    <3> QED BY <3>1, <3>3, <3>4 DEF Fits
  <2>2. CASE d # c
    <3>1. inbox'[d] = inbox[d] /\ Fits(d, i)
      BY <2>2, <1>3 DEF IInv, ChannelsAreGapless
    <3>2. i \in Nat \ {0}
      BY <3>1 DEF IInv, TypeOK, IsSequence
    <3>3. UNCHANGED <<view, ops, versions>>
      BY DEF Join, Admit, Welcome, disk
    <3> QED BY <3>1, <3>2, <3>3, <1>1, FitsStable
  <2> QED BY <2>1, <2>2
<1>10. MembersAreServed'
  <2> SUFFICES ASSUME NEW d \in members'
               PROVE  /\ Before(d, Len(inbox[d]) + 1)' = Last
                      /\ inbox'[d] = <<>> => view'[d].on
    BY <1>2 DEF MembersAreServed
  <2>1. CASE d = c
    <3>1. SeqOf(m) = Last
      BY <1>2 DEF SeqOf, m
    <3> QED BY <2>1, <3>1, <1>3, <1>4 DEF Before
  <2>2. CASE d # c
    <3>1. d \in members /\ inbox'[d] = inbox[d] /\ view'[d] = view[d]
      BY <2>2, <1>3 DEF Join, Admit, Welcome, IInv, TypeOK
    <3>2. Before(d, Len(inbox[d]) + 1) = Last /\ (inbox[d] = <<>> => view[d].on)
      BY <3>1, <1>2 DEF IInv, MembersAreServed
    <3> QED BY <3>1, <3>2 DEF Before
  <2> QED BY <2>1, <2>2
<1> QED BY <1>6, <1>7, <1>8, <1>9, <1>10 DEF IInv

\* Cutting channels at arbitrary places, as the end of a connection or of the
\* process does.
LEMMA PrefixesFit ==
  ASSUME IInv, UNCHANGED <<view, ops, versions>>, NEW n,
         \A c \in Clients : n[c] \in 0 .. Len(inbox[c]) /\ inbox'[c] = SubSeq(inbox[c], 1, n[c])
  PROVE  ChannelsAreGapless' /\ \A c \in Clients : IsSequence(inbox'[c])
<1>1. Last \in Nat /\ Last' = Last
  BY LastInNat DEF IInv, Last
<1>2. ASSUME NEW c \in Clients
      PROVE  /\ IsSequence(inbox'[c]) /\ Len(inbox'[c]) = n[c]
             /\ \A i \in 1 .. n[c] : inbox'[c][i] = inbox[c][i]
  <2>1. IsSequence(inbox[c]) /\ n[c] \in 0 .. Len(inbox[c]) /\ inbox'[c] = SubSeq(inbox[c], 1, n[c])
    BY DEF IInv, TypeOK
  <2> QED BY <2>1, PrefixFacts
<1>3. ASSUME NEW c \in Clients, NEW i \in 1 .. Len(inbox'[c])
      PROVE  Fits(c, i)'
  <2>1. n[c] \in 0 .. Len(inbox[c]) /\ Len(inbox[c]) \in Nat
    BY DEF IInv, TypeOK, IsSequence
  <2>2. i \in 1 .. Len(inbox[c]) /\ i \in Nat \ {0} /\ inbox'[c][i] = inbox[c][i]
        /\ (i # 1 => inbox'[c][i - 1] = inbox[c][i - 1])
    BY <1>2, <2>1
  <2>3. Fits(c, i)
    BY <2>2 DEF IInv, ChannelsAreGapless
  <2> QED BY <1>1, <2>2, <2>3, FitsStable
<1> QED BY <1>2, <1>3 DEF ChannelsAreGapless

LEMMA LeaveStep ==
  ASSUME IInv, NEW c \in Clients, Leave(c)
  PROVE  IInv'
<1>1. PICK n \in 0 .. Len(inbox[c]) : inbox' = [inbox EXCEPT ![c] = SubSeq(inbox[c], 1, n)]
  BY DEF Leave
<1>2. Last' = Last
  BY DEF Leave, disk, Last
<1> DEFINE k == [d \in Clients |-> IF d = c THEN n ELSE Len(inbox[d])]
<1>3. \A d \in Clients : k[d] \in 0 .. Len(inbox[d]) /\ inbox'[d] = SubSeq(inbox[d], 1, k[d])
  <2>1. \A d \in Clients : IsSequence(inbox[d])
    BY DEF IInv, TypeOK
  <2>2. \A d \in Clients : inbox[d] = SubSeq(inbox[d], 1, Len(inbox[d]))
    BY <2>1, WholePrefix
  <2> QED BY <1>1, <2>1, <2>2 DEF IInv, TypeOK, IsSequence
<1> HIDE DEF k
<1>4. ChannelsAreGapless' /\ \A d \in Clients : IsSequence(inbox'[d])
  BY <1>3, PrefixesFit DEF Leave, disk
<1>5. TypeOK'
  <2>1. DOMAIN inbox' = Clients /\ members' \subseteq Clients
    BY <1>1 DEF Leave, IInv, TypeOK
  <2> QED BY <1>4, <2>1 DEF IInv, TypeOK, Leave, memory, disk, IsSequence, Last
<1>6. LogIsReplayable' /\ RowIsVersion' /\ ViewsAreDurable'
  BY LogStable, RowStable, ViewsStable DEF IInv, Leave, disk
<1>7. MemoryIsDurable'
  BY <1>2 DEF IInv, MemoryIsDurable, Leave, memory, disk, LamportAt
<1>8. MembersAreServed'
  <2>1. ASSUME NEW d \in members'
        PROVE  d \in members /\ inbox'[d] = inbox[d] /\ view'[d] = view[d]
    BY <1>1 DEF Leave, IInv, TypeOK
  <2>2. Published' = Published
    BY <1>2 DEF Leave, Published
  <2> QED BY <2>1, <2>2 DEF IInv, MembersAreServed, Before
<1> QED BY <1>4, <1>5, <1>6, <1>7, <1>8 DEF IInv

\* What a viewer shows after a message that fits, and what it showed before.
LEMMA DeliverFacts ==
  ASSUME IInv, NEW c \in Clients, Deliver(c)
  PROVE  /\ Len(inbox[c]) >= 1
         /\ view'[c].seq = SeqOf(inbox[c][1]) /\ view'[c].seq \in 1 .. Last \cup {view[c].seq}
         /\ view'[c].seq >= view[c].seq
         /\ view'[c].on
         /\ view'[c].doc = versions[view'[c].seq]
         /\ view'[c] \in [on : BOOLEAN, doc : {view'[c].doc}, seq : Nat]
         /\ \A d \in Clients \ {c} : view'[d] = view[d]
<1> DEFINE m == inbox[c][1]
<1>1. IsSequence(inbox[c]) /\ inbox[c] # <<>> /\ Last \in Nat
      /\ DOMAIN view = Clients /\ view[c] \in [on : BOOLEAN, doc : {view[c].doc}, seq : Nat]
  BY LastInNat DEF IInv, TypeOK, Deliver
<1>2. Len(inbox[c]) >= 1 /\ Head(inbox[c]) = m
  BY <1>1, TailFacts
<1>3. 1 \in 1 .. Len(inbox[c])
  BY <1>1, <1>2 DEF IsSequence
<1>4. Fits(c, 1) /\ Before(c, 1) = view[c].seq
  BY <1>3 DEF IInv, ChannelsAreGapless, Before
<1>5. \A d \in Clients \ {c} : view'[d] = view[d]
  BY <1>1 DEF Deliver
<1>6. view[c].seq \in 0 .. Last /\ view[c].doc = versions[view[c].seq]
  BY DEF IInv, ViewsAreDurable
<1>7. CASE m.type = "welcome"
  <2>1. m.serverSeq \in 0 .. Last /\ m.serverSeq >= view[c].seq
        /\ m.drawables = Drawables(versions[m.serverSeq])
    BY <1>4, <1>7 DEF Fits, WelcomeFits
  <2>2. MapById(m.drawables) = versions[m.serverSeq]
    BY <2>1, SnapshotRoundTrip DEF IInv, LogIsReplayable
  <2>3. view'[c] = [on |-> TRUE, doc |-> MapById(m.drawables), seq |-> m.serverSeq]
    BY <1>1, <1>2, <1>7 DEF Deliver, Show
  <2> QED BY <1>1, <1>2, <1>5, <1>6, <1>7, <2>1, <2>2, <2>3 DEF SeqOf
<1>8. CASE m.type = "op"
  <2>1. /\ view[c].on /\ m.op.serverSeq \in 1 .. Last
        /\ m.op.serverSeq = view[c].seq + 1 /\ m.op = ops[m.op.serverSeq]
    BY <1>4, <1>8 DEF Fits, OpFits
  <2>2. versions[m.op.serverSeq] = Apply(versions[m.op.serverSeq - 1], ops[m.op.serverSeq])
    BY <2>1 DEF IInv, LogIsReplayable
  <2>3. view'[c] = [view[c] EXCEPT !.doc = Apply(view[c].doc, m.op), !.seq = m.op.serverSeq]
    BY <1>1, <1>2, <1>8 DEF Deliver, Show
  <2>4. m.op.serverSeq - 1 = view[c].seq
    BY <2>1, <1>1
  <2>5. Apply(view[c].doc, m.op) = versions[m.op.serverSeq]
    BY <1>6, <2>1, <2>2, <2>4
  <2> DEFINE e == Apply(view[c].doc, m.op)
  <2> HIDE DEF e
  <2>6. view'[c] = [on |-> TRUE, doc |-> e, seq |-> m.op.serverSeq]
    BY <1>1, <2>1, <2>3 DEF e
  <2>7. view'[c].doc = versions[m.op.serverSeq] /\ view'[c].seq = m.op.serverSeq /\ view'[c].on
        /\ view'[c] \in [on : BOOLEAN, doc : {view'[c].doc}, seq : Nat]
    BY <1>1, <2>1, <2>5, <2>6 DEF e
  <2>8. SeqOf(m) = m.op.serverSeq
    BY <1>8 DEF SeqOf
  <2> QED BY <1>1, <1>2, <1>5, <2>1, <2>6, <2>7, <2>8
<1> QED BY <1>4, <1>7, <1>8 DEF Fits

LEMMA DeliverStep ==
  ASSUME IInv, NEW c \in Clients, Deliver(c)
  PROVE  IInv'
<1>1. Last \in Nat /\ Last' = Last
  BY LastInNat DEF IInv, Deliver, disk, Last
<1>2. /\ IsSequence(inbox[c]) /\ inbox[c] # <<>>
      /\ inbox'[c] = Tail(inbox[c]) /\ \A d \in Clients \ {c} : inbox'[d] = inbox[d]
      /\ DOMAIN inbox' = Clients /\ DOMAIN view' = Clients
  BY DEF IInv, TypeOK, Deliver
<1>3. /\ IsSequence(inbox'[c]) /\ Len(inbox'[c]) = Len(inbox[c]) - 1
      /\ \A i \in 1 .. Len(inbox[c]) - 1 : inbox'[c][i] = inbox[c][i + 1]
      /\ Len(inbox[c]) \in Nat \ {0}
  BY <1>2, TailFacts DEF IsSequence
<1>4. /\ view'[c].seq = SeqOf(inbox[c][1])
      /\ view'[c].seq \in 0 .. Last /\ view'[c].on
      /\ view'[c].doc = versions[view'[c].seq]
      /\ view'[c] \in [on : BOOLEAN, doc : {view'[c].doc}, seq : Nat]
      /\ \A d \in Clients \ {c} : view'[d] = view[d]
  BY <1>1, DeliverFacts DEF IInv, ViewsAreDurable
<1>5. TypeOK'
  <2>1. \A d \in Clients : /\ IsSequence(inbox'[d])
                           /\ view'[d] \in [on : BOOLEAN, doc : {view'[d].doc}, seq : Nat]
    BY <1>2, <1>3, <1>4 DEF IInv, TypeOK
  <2> QED BY <1>2, <2>1 DEF IInv, TypeOK, Deliver, memory, disk, IsSequence, Last
<1>6. LogIsReplayable' /\ RowIsVersion'
  BY LogStable, RowStable DEF IInv, Deliver, disk
<1>7. MemoryIsDurable'
  BY <1>1 DEF IInv, MemoryIsDurable, Deliver, memory, disk, LamportAt
<1>8. ViewsAreDurable'
  <2>1. versions' = versions
    BY DEF Deliver
  <2> QED BY <1>1, <1>4, <2>1 DEF IInv, ViewsAreDurable
<1>9. ASSUME NEW i \in 1 .. Len(inbox[c])
      PROVE  Before(c, i)' = Before(c, i + 1)
  <2>1. i + 1 # 1 /\ (i + 1) - 1 = i
    OBVIOUS
  <2>2. Before(c, i + 1) = SeqOf(inbox[c][i])
    BY <2>1 DEF Before
  <2>3. CASE i = 1
    <3>1. Before(c, i)' = view'[c].seq
      BY <2>3 DEF Before
    <3> QED BY <2>2, <2>3, <3>1, <1>4
  <2>4. CASE i # 1
    <3>1. i - 1 \in 1 .. Len(inbox[c]) - 1 /\ (i - 1) + 1 = i
      BY <2>4, <1>3
    <3>2. inbox'[c][i - 1] = inbox[c][i]
      BY <3>1, <1>3
    <3>3. Before(c, i)' = SeqOf(inbox'[c][i - 1])
      BY <2>4 DEF Before, SeqOf
    <3> QED BY <2>2, <3>2, <3>3
  <2> QED BY <2>3, <2>4
<1>10. ChannelsAreGapless'
  <2> SUFFICES ASSUME NEW d \in Clients, NEW i \in 1 .. Len(inbox'[d])
               PROVE  Fits(d, i)'
    BY DEF ChannelsAreGapless
  <2>1. CASE d = c
    <3>1. i \in 1 .. Len(inbox[c]) /\ i + 1 \in 1 .. Len(inbox[c]) /\ i + 1 # 1
          /\ inbox'[c][i] = inbox[c][i + 1]
      BY <2>1, <1>3
    <3>2. Fits(c, i + 1) /\ Before(c, i)' = Before(c, i + 1)
      BY <3>1, <1>9 DEF IInv, ChannelsAreGapless
    <3>3. UNCHANGED <<ops, versions>>
      BY DEF Deliver, disk
    <3>4. WelcomeFits(c, i + 1) => WelcomeFits(c, i)'
      BY <1>1, <3>1, <3>2, <3>3 DEF WelcomeFits
    <3>5. OpFits(c, i + 1) => OpFits(c, i)'
      BY <1>1, <1>4, <3>1, <3>2, <3>3 DEF OpFits
    <3> QED BY <2>1, <3>1, <3>2, <3>4, <3>5 DEF Fits
  <2>2. CASE d # c
    <3>1. inbox'[d] = inbox[d] /\ view'[d] = view[d] /\ Fits(d, i)
      BY <2>2, <1>2, <1>4 DEF IInv, ChannelsAreGapless
    <3>2. i \in Nat \ {0}
      BY <3>1 DEF IInv, TypeOK, IsSequence
    <3>3. UNCHANGED <<ops, versions>>
      BY DEF Deliver, disk
    <3> QED BY <3>1, <3>2, <3>3, <1>1, FitsStable
  <2> QED BY <2>1, <2>2
<1>11. MembersAreServed'
  <2>1. Published' = Published /\ members' = members
    BY <1>1 DEF Deliver, Published
  <2> SUFFICES ASSUME NEW d \in members
               PROVE  /\ Before(d, Len(inbox[d]) + 1)' = Published
                      /\ inbox'[d] = <<>> => view'[d].on
    BY <2>1 DEF MembersAreServed
  <2>2. d \in Clients /\ Before(d, Len(inbox[d]) + 1) = Published
        /\ (inbox[d] = <<>> => view[d].on)
    BY DEF IInv, TypeOK, MembersAreServed
  <2>3. CASE d = c
    <3>1. PICK k \in 1 .. Len(inbox[c]) : k = Len(inbox[c]) /\ k = Len(inbox'[c]) + 1
      BY <1>3
    <3>2. Before(c, k)' = Before(c, k + 1)
      BY <1>9
    <3> QED BY <2>2, <2>3, <3>1, <3>2, <1>4 DEF Before
  <2>4. CASE d # c
    BY <2>2, <2>4, <1>2, <1>4 DEF Before
  <2> QED BY <2>3, <2>4
<1> QED BY <1>5, <1>6, <1>7, <1>8, <1>10, <1>11 DEF IInv

LEMMA SubmitStep ==
  ASSUME IInv, NEW c \in Clients, NEW op \in Ops, Submit(c, op)
  PROVE  IInv'
<1>1. Last \in Nat /\ Last' = Last /\ serverSeq = Last /\ lamport \in Nat
      /\ doc = versions[Last] /\ lamport = LamportAt(Last)
  BY LastInNat DEF IInv, TypeOK, MemoryIsDurable, Submit, disk, Last
<1>2. lamport' \in Nat /\ lamport' > lamport /\ serverSeq' = Last + 1
  BY <1>1, OpsAssumption DEF Submit, NextLamport, Larger
<1>3. cur'.lamport = lamport' /\ cur'.serverSeq = serverSeq' /\ WellFormed(cur')
  BY StampFacts DEF Submit
<1>4. doc' = Apply(versions[Last], cur') /\ Keyed(doc')
  BY <1>1, <1>3, ApplyKeepsKeys DEF Submit, IInv, LogIsReplayable
<1>5. TypeOK'
  BY <1>1, <1>2 DEF IInv, TypeOK, Submit, disk, network, IsSequence, Last
<1>6. LogIsReplayable' /\ RowIsVersion' /\ ChannelsAreGapless' /\ ViewsAreDurable'
  BY LogStable, RowStable, ChannelsStable, ViewsStable DEF IInv, Submit, disk, network
<1>7. MemoryIsDurable'
  <2>1. LamportAt(Last)' = LamportAt(Last) /\ phase' = "applied" /\ versions' = versions
    BY <1>1 DEF LamportAt, Submit, disk
  <2> QED BY <1>1, <1>2, <1>3, <1>4, <2>1 DEF MemoryIsDurable
<1>8. MembersAreServed'
  BY <1>1, MembersStable DEF IInv, Submit, network, Published
<1> QED BY <1>5, <1>6, <1>7, <1>8 DEF IInv

\* A row inserted at the next key extends the table and its history.
LEMMA WriteOpFacts ==
  ASSUME IInv, WriteOp
  PROVE  /\ Last \in Nat /\ Last' = Last + 1 /\ IsSequence(ops')
         /\ \A n \in 1 .. Last : ops'[n] = ops[n]
         /\ ops'[Last + 1] = cur
         /\ DOMAIN versions' = 0 .. Last + 1
         /\ \A n \in 0 .. Last : versions'[n] = versions[n]
         /\ versions'[Last + 1] = doc
         /\ serverSeq = Last + 1 /\ cur.serverSeq = Last + 1
<1>1. /\ Last \in Nat /\ DOMAIN ops = 1 .. Last /\ DOMAIN versions = 0 .. Last
      /\ serverSeq = Last + 1 /\ cur.serverSeq = Last + 1
  BY LastInNat DEF IInv, TypeOK, MemoryIsDurable, WriteOp
<1>2. /\ DOMAIN ops' = 1 .. Last + 1 /\ ops' = [i \in DOMAIN ops' |-> ops'[i]]
      /\ \A n \in 1 .. Last : ops'[n] = ops[n]
      /\ ops'[Last + 1] = cur
  BY <1>1 DEF WriteOp, Override
<1>3. /\ DOMAIN versions' = 0 .. Last + 1
      /\ \A n \in 0 .. Last : versions'[n] = versions[n]
      /\ versions'[Last + 1] = doc
  BY <1>1 DEF WriteOp, Override
<1>4. Len(ops') = Last + 1 /\ IsSequence(ops')
  BY <1>1, <1>2, LenOfFunction
<1> QED BY <1>1, <1>2, <1>3, <1>4 DEF Last

LEMMA WriteOpStep ==
  ASSUME IInv, WriteOp
  PROVE  IInv'
<1> DEFINE N == Last
<1>1. /\ N \in Nat /\ Last' = N + 1 /\ IsSequence(ops')
      /\ \A n \in 1 .. N : ops'[n] = ops[n]
      /\ ops'[N + 1] = cur
      /\ DOMAIN versions' = 0 .. N + 1
      /\ \A n \in 0 .. N : versions'[n] = versions[n]
      /\ versions'[N + 1] = doc
      /\ serverSeq = N + 1 /\ cur.serverSeq = N + 1
  BY WriteOpFacts
<1>2. /\ cur.lamport = lamport /\ lamport \in Nat /\ lamport > LamportAt(N)
      /\ doc = Apply(versions[N], cur) /\ Keyed(doc)
  BY DEF IInv, TypeOK, MemoryIsDurable, WriteOp
<1>3. \A n \in 0 .. N : LamportAt(n)' = LamportAt(n)
  BY <1>1 DEF LamportAt
<1>4. UNCHANGED <<members, inbox, view, doc, lamport, serverSeq, cur, row>> /\ phase' = "persisted"
  BY DEF WriteOp, network, memory
<1>5. Published' = Published
  BY <1>1, <1>4 DEF Published, WriteOp
<1>6. TypeOK'
  BY <1>1 DEF IInv, TypeOK, WriteOp, memory, network, IsSequence
<1> HIDE DEF N
<1>7. LogIsReplayable'
  <2>1. versions'[0] = EmptyDoc
    BY <1>1 DEF IInv, LogIsReplayable
  <2>2. ASSUME NEW n \in 0 .. N + 1 PROVE Keyed(versions'[n])
    BY <1>1, <1>2 DEF IInv, LogIsReplayable, N
  <2>3. ASSUME NEW n \in 1 .. N + 1
        PROVE  /\ ops'[n].serverSeq = n
               /\ ops'[n].lamport \in Nat /\ ops'[n].lamport > LamportAt(n - 1)'
               /\ versions'[n] = Apply(versions'[n - 1], ops'[n])
    <3>1. CASE n = N + 1
      <4>1. n - 1 = N /\ N \in 0 .. N
        BY <3>1, <1>1
      <4> QED BY <3>1, <4>1, <1>1, <1>2, <1>3
    <3>2. CASE n # N + 1
      <4>1. n \in 1 .. N /\ n - 1 \in 0 .. N /\ n \in 0 .. N
        BY <3>2, <1>1
      <4>2. /\ ops[n].serverSeq = n
            /\ ops[n].lamport \in Nat /\ ops[n].lamport > LamportAt(n - 1)
            /\ versions[n] = Apply(versions[n - 1], ops[n])
        BY <4>1 DEF IInv, LogIsReplayable, N
      <4>3. LamportAt(n - 1)' = LamportAt(n - 1)
        BY <4>1, <1>3
      <4> QED BY <4>1, <4>2, <4>3, <1>1
    <3> QED BY <3>1, <3>2
  <2>4. \A n \in 0 .. Last' : Keyed(versions[n])'
    BY <2>2, <1>1 DEF Keyed
  <2> QED BY <1>1, <2>1, <2>3, <2>4 DEF LogIsReplayable
<1>8. RowIsVersion'
  <2>1. row.serverSeq \in 0 .. N /\ row.lamport = LamportAt(row.serverSeq)
        /\ row.drawables = Drawables(versions[row.serverSeq])
    BY DEF IInv, RowIsVersion, N
  <2>2. LamportAt(row.serverSeq)' = LamportAt(row.serverSeq)
    BY <2>1, <1>1, <1>4 DEF LamportAt
  <2> QED BY <2>1, <2>2, <1>1, <1>4 DEF RowIsVersion
<1>9. MemoryIsDurable'
  <2>1. LamportAt(serverSeq)' = lamport
    BY <1>1, <1>2, <1>4 DEF LamportAt
  <2> QED BY <1>1, <1>2, <1>4, <2>1 DEF MemoryIsDurable
<1>10. ChannelsAreGapless'
  <2> SUFFICES ASSUME NEW c \in Clients, NEW i \in 1 .. Len(inbox[c])
               PROVE  Fits(c, i)'
    BY <1>4 DEF ChannelsAreGapless
  <2>1. Fits(c, i) /\ i \in Nat \ {0}
    BY DEF IInv, ChannelsAreGapless, TypeOK, IsSequence
  <2>2. Last \in Nat /\ Last' \in Nat /\ Last <= Last'
    BY <1>1 DEF N
  <2> QED BY <1>1, <1>4, <2>1, <2>2, FitsStable DEF N
<1>11. MembersAreServed'
  BY <1>4, <1>5, MembersStable DEF IInv
<1>12. ViewsAreDurable'
  BY <1>1, <1>4 DEF IInv, ViewsAreDurable, N
<1> QED BY <1>6, <1>7, <1>8, <1>9, <1>10, <1>11, <1>12 DEF IInv

\* A snapshot of a room whose memory is the last version is that version.
LEMMA SnapshotFacts ==
  ASSUME IInv, phase \in {"idle", "persisted"}
  PROVE  /\ Snapshot \in [exists : BOOLEAN, lamport : Nat, serverSeq : Nat,
                          drawables : {Snapshot.drawables}]
         /\ Snapshot.serverSeq = Last /\ Last \in 0 .. Last
         /\ Snapshot.lamport = LamportAt(Last)
         /\ Snapshot.drawables = Drawables(versions[Last])
<1>1. /\ serverSeq = Last /\ doc = versions[Last] /\ lamport = LamportAt(Last)
      /\ Last \in Nat /\ lamport \in Nat
  BY LastInNat DEF IInv, TypeOK, MemoryIsDurable
<1>2. row \in [exists : BOOLEAN, lamport : Nat, serverSeq : Nat, drawables : {row.drawables}]
  BY DEF IInv, TypeOK
<1> DEFINE e == Drawables(doc)
<1>3. Snapshot = [row EXCEPT !.lamport = lamport, !.serverSeq = serverSeq, !.drawables = e]
  BY DEF Snapshot
<1>4. e = Drawables(versions[Last])
  BY <1>1
<1> HIDE DEF e
<1>5. Snapshot = [exists |-> row.exists, lamport |-> lamport, serverSeq |-> serverSeq,
                  drawables |-> e]
  BY <1>2, <1>3
<1> QED BY <1>1, <1>2, <1>4, <1>5

LEMMA SettleStep ==
  ASSUME IInv, Settle
  PROVE  IInv'
<1>1. Last \in Nat /\ Last' = Last /\ Published' = Published
  BY LastInNat DEF IInv, Settle, Last, Published
<1>2. row' \in {row, Snapshot} /\ opsSinceSnapshot' \in 0 .. SnapshotEvery - 1
  BY BoundsAssumption DEF Settle, SnapshotDue, IInv, TypeOK
<1>3. row' \in [exists : BOOLEAN, lamport : Nat, serverSeq : Nat, drawables : {row'.drawables}]
  BY <1>2, SnapshotFacts DEF Settle, SnapshotDue, IInv, TypeOK
<1>4. TypeOK'
  BY <1>2, <1>3 DEF IInv, TypeOK, Settle, network, IsSequence, Last
<1>5. LogIsReplayable' /\ ChannelsAreGapless' /\ ViewsAreDurable' /\ MembersAreServed'
  BY <1>1, LogStable, ChannelsStable, ViewsStable, MembersStable DEF IInv, Settle, network
<1>6. RowIsVersion'
  <2>1. CASE row' = row
    BY <2>1, RowStable DEF IInv, Settle, SnapshotDue
  <2>2. CASE row' = Snapshot
    BY <2>2, <1>1, SnapshotFacts DEF RowIsVersion, Settle, SnapshotDue, LamportAt
  <2> QED BY <1>2, <2>1, <2>2
<1>7. MemoryIsDurable'
  BY <1>1 DEF IInv, MemoryIsDurable, Settle, LamportAt
<1> QED BY <1>4, <1>5, <1>6, <1>7 DEF IInv

LEMMA BroadcastStep ==
  ASSUME IInv, Broadcast
  PROVE  IInv'
<1> DEFINE m == [type |-> "op", op |-> cur]
<1>1. /\ Last \in Nat /\ Last' = Last /\ Last > 0 /\ cur = ops[Last] /\ cur.serverSeq = Last
      /\ Published = Last - 1 /\ Published' = Last
  <2>1. Last \in Nat /\ Last > 0 /\ cur = ops[Last] /\ Last' = Last
    BY LastInNat DEF IInv, MemoryIsDurable, Broadcast, disk, Last
  <2>2. ops[Last].serverSeq = Last
    BY <2>1 DEF IInv, LogIsReplayable
  <2> QED BY <2>1, <2>2 DEF Published, Broadcast
<1>2. /\ \A c \in members : inbox'[c] = Append(inbox[c], m)
      /\ \A c \in Clients \ members : inbox'[c] = inbox[c]
      /\ DOMAIN inbox' = Clients /\ members \subseteq Clients
  BY DEF Broadcast, IInv, TypeOK
<1>3. m.type = "op" /\ m.op = cur /\ SeqOf(m) = Last
  BY <1>1 DEF SeqOf
<1> HIDE DEF m
<1>4. \A c \in Clients : IsSequence(inbox[c]) /\ Len(inbox[c]) \in Nat
  BY DEF IInv, TypeOK, IsSequence
<1>5. ASSUME NEW c \in members
      PROVE  /\ IsSequence(inbox'[c]) /\ Len(inbox'[c]) = Len(inbox[c]) + 1
             /\ inbox'[c][Len(inbox[c]) + 1] = m
             /\ \A i \in 1 .. Len(inbox[c]) : inbox'[c][i] = inbox[c][i]
  <2>1. IsSequence(inbox[c]) /\ inbox'[c] = Append(inbox[c], m)
    BY <1>2, <1>4
  <2> QED BY <2>1, AppendFacts
<1>6. UNCHANGED <<view, ops, versions, members>> /\ phase' = "idle"
  BY DEF Broadcast, disk
<1>7. TypeOK'
  <2>1. \A c \in Clients : IsSequence(inbox'[c])
    BY <1>2, <1>4, <1>5
  <2> QED BY <1>2, <2>1 DEF IInv, TypeOK, Broadcast, disk, IsSequence, Last
<1>8. LogIsReplayable' /\ RowIsVersion' /\ ViewsAreDurable'
  BY LogStable, RowStable, ViewsStable DEF IInv, Broadcast, disk
<1>9. MemoryIsDurable'
  BY <1>1 DEF IInv, MemoryIsDurable, Broadcast, disk, LamportAt
<1>10. ChannelsAreGapless'
  <2> SUFFICES ASSUME NEW c \in Clients, NEW i \in 1 .. Len(inbox'[c])
               PROVE  Fits(c, i)'
    BY DEF ChannelsAreGapless
  <2>1. CASE i \in 1 .. Len(inbox[c])
    <3>1. inbox'[c][i] = inbox[c][i] /\ (i # 1 => inbox'[c][i - 1] = inbox[c][i - 1])
          /\ i \in Nat \ {0}
      BY <2>1, <1>2, <1>4, <1>5
    <3>2. Fits(c, i)
      BY <2>1 DEF IInv, ChannelsAreGapless
    <3> QED BY <3>1, <3>2, <1>1, <1>6, FitsStable
  <2>2. CASE i \notin 1 .. Len(inbox[c])
    <3>1. c \in members /\ i = Len(inbox[c]) + 1 /\ inbox'[c][i] = m
      BY <2>2, <1>2, <1>4, <1>5
    <3>2. Before(c, Len(inbox[c]) + 1) = Last - 1 /\ (inbox[c] = <<>> => view[c].on)
      BY <3>1, <1>1 DEF IInv, MembersAreServed
    <3>3. i # 1 => inbox'[c][i - 1] = inbox[c][i - 1]
      BY <3>1, <1>4, <1>5
    <3>4. Before(c, i)' = Last - 1
      BY <3>1, <3>2, <3>3, <1>6 DEF Before
    <3>5. i = 1 => view'[c].on
      <4>1. i = 1 => Len(inbox[c]) = 0
        BY <3>1, <1>4
      <4>2. Len(inbox[c]) = 0 => inbox[c] = <<>>
        BY <1>4, SequenceOfLengthZero
      <4> QED BY <4>1, <4>2, <3>2, <1>6
    <3>6. OpFits(c, i)'
      BY <3>1, <3>4, <3>5, <1>1, <1>3, <1>6 DEF OpFits
    <3> QED BY <3>1, <3>6, <1>3 DEF Fits
  <2> QED BY <2>1, <2>2
<1>11. MembersAreServed'
  <2> SUFFICES ASSUME NEW c \in members
               PROVE  /\ Before(c, Len(inbox[c]) + 1)' = Last
                      /\ inbox'[c] = <<>> => view'[c].on
    BY <1>1, <1>6 DEF MembersAreServed
  <2>1. Len(inbox'[c]) + 1 # 1 /\ inbox'[c][Len(inbox'[c])] = m
    BY <1>2, <1>4, <1>5
  <2>2. Len(inbox'[c]) \in Nat
    BY <1>5 DEF IsSequence
  <2>3. Before(c, Len(inbox[c]) + 1)' = Last
    BY <2>1, <2>2, <1>3 DEF Before
  <2>4. inbox'[c] # <<>>
    BY <1>2, <1>4, <1>5
  <2> QED BY <2>3, <2>4
<1> QED BY <1>7, <1>8, <1>9, <1>10, <1>11 DEF IInv

LEMMA ShutdownStep ==
  ASSUME IInv, Shutdown
  PROVE  IInv'
<1>1. Last \in Nat /\ Last' = Last /\ Published' = Published
  BY LastInNat DEF IInv, Shutdown, Last, Published
<1>2. row' = row \/ (phase = "idle" /\ row' = Snapshot)
  BY DEF Shutdown
<1>3. row' \in [exists : BOOLEAN, lamport : Nat, serverSeq : Nat, drawables : {row'.drawables}]
  BY <1>2, SnapshotFacts DEF IInv, TypeOK
<1>4. TypeOK'
  BY <1>3 DEF IInv, TypeOK, Shutdown, memory, network, IsSequence, Last
<1>5. LogIsReplayable' /\ ChannelsAreGapless' /\ ViewsAreDurable' /\ MembersAreServed'
  BY <1>1, LogStable, ChannelsStable, ViewsStable, MembersStable DEF IInv, Shutdown, network
<1>6. RowIsVersion'
  <2>1. CASE row' = row
    BY <2>1, RowStable DEF IInv, Shutdown
  <2>2. CASE phase = "idle" /\ row' = Snapshot
    BY <2>2, <1>1, SnapshotFacts DEF RowIsVersion, Shutdown, LamportAt
  <2> QED BY <1>2, <2>1, <2>2
<1>7. MemoryIsDurable'
  BY <1>1 DEF IInv, MemoryIsDurable, Shutdown, memory, LamportAt
<1> QED BY <1>4, <1>5, <1>6, <1>7 DEF IInv

LEMMA CrashStep ==
  ASSUME IInv, Crash
  PROVE  IInv'
<1>1. Last \in Nat /\ Last' = Last
  BY LastInNat DEF IInv, Crash, Last
<1>2. PICK n \in [Clients -> 0 .. MaxSeq + 1] :
        /\ \A c \in Clients : n[c] <= Len(inbox[c])
        /\ inbox' = [c \in Clients |-> SubSeq(inbox[c], 1, n[c])]
  BY DEF Crash
<1>3. ChannelsAreGapless' /\ \A c \in Clients : IsSequence(inbox'[c])
  <2>1. \A c \in Clients : n[c] \in 0 .. Len(inbox[c]) /\ inbox'[c] = SubSeq(inbox[c], 1, n[c])
    BY <1>2, BoundsAssumption, SMTT(30) DEF IInv, TypeOK, IsSequence
  <2> QED BY <2>1, PrefixesFit DEF Crash
<1>4. TypeOK'
  <2>1. /\ phase' = "absent" /\ lamport' = 0 /\ serverSeq' = 0 /\ opsSinceSnapshot' = 0
        /\ members' = {} /\ dbOpen' = TRUE
        /\ crashes' \in 0 .. MaxCrashes /\ DOMAIN inbox' = Clients
    BY <1>2, BoundsAssumption DEF Crash, IInv, TypeOK
  <2>2. 0 \in 0 .. SnapshotEvery - 1
    BY BoundsAssumption
  <2> QED BY <1>3, <2>1, <2>2, SMTT(30) DEF IInv, TypeOK, Crash, IsSequence, Last
<1>5. LogIsReplayable' /\ RowIsVersion' /\ ViewsAreDurable'
  BY LogStable, RowStable, ViewsStable DEF IInv, Crash
<1>6. MemoryIsDurable' /\ MembersAreServed'
  BY DEF MemoryIsDurable, MembersAreServed, Crash
<1> QED BY <1>3, <1>4, <1>5, <1>6 DEF IInv

LEMMA StepIInv == IInv /\ [Next]_vars => IInv'
<1> SUFFICES ASSUME IInv, [Next]_vars PROVE IInv'
  OBVIOUS
<1>1. CASE UNCHANGED vars
  <2>1. UNCHANGED <<phase, doc, lamport, serverSeq, opsSinceSnapshot, cur, row, ops, dbOpen,
                    members, inbox, view, crashes, versions>>
    BY <1>1 DEF vars, memory, disk, network
  <2>2. TypeOK'
    BY <2>1 DEF IInv, TypeOK, IsSequence, Last
  <2>3. MemoryIsDurable' /\ Published' = Published
    BY <2>1 DEF IInv, MemoryIsDurable, LamportAt, Last, Published, Keyed
  <2> QED BY <2>1, <2>2, <2>3, LogStable, RowStable, ChannelsStable, ViewsStable, MembersStable
          DEF IInv
<1>2. CASE PostRoom \/ LoadRoom \/ ReplayOp \/ RoomReady
  BY <1>2, PostRoomStep, LoadRoomStep, ReplayOpStep, RoomReadyStep
<1>3. ASSUME NEW c \in Clients, Join(c) \/ Leave(c) \/ Deliver(c)
      PROVE  IInv'
  BY <1>3, JoinStep, LeaveStep, DeliverStep
<1>4. ASSUME NEW c \in Clients, NEW op \in Ops, Submit(c, op)
      PROVE  IInv'
  BY <1>4, SubmitStep
<1>5. CASE WriteOp \/ Settle \/ Broadcast
  BY <1>5, WriteOpStep, SettleStep, BroadcastStep
<1>6. CASE Shutdown \/ Crash
  BY <1>6, ShutdownStep, CrashStep
<1> QED BY <1>1, <1>2, <1>3, <1>4, <1>5, <1>6 DEF Next

-------------------------------------------------------------------------------
(* The theorems *)

\* The inductive invariant: types, log, snapshot row, memory, channels and views
\* fit together after every step of every run, crashes included.
THEOREM Invariance == Spec => []IInv
<1>1. IInv /\ [Next]_vars => IInv'
  BY StepIInv
<1> QED BY InitIInv, <1>1, PTL DEF Spec

\* The variables keep their types.
THEOREM TypeCorrect == Spec => []TypeOK
<1>1. IInv => TypeOK
  BY DEF IInv
<1> QED BY Invariance, <1>1, PTL

\* The table of ops, replayed from the start, gives every version served.
THEOREM LogReplay == Spec => []LogIsReplayable
<1>1. IInv => LogIsReplayable
  BY DEF IInv
<1> QED BY Invariance, <1>1, PTL

\* The snapshot row is always a version of the document, with its own stamps.
THEOREM SnapshotIsVersion == Spec => []RowIsVersion
<1>1. IInv => RowIsVersion
  BY DEF IInv
<1> QED BY Invariance, <1>1, PTL

\* A room that serves clients holds exactly what the disk does.
THEOREM MemoryDurability == Spec => []MemoryIsDurable
<1>1. IInv => MemoryIsDurable
  BY DEF IInv
<1> QED BY Invariance, <1>1, PTL

\* No crash takes back an op that a viewer has seen.
THEOREM ViewDurability == Spec => []ViewsAreDurable
<1>1. IInv => ViewsAreDurable
  BY DEF IInv
<1> QED BY Invariance, <1>1, PTL

\* The stream of every connection is a snapshot and the ops right after it.
THEOREM GaplessChannels == Spec => []ChannelsAreGapless
<1>1. IInv => ChannelsAreGapless
  BY DEF IInv
<1> QED BY Invariance, <1>1, PTL

\* No member misses an op that was sent.
THEOREM ServedMembers == Spec => []MembersAreServed
<1>1. IInv => MembersAreServed
  BY DEF IInv
<1> QED BY Invariance, <1>1, PTL

\* A serverSeq is never handed out twice.
THEOREM KeysAreFresh == Spec => []NoKeyConflict
<1>1. IInv => NoKeyConflict
  <2> SUFFICES ASSUME IInv, phase = "applied" PROVE cur.serverSeq \notin DOMAIN ops
    BY DEF NoKeyConflict
  <2>1. cur.serverSeq = Last + 1
    BY DEF IInv, MemoryIsDurable
  <2> QED BY <2>1, LastInNat DEF IInv
<1> QED BY Invariance, <1>1, PTL

\* Viewers that have received everything agree with the room.
THEOREM Convergence == Spec => []CaughtUp
<1>1. IInv => CaughtUp
  <2> SUFFICES ASSUME IInv, NEW c \in members, phase = "idle", inbox[c] = <<>>
               PROVE  view[c].on /\ view[c].doc = doc
    BY DEF CaughtUp
  <2>1. Before(c, Len(inbox[c]) + 1) = Last /\ view[c].on
    BY DEF IInv, MembersAreServed, Published
  <2>2. Len(inbox[c]) = 0
    OBVIOUS
  <2>3. view[c].seq = Last
    BY <2>1, <2>2 DEF Before
  <2>4. view[c].doc = versions[Last] /\ doc = versions[Last]
    BY <2>3 DEF IInv, TypeOK, ViewsAreDurable, MemoryIsDurable
  <2> QED BY <2>1, <2>4
<1> QED BY Invariance, <1>1, PTL

-------------------------------------------------------------------------------
(* Refinement *)

LEMMA RefinesInit == Init => Durable!Init
BY DEF Init, Durable!Init

\* The insertion of a row extends the log, a delivery advances one viewer, and
\* nothing else changes the log or what a viewer has seen.
LEMMA RefinesStep == IInv /\ [Next]_vars => [Durable!Next]_Durable!vars
<1> SUFFICES ASSUME IInv, [Next]_vars PROVE Durable!Next \/ UNCHANGED Durable!vars
  OBVIOUS
<1>1. CASE UNCHANGED <<ops, view>>
  BY <1>1 DEF Durable!vars
<1>2. CASE WriteOp
  <2>1. /\ Len(ops') = Len(ops) + 1
        /\ \A i \in 1 .. Len(ops) : ops'[i] = ops[i]
    BY <1>2, WriteOpFacts DEF Last
  <2>2. view' = view
    BY <1>2 DEF WriteOp, network
  <2> QED BY <2>1, <2>2 DEF Durable!Next, Durable!Extend
<1>3. ASSUME NEW c \in Clients, Deliver(c)
      PROVE  Durable!Next \/ UNCHANGED Durable!vars
  <2> DEFINE seen == [d \in Clients |-> view[d].seq]
             n == view'[c].seq
  <2>1. /\ n \in 1 .. Len(ops) \cup {view[c].seq} /\ n >= view[c].seq
        /\ \A d \in Clients \ {c} : view'[d] = view[d]
    BY <1>3, DeliverFacts DEF Last
  <2>2. ops' = ops
    BY <1>3 DEF Deliver, disk
  <2>3. seen' = [seen EXCEPT ![c] = n]
    BY <2>1
  <2>4. CASE n = view[c].seq
    <3>1. seen' = seen
      BY <2>1, <2>4
    <3> QED BY <2>2, <3>1 DEF Durable!vars
  <2>5. CASE n # view[c].seq
    <3>1. n \in 1 .. Len(ops) /\ n >= seen[c]
      BY <2>1, <2>5
    <3> QED BY <2>2, <2>3, <3>1 DEF Durable!Next, Durable!Advance
  <2> QED BY <2>4, <2>5
<1>4. CASE \/ PostRoom \/ LoadRoom \/ ReplayOp \/ RoomReady
           \/ Settle \/ Broadcast \/ Shutdown \/ Crash
  BY <1>1, <1>4 DEF PostRoom, LoadRoom, ReplayOp, RoomReady, Settle, Broadcast, Shutdown, Crash, disk, network
<1>5. ASSUME NEW c \in Clients, Join(c) \/ Leave(c) \/ \E op \in Ops : Submit(c, op)
      PROVE  Durable!Next \/ UNCHANGED Durable!vars
  BY <1>1, <1>5 DEF Join, Admit, Welcome, Leave, Submit, disk, network
<1>6. CASE UNCHANGED vars
  BY <1>1, <1>6 DEF vars, disk, network
<1> QED BY <1>2, <1>3, <1>4, <1>5, <1>6 DEF Next

\* The room implements the abstract durable log.
THEOREM Refinement == Spec => DurableSpec
<1>1. IInv /\ [Next]_vars => [Durable!Next]_Durable!vars
  BY RefinesStep
<1> QED BY RefinesInit, Invariance, <1>1, PTL DEF Spec, DurableSpec, Durable!Spec

-------------------------------------------------------------------------------
(* The tail a restart replays *)

\* A process that has not loaded the room has counted nothing.
TailInv == (phase = "absent" => opsSinceSnapshot = 0) /\ TailBoundedByCrashes

LEMMA TailStep == IInv /\ TailInv /\ [Next]_vars => TailInv'
<1> SUFFICES ASSUME IInv, TailInv, [Next]_vars PROVE TailInv'
  OBVIOUS
<1> DEFINE k == crashes * SnapshotEvery
<1>1. /\ Last \in Nat /\ row.serverSeq \in 0 .. Last /\ crashes \in Nat
      /\ SnapshotEvery \in Nat \ {0} /\ opsSinceSnapshot \in 0 .. SnapshotEvery - 1
  BY LastInNat, BoundsAssumption DEF IInv, TypeOK, RowIsVersion
<1>2. k \in Nat /\ (crashes + 1) * SnapshotEvery = k + SnapshotEvery
  BY <1>1
<1> HIDE DEF k
<1>3. /\ phase = "absent" => opsSinceSnapshot = 0
      /\ Last - row.serverSeq <= k + opsSinceSnapshot + (IF phase = "persisted" THEN 1 ELSE 0)
  BY DEF TailInv, TailBoundedByCrashes, k
<1>4. crashes' = crashes => k' = k
  BY DEF k
<1>5. CASE UNCHANGED <<phase, row, ops, crashes, opsSinceSnapshot>>
  BY <1>3, <1>4, <1>5 DEF TailInv, TailBoundedByCrashes, Last, k
<1>6. CASE LoadRoom
  <2>1. row'.serverSeq = row.serverSeq /\ phase = "absent" /\ phase' = "replaying"
        /\ opsSinceSnapshot' = 0 /\ Last' = Last /\ k' = k
    BY <1>6, <1>4 DEF LoadRoom, EnsureRoom, IInv, TypeOK, Last
  <2> QED BY <1>3, <2>1 DEF TailInv, TailBoundedByCrashes, k
<1>7. CASE ReplayOp
  BY <1>5, <1>7 DEF ReplayOp, disk
<1>8. CASE RoomReady \/ \E c \in Clients, op \in Ops : Submit(c, op)
  <2>1. UNCHANGED <<row, ops, crashes, opsSinceSnapshot>>
        /\ phase # "absent" /\ phase # "persisted" /\ phase' # "absent" /\ phase' # "persisted"
    BY <1>8 DEF RoomReady, Submit, memory, disk
  <2> QED BY <1>3, <1>4, <2>1 DEF TailInv, TailBoundedByCrashes, Last, k
<1>9. ASSUME NEW c \in Clients, Join(c) \/ Leave(c) \/ Deliver(c)
      PROVE  TailInv'
  BY <1>5, <1>9 DEF Join, Admit, Welcome, Leave, Deliver, memory, disk
<1>10. CASE WriteOp
  <2>1. Last' = Last + 1 /\ UNCHANGED <<row, crashes, opsSinceSnapshot>>
        /\ phase = "applied" /\ phase' = "persisted"
    BY <1>10, WriteOpFacts DEF WriteOp, memory
  <2> QED BY <1>1, <1>2, <1>3, <1>4, <2>1 DEF TailInv, TailBoundedByCrashes, k
<1>11. CASE Settle
  <2>1. Last' = Last /\ k' = k /\ phase = "persisted" /\ phase' = "settled"
    BY <1>4, <1>11 DEF Settle, SnapshotDue, Last
  <2>2. CASE row' = Snapshot /\ opsSinceSnapshot' = 0
    BY <1>1, <1>2, <2>1, <2>2, SnapshotFacts DEF TailInv, TailBoundedByCrashes, k
  <2>3. CASE UNCHANGED row /\ opsSinceSnapshot' = opsSinceSnapshot + 1
    BY <1>1, <1>2, <1>3, <2>1, <2>3 DEF TailInv, TailBoundedByCrashes, k
  <2> QED BY <1>11, <2>2, <2>3 DEF Settle, SnapshotDue
<1>12. CASE Broadcast
  <2>1. UNCHANGED <<row, ops, crashes, opsSinceSnapshot>> /\ phase = "settled" /\ phase' = "idle"
    BY <1>12 DEF Broadcast, disk
  <2> QED BY <1>3, <1>4, <2>1 DEF TailInv, TailBoundedByCrashes, Last, k
<1>13. CASE Shutdown
  <2>1. Last' = Last /\ k' = k /\ phase' = phase /\ opsSinceSnapshot' = opsSinceSnapshot
        /\ phase \in {"absent", "idle"}
    BY <1>4, <1>13 DEF Shutdown, Last, memory
  <2>2. CASE phase = "idle"
    <3>1. row'.serverSeq = Last
      BY <1>13, <2>2, SnapshotFacts DEF Shutdown
    <3> QED BY <1>1, <1>2, <2>1, <2>2, <3>1 DEF TailInv, TailBoundedByCrashes, k
  <2>3. CASE phase = "absent"
    <3>1. row' = row
      BY <1>13, <2>3 DEF Shutdown
    <3> QED BY <1>3, <2>1, <2>3, <3>1 DEF TailInv, TailBoundedByCrashes, k
  <2> QED BY <2>1, <2>2, <2>3
<1>14. CASE Crash
  <2>1. Last' = Last /\ row' = row /\ phase' = "absent" /\ opsSinceSnapshot' = 0
        /\ crashes' = crashes + 1
    BY <1>14 DEF Crash, Last
  <2>2. crashes' * SnapshotEvery = k + SnapshotEvery
    BY <1>2, <2>1
  <2> QED BY <1>1, <1>2, <1>3, <2>1, <2>2 DEF TailInv, TailBoundedByCrashes
<1>15. CASE PostRoom
  <2>1. row'.serverSeq = row.serverSeq /\ Last' = Last /\ k' = k
        /\ UNCHANGED <<phase, opsSinceSnapshot>>
    BY <1>15, <1>4 DEF PostRoom, EnsureRoom, IInv, TypeOK, Last, memory
  <2> QED BY <1>3, <2>1 DEF TailInv, TailBoundedByCrashes, k
<1>16. CASE UNCHANGED vars
  BY <1>5, <1>16 DEF vars, memory, disk
<1> QED BY <1>6, <1>7, <1>8, <1>9, <1>10, <1>11, <1>12, <1>13, <1>14, <1>15, <1>16 DEF Next

\* A restart replays what the last process had counted and at most SnapshotEvery ops of
\* each one before it.
THEOREM TailBound == Spec => []TailBoundedByCrashes
<1>1. Init => TailInv
  <2> SUFFICES ASSUME Init PROVE TailInv
    OBVIOUS
  <2>1. Last = 0 /\ row.serverSeq = 0 /\ opsSinceSnapshot = 0 /\ crashes * SnapshotEvery = 0
    BY BoundsAssumption DEF Init, Last, NoRow
  <2> QED BY <2>1 DEF Init, TailInv, TailBoundedByCrashes
<1>2. TailInv => TailBoundedByCrashes
  BY DEF TailInv
<1> QED BY <1>1, <1>2, TailStep, Invariance, PTL DEF Spec

===============================================================================
