------------------------------- MODULE OTClient -------------------------------
(***************************************************************************)
(* The client's OT buffer, client/src/lib/otClient.ts, as operators on a   *)
(* record                                                                  *)
(*   [userId, serverState, pending, lamport, clientSeq].                   *)
(* The member "local" of the class is recomputed at the end of every       *)
(* method; here it is the operator Local.                                  *)
(***************************************************************************)
EXTENDS OT, SequencesExt

ApplyAll(doc, ops) == FoldLeft(Apply, doc, ops)

\* The render target: what the user sees.
Local(ot) == ApplyAll(ot.serverState, ot.pending)

\* A welcome makes a new OTClient from the snapshot (useRoom.ts:93-104).
Welcomed(userId, drawables, lamport) ==
  [userId |-> userId, serverState |-> MapById(drawables), pending |-> <<>>,
   lamport |-> lamport, clientSeq |-> 0]

\* Mutant: the counter is read before it is incremented.
Stamped_PostIncrement(ot, edit) ==
  Override(edit, [clientId |-> ot.userId, clientSeq |-> ot.clientSeq,
                  lamport |-> ot.lamport + 1, serverSeq |-> 0])

\* The stamps of the next local op.
Stamped(ot, edit) ==
  Override(edit, [clientId |-> ot.userId, clientSeq |-> ot.clientSeq + 1,
                  lamport |-> ot.lamport + 1, serverSeq |-> 0])

LocalOp(ot, edit) ==
  [userId |-> ot.userId, serverState |-> ot.serverState,
   pending |-> Append(ot.pending, Stamped(ot, edit)),
   lamport |-> ot.lamport + 1, clientSeq |-> ot.clientSeq + 1]

\* Those of the ops that were made after the one with number n.
After(ops, n) ==
  FoldLeft(LAMBDA kept, p : IF p.clientSeq > n THEN Append(kept, p) ELSE kept, <<>>, ops)

\* Mutant: the echo is taken off pending and not applied, as "we have it already".
OnEcho_NotApplied(ot, op) ==
  [userId |-> ot.userId, serverState |-> ot.serverState,
   pending |-> After(ot.pending, op.clientSeq),
   lamport |-> Larger(ot.lamport, op.lamport), clientSeq |-> ot.clientSeq]

\* Mutant: the echoed op itself stays pending.
OnEcho_OffByOne(ot, op) ==
  [userId |-> ot.userId, serverState |-> Apply(ot.serverState, op),
   pending |-> After(ot.pending, op.clientSeq - 1),
   lamport |-> Larger(ot.lamport, op.lamport), clientSeq |-> ot.clientSeq]

\* An op of one's own userId comes back: it and all earlier ones are settled.
OnEcho(ot, op) ==
  [userId |-> ot.userId, serverState |-> Apply(ot.serverState, op),
   pending |-> After(ot.pending, op.clientSeq),
   lamport |-> Larger(ot.lamport, op.lamport), clientSeq |-> ot.clientSeq]

\* Mutant: the two results are exchanged.
RebaseOver_Swapped(walk, p) ==
  [remote  |-> Transform(p, walk.remote),
   rebased |-> Append(walk.rebased, Transform(walk.remote, p))]

\* One step of the walk over pending: p is rebased over the remote op as it is
\* after the entries before p, and the remote op moves past p.
RebaseOver(walk, p) ==
  [remote  |-> Transform(walk.remote, p),
   rebased |-> Append(walk.rebased, Transform(p, walk.remote))]

Rebase(pending, op) == FoldLeft(RebaseOver, [remote |-> op, rebased |-> <<>>], pending)

\* Mutant: the clock does not follow remote ops.
OnRemote_NoLamport(ot, op) ==
  LET walk == Rebase(ot.pending, op)
  IN  [userId |-> ot.userId, serverState |-> Apply(ot.serverState, walk.remote),
       pending |-> walk.rebased, lamport |-> ot.lamport, clientSeq |-> ot.clientSeq]

OnRemote(ot, op) ==
  LET walk == Rebase(ot.pending, op)
  IN  [userId |-> ot.userId, serverState |-> Apply(ot.serverState, walk.remote),
       pending |-> walk.rebased,
       lamport |-> Larger(ot.lamport, op.lamport), clientSeq |-> ot.clientSeq]

OnServerOp(ot, op) ==
  IF op.clientId = ot.userId THEN OnEcho(ot, op) ELSE OnRemote(ot, op)

===============================================================================
