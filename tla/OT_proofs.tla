------------------------------- MODULE OT_proofs -------------------------------
(***************************************************************************)
(* Lemmas about sequences and about the operators of OT: what apply makes  *)
(* of a document, what transform makes of an op, and when two documents    *)
(* that differ come to the same under the same further ops.                *)
(***************************************************************************)
EXTENDS OT, SequenceTheorems, TLAPS

-------------------------------------------------------------------------------
(* Channels, logs and buffers are functions on 1 .. n, used as sequences. *)

LEMMA LenOfFunction ==
  ASSUME NEW n \in Nat, NEW s, DOMAIN s = 1 .. n, s = [i \in DOMAIN s |-> s[i]]
  PROVE  Len(s) = n /\ IsSequence(s)
<1>1. s \in Seq({s[i] : i \in 1 .. n})
  OBVIOUS
<1> QED BY <1>1 DEF IsSequence

LEMMA SeqIsSequence ==
  ASSUME NEW S, NEW s \in Seq(S)
  PROVE  IsSequence(s)
BY DEF IsSequence

LEMMA AppendFacts ==
  ASSUME NEW s, IsSequence(s), NEW m
  PROVE  /\ IsSequence(Append(s, m))
         /\ Len(Append(s, m)) = Len(s) + 1
         /\ Append(s, m)[Len(s) + 1] = m
         /\ \A i \in 1 .. Len(s) : Append(s, m)[i] = s[i]
<1> DEFINE S == {s[i] : i \in 1 .. Len(s)} \cup {m}
<1>1. s \in Seq(S)
  BY DEF IsSequence
<1>2. Append(s, m) \in Seq(S)
  BY <1>1
<1>3. IsSequence(Append(s, m))
  BY <1>2, SeqIsSequence
<1>4. m \in S
  OBVIOUS
<1> HIDE DEF S
<1> QED BY <1>1, <1>3, <1>4

LEMMA TailFacts ==
  ASSUME NEW s, IsSequence(s), s # <<>>
  PROVE  /\ Len(s) >= 1 /\ Head(s) = s[1]
         /\ IsSequence(Tail(s)) /\ Len(Tail(s)) = Len(s) - 1
         /\ \A i \in 1 .. Len(s) - 1 : Tail(s)[i] = s[i + 1]
<1> DEFINE S == {s[i] : i \in 1 .. Len(s)}
<1>1. s \in Seq(S)
  BY DEF IsSequence
<1>2. Tail(s) \in Seq(S)
  BY <1>1
<1>3. IsSequence(Tail(s))
  BY <1>2, SeqIsSequence
<1> HIDE DEF S
<1> QED BY <1>1, <1>3, HeadTailProperties, EmptySeq

LEMMA PrefixFacts ==
  ASSUME NEW s, IsSequence(s), NEW n \in 0 .. Len(s)
  PROVE  /\ IsSequence(SubSeq(s, 1, n)) /\ Len(SubSeq(s, 1, n)) = n
         /\ \A i \in 1 .. n : SubSeq(s, 1, n)[i] = s[i]
<1> DEFINE S == {s[i] : i \in 1 .. Len(s)}
<1>1. s \in Seq(S)
  BY DEF IsSequence
<1>2. SubSeq(s, 1, n) \in Seq(S)
  BY <1>1 DEF IsSequence
<1> QED BY <1>1, <1>2 DEF IsSequence

LEMMA SequenceOfLengthZero ==
  ASSUME NEW s, IsSequence(s), Len(s) = 0
  PROVE  s = <<>>
BY DEF IsSequence

LEMMA WholePrefix ==
  ASSUME NEW s, IsSequence(s)
  PROVE  SubSeq(s, 1, Len(s)) = s
<1>1. Len(s) \in 0 .. Len(s)
  BY DEF IsSequence
<1> DEFINE t == SubSeq(s, 1, Len(s))
<1>2. IsSequence(t) /\ Len(t) = Len(s) /\ \A i \in 1 .. Len(s) : t[i] = s[i]
  BY <1>1, PrefixFacts
<1> HIDE DEF t
<1>3. t = s
  BY <1>2 DEF IsSequence
<1> QED BY <1>3 DEF t
-------------------------------------------------------------------------------
(* Documents *)

\* Snapshots lose nothing: re-keying the list of drawables of a document by their
\* ids gives the document back (room.ts:43, 92-94; useRoom.ts:96).
THEOREM SnapshotRoundTrip ==
  ASSUME NEW d, Keyed(d)
  PROVE  MapById(Drawables(d)) = d
<1>1. {x.id : x \in Drawables(d)} = DOMAIN d
  BY DEF Keyed, Drawables
<1>2. ASSUME NEW i \in DOMAIN d
      PROVE  (CHOOSE x \in Drawables(d) : x.id = i) = d[i]
  <2>1. d[i] \in Drawables(d) /\ d[i].id = i
    BY DEF Keyed, Drawables
  <2>2. \A x \in Drawables(d) : x.id = i => x = d[i]
    BY DEF Keyed, Drawables
  <2> QED BY <2>1, <2>2
<1> QED BY <1>1, <1>2 DEF MapById, Keyed

\* What a patch or an add makes of a drawable.
LEMMA LargerFacts ==
  ASSUME NEW m \in Nat, NEW n \in Nat
  PROVE  /\ Larger(m, n) \in Nat /\ Larger(m, n) >= m /\ Larger(m, n) >= n
         /\ \A l \in Nat : m <= l /\ n <= l => Larger(m, n) <= l
BY DEF Larger

LEMMA PatchFacts ==
  ASSUME NEW d, IsDrawable(d), NEW patch, NEW lamport \in Nat
  PROVE  LET e == ApplyPatch(d, patch, lamport) IN
         /\ IsDrawable(e) /\ e.id = d.id /\ e.createdAt = d.createdAt
         /\ e.updatedAt = Larger(d.updatedAt, lamport)
         /\ DOMAIN e.fields = DOMAIN d.fields \cup DOMAIN patch
         /\ \A k \in DOMAIN d.fields \ DOMAIN patch : e.fields[k] = d.fields[k]
         /\ \A k \in DOMAIN patch : e.fields[k] =
              IF patch[k].append
                THEN (IF k \in DOMAIN d.fields THEN d.fields[k] ELSE <<>>) \o patch[k].v
                ELSE patch[k].v
<1>1. Larger(d.updatedAt, lamport) \in Nat
  BY LargerFacts DEF IsDrawable
<1> DEFINE written == [k \in DOMAIN patch |->
             IF patch[k].append
               THEN (IF k \in DOMAIN d.fields THEN d.fields[k] ELSE <<>>) \o patch[k].v
               ELSE patch[k].v]
           fields == Override(d.fields, written)
<1>2. /\ DOMAIN fields = DOMAIN d.fields \cup DOMAIN patch
      /\ fields = [k \in DOMAIN fields |-> fields[k]]
      /\ \A k \in DOMAIN d.fields \ DOMAIN patch : fields[k] = d.fields[k]
      /\ \A k \in DOMAIN patch : fields[k] = written[k]
  <2>1. DOMAIN written = DOMAIN patch
    OBVIOUS
  <2> HIDE DEF written
  <2> QED BY <2>1 DEF Override
<1>3. ApplyPatch(d, patch, lamport) =
        [id |-> d.id, createdAt |-> d.createdAt, updatedAt |-> Larger(d.updatedAt, lamport),
         fields |-> fields]
  BY DEF ApplyPatch
<1>4. \A k \in DOMAIN patch : written[k] =
        IF patch[k].append
          THEN (IF k \in DOMAIN d.fields THEN d.fields[k] ELSE <<>>) \o patch[k].v
          ELSE patch[k].v
  OBVIOUS
<1> HIDE DEF fields, written
<1>5. IsDrawable(ApplyPatch(d, patch, lamport))
  BY <1>1, <1>2, <1>3 DEF IsDrawable
<1>6. \A k \in DOMAIN patch : ApplyPatch(d, patch, lamport).fields[k] = written[k]
  BY <1>2, <1>3
<1> DEFINE e == ApplyPatch(d, patch, lamport)
<1>7. e.id = d.id /\ e.createdAt = d.createdAt /\ e.updatedAt = Larger(d.updatedAt, lamport)
      /\ e.fields = fields
  BY <1>3
<1>8. \A k \in DOMAIN patch : e.fields[k] =
        IF patch[k].append
          THEN (IF k \in DOMAIN d.fields THEN d.fields[k] ELSE <<>>) \o patch[k].v
          ELSE patch[k].v
  <2> SUFFICES ASSUME NEW k \in DOMAIN patch
               PROVE  e.fields[k] = IF patch[k].append
                 THEN (IF k \in DOMAIN d.fields THEN d.fields[k] ELSE <<>>) \o patch[k].v
                 ELSE patch[k].v
    OBVIOUS
  <2> HIDE DEF e
  <2>1. e.fields[k] = written[k]
    BY <1>6 DEF e
  <2> QED BY <2>1, <1>4, Zenon
<1>9. IsDrawable(e)
  BY <1>5
<1> HIDE DEF e
<1>10. DOMAIN e.fields = DOMAIN d.fields \cup DOMAIN patch
       /\ \A k \in DOMAIN d.fields \ DOMAIN patch : e.fields[k] = d.fields[k]
  BY <1>2, <1>7
<1> QED BY <1>7, <1>8, <1>9, <1>10, Zenon DEF e

LEMMA MergeFacts ==
  ASSUME NEW d, IsDrawable(d), NEW op, IsDrawable(op.shape), op.lamport \in Nat
  PROVE  LET e == MergeAdd(d, op) IN
         /\ IsDrawable(e) /\ e.id = op.shape.id /\ e.createdAt = d.createdAt
         /\ e.updatedAt = Larger(d.updatedAt, op.lamport)
         /\ DOMAIN e.fields = DOMAIN d.fields \cup DOMAIN op.shape.fields
         /\ \A k \in DOMAIN e.fields : e.fields[k] =
              IF k \in DOMAIN op.shape.fields THEN op.shape.fields[k] ELSE d.fields[k]
<1>1. Larger(d.updatedAt, op.lamport) \in Nat
  BY LargerFacts DEF IsDrawable
<1> DEFINE fields == Override(d.fields, op.shape.fields)
<1>2. /\ DOMAIN fields = DOMAIN d.fields \cup DOMAIN op.shape.fields
      /\ fields = [k \in DOMAIN fields |-> fields[k]]
      /\ \A k \in DOMAIN fields :
           fields[k] = IF k \in DOMAIN op.shape.fields THEN op.shape.fields[k] ELSE d.fields[k]
  BY DEF Override
<1>3. MergeAdd(d, op) = [id |-> op.shape.id, createdAt |-> d.createdAt,
                         updatedAt |-> Larger(d.updatedAt, op.lamport), fields |-> fields]
  BY DEF MergeAdd
<1> HIDE DEF fields
<1>4. IsDrawable(MergeAdd(d, op))
  BY <1>1, <1>2, <1>3 DEF IsDrawable
<1> QED BY <1>2, <1>3, <1>4

\* Documents are equal if they have the same drawables, and drawables if they have the
\* same members.
LEMMA SameDrawable ==
  ASSUME NEW d, NEW e, IsDrawable(d), IsDrawable(e), d.id = e.id, d.createdAt = e.createdAt,
         d.updatedAt = e.updatedAt, DOMAIN d.fields = DOMAIN e.fields,
         \A k \in DOMAIN d.fields : d.fields[k] = e.fields[k]
  PROVE  d = e
<1>1. d.fields = [k \in DOMAIN d.fields |-> d.fields[k]] /\ e.fields = [k \in DOMAIN e.fields |-> e.fields[k]]
  BY DEF IsDrawable
<1>2. d.fields = e.fields
  BY <1>1
<1> QED BY <1>2 DEF IsDrawable

LEMMA SameDoc ==
  ASSUME NEW d, NEW e, IsDoc(d), IsDoc(e), DOMAIN d = DOMAIN e, \A i \in DOMAIN d : d[i] = e[i]
  PROVE  d = e
BY DEF IsDoc, Keyed

\* An op as a client makes it.  The elements of "lists" are the fields that are appended
\* to; the others are set.
IsEdit(op, lists) ==
  /\ {"type", "id", "clientId", "clientSeq", "lamport"} \subseteq DOMAIN op
  /\ op.type \in {"add", "remove", "patch"} /\ op.lamport \in Nat
  /\ op.type = "add" => "shape" \in DOMAIN op /\ IsDrawable(op.shape) /\ op.shape.id = op.id
  /\ op.type = "patch" =>
       /\ "patch" \in DOMAIN op /\ DOMAIN op.patch # {}
       /\ \A k \in DOMAIN op.patch : op.patch[k].append = (k \in lists)

\* What each sort of op makes of a document.
LEMMA ApplyAddFacts ==
  ASSUME NEW doc, IsDoc(doc), NEW op, NEW lists, IsEdit(op, lists), op.type = "add"
  PROVE  /\ IsDoc(Apply(doc, op)) /\ DOMAIN Apply(doc, op) = DOMAIN doc \cup {op.id}
         /\ \A i \in DOMAIN doc \ {op.id} : Apply(doc, op)[i] = doc[i]
         /\ Apply(doc, op)[op.id] = IF op.id \in DOMAIN doc THEN MergeAdd(doc[op.id], op) ELSE op.shape
<1> DEFINE e == Apply(doc, op)
<1>1. e = Override(doc, [i \in {op.id} |-> IF i \in DOMAIN doc THEN MergeAdd(doc[i], op) ELSE op.shape])
  BY DEF Apply, ApplyAdd
<1>2. /\ DOMAIN e = DOMAIN doc \cup {op.id} /\ e = [i \in DOMAIN e |-> e[i]]
      /\ \A i \in DOMAIN doc \ {op.id} : e[i] = doc[i]
      /\ e[op.id] = IF op.id \in DOMAIN doc THEN MergeAdd(doc[op.id], op) ELSE op.shape
  BY <1>1 DEF Override
<1>3. IsDrawable(op.shape) /\ op.shape.id = op.id /\ op.lamport \in Nat
  BY DEF IsEdit
<1> HIDE DEF e
<1>4. IsDrawable(e[op.id]) /\ e[op.id].id = op.id
  <2>1. CASE op.id \in DOMAIN doc
    <3>1. IsDrawable(doc[op.id])
      BY <2>1 DEF IsDoc
    <3> QED BY <1>2, <1>3, <2>1, <3>1, MergeFacts
  <2> QED BY <1>2, <1>3, <2>1
<1>5. \A i \in DOMAIN e : IsDrawable(e[i]) /\ e[i].id = i
  BY <1>2, <1>4 DEF IsDoc, Keyed
<1>6. \A d : IsDrawable(d) => "id" \in DOMAIN d
  BY DEF IsDrawable
<1> QED BY <1>2, <1>5, <1>6 DEF IsDoc, Keyed, e

LEMMA ApplyRemoveFacts ==
  ASSUME NEW doc, IsDoc(doc), NEW op, op.type = "remove"
  PROVE  /\ IsDoc(Apply(doc, op)) /\ DOMAIN Apply(doc, op) = DOMAIN doc \ {op.id}
         /\ \A i \in DOMAIN doc \ {op.id} : Apply(doc, op)[i] = doc[i]
<1>1. Apply(doc, op) = [i \in DOMAIN doc \ {op.id} |-> doc[i]]
  BY DEF Apply, Delete, Restrict
<1> QED BY <1>1 DEF IsDoc, Keyed

LEMMA ApplyPatchFacts ==
  ASSUME NEW doc, IsDoc(doc), NEW op, op.type = "patch", op.lamport \in Nat
  PROVE  /\ IsDoc(Apply(doc, op)) /\ DOMAIN Apply(doc, op) = DOMAIN doc
         /\ \A i \in DOMAIN doc \ {op.id} : Apply(doc, op)[i] = doc[i]
         /\ op.id \in DOMAIN doc => Apply(doc, op)[op.id] = ApplyPatch(doc[op.id], op.patch, op.lamport)
<1>1. CASE op.id \notin DOMAIN doc
  BY <1>1 DEF Apply
<1>2. CASE op.id \in DOMAIN doc
  <2> DEFINE d == ApplyPatch(doc[op.id], op.patch, op.lamport)
  <2>1. Apply(doc, op) = [doc EXCEPT ![op.id] = d]
    BY <1>2 DEF Apply
  <2>2. IsDrawable(d) /\ d.id = op.id
    BY <1>2, PatchFacts DEF IsDoc, Keyed
  <2> HIDE DEF d
  <2>3. \A e : IsDrawable(e) => "id" \in DOMAIN e
    BY DEF IsDrawable
  <2>4. Apply(doc, op) = [i \in DOMAIN doc |-> IF i = op.id THEN d ELSE doc[i]]
    BY <2>1 DEF IsDoc, Keyed
  <2>5. /\ DOMAIN Apply(doc, op) = DOMAIN doc
        /\ \A i \in DOMAIN doc : Apply(doc, op)[i] = IF i = op.id THEN d ELSE doc[i]
        /\ Apply(doc, op) = [i \in DOMAIN Apply(doc, op) |-> Apply(doc, op)[i]]
    BY <2>4
  <2>6. IsDoc(Apply(doc, op))
    BY <2>2, <2>3, <2>5 DEF IsDoc, Keyed
  <2> QED BY <1>2, <2>5, <2>6 DEF d
<1> QED BY <1>1, <1>2

LEMMA ApplyNoop ==
  ASSUME NEW doc, NEW op, op.type = "noop"
  PROVE  Apply(doc, op) = doc
BY DEF Apply

-------------------------------------------------------------------------------
(* Transformed ops *)

\* What rebasing may make of an op: a noop, or still an edit.
IsForm(op, lists) ==
  op.lamport \in Nat /\ (op.type = "noop" \/ IsEdit(op, lists))

\* { ...a, patch: p } and { ...a, shape: d }.
LEMMA WithPatch ==
  ASSUME NEW a, NEW p, "patch" \in DOMAIN a
  PROVE  LET c == [a EXCEPT !.patch = p] IN
         DOMAIN c = DOMAIN a /\ c.patch = p /\ \A f \in DOMAIN a \ {"patch"} : c[f] = a[f]
<1> DEFINE c == [a EXCEPT !.patch = p]
<1>1. c.patch = p
  BY Zenon
<1>2. \A f \in DOMAIN a \ {"patch"} : c[f] = a[f]
  BY Zenon
<1>3. DOMAIN c = DOMAIN a
  BY Zenon
<1> QED BY <1>1, <1>2, <1>3

LEMMA WithShape ==
  ASSUME NEW a, NEW d, "shape" \in DOMAIN a
  PROVE  LET c == [a EXCEPT !.shape = d] IN
         DOMAIN c = DOMAIN a /\ c.shape = d /\ \A f \in DOMAIN a \ {"shape"} : c[f] = a[f]
<1> DEFINE c == [a EXCEPT !.shape = d]
<1>1. c.shape = d
  BY Zenon
<1>2. \A f \in DOMAIN a \ {"shape"} : c[f] = a[f]
  BY Zenon
<1>3. DOMAIN c = DOMAIN a
  BY Zenon
<1> QED BY <1>1, <1>2, <1>3

LEMMA NoopFacts ==
  ASSUME NEW op
  PROVE  /\ AsNoop(op).type = "noop" /\ AsNoop(op).lamport = op.lamport
         /\ AsNoop(op).clientSeq = op.clientSeq /\ AsNoop(op).clientId = op.clientId
BY DEF AsNoop

\* The fields that a keeps beside b.
Kept(a, b) ==
  {k \in DOMAIN a.patch :
     ~(k \in DOMAIN b.patch /\ Beats(b, a) /\ ~(a.patch[k].append /\ b.patch[k].append))}

\* Two patches of one drawable: the fields that b does not take away stay as they are.
LEMMA MergePatchesFacts ==
  ASSUME NEW a, NEW b, NEW lists, IsEdit(a, lists), a.type = "patch"
  PROVE  LET c == MergePatches(a, b) IN
         /\ Kept(a, b) = {} => c = AsNoop(a)
         /\ Kept(a, b) # {} =>
              /\ IsEdit(c, lists) /\ c.type = "patch" /\ c.id = a.id /\ c.clientId = a.clientId
              /\ c.clientSeq = a.clientSeq /\ c.lamport = a.lamport
              /\ DOMAIN c.patch = Kept(a, b) /\ \A k \in Kept(a, b) : c.patch[k] = a.patch[k]
<1> DEFINE lost == {k \in DOMAIN a.patch \cap DOMAIN b.patch :
                     Beats(b, a) /\ ~(a.patch[k].append /\ b.patch[k].append)}
           p == Restrict(a.patch, Kept(a, b))
           e == [a EXCEPT !.patch = p]
<1>1. DOMAIN a.patch \ lost = Kept(a, b)
  BY DEF Kept
<1>2. MergePatches(a, b) = IF Kept(a, b) = {} THEN AsNoop(a) ELSE e
  <2>1. MergePatches(a, b) = IF DOMAIN a.patch \ lost = {} THEN AsNoop(a)
                             ELSE [a EXCEPT !.patch = Restrict(a.patch, DOMAIN a.patch \ lost)]
    BY Zenon DEF MergePatches
  <2> HIDE DEF lost
  <2> QED BY <1>1, <2>1, Zenon
<1>3. DOMAIN p = Kept(a, b) /\ \A k \in Kept(a, b) : p[k] = a.patch[k]
  BY DEF Restrict, Kept
<1>4. Kept(a, b) \subseteq DOMAIN a.patch
  BY DEF Kept
<1>5. "patch" \in DOMAIN a
  BY DEF IsEdit
<1> HIDE DEF p
<1>6. DOMAIN e = DOMAIN a /\ e.patch = p /\ \A f \in DOMAIN a \ {"patch"} : e[f] = a[f]
  BY <1>5, WithPatch, Zenon
<1> HIDE DEF e
<1>7. ASSUME Kept(a, b) # {}
      PROVE  /\ IsEdit(e, lists) /\ e.type = "patch" /\ e.id = a.id /\ e.clientId = a.clientId
             /\ e.clientSeq = a.clientSeq /\ e.lamport = a.lamport
             /\ DOMAIN e.patch = Kept(a, b) /\ \A k \in Kept(a, b) : e.patch[k] = a.patch[k]
  BY <1>3, <1>4, <1>6, <1>7 DEF IsEdit
<1> QED BY <1>2, <1>7, Zenon

\* An add after a patch of the same drawable carries what the patch wrote.
LEMMA AddOverPatch ==
  ASSUME NEW a, NEW b, NEW lists, IsEdit(a, lists), a.type = "add", b.lamport \in Nat
  PROVE  LET c == [a EXCEPT !.shape = ApplyPatch(@, b.patch, Larger(a.lamport, b.lamport))] IN
         /\ IsEdit(c, lists) /\ c.type = "add" /\ c.id = a.id /\ c.clientId = a.clientId
         /\ c.clientSeq = a.clientSeq /\ c.lamport = a.lamport
         /\ c.shape.updatedAt = Larger(a.shape.updatedAt, Larger(a.lamport, b.lamport))
<1> DEFINE d == ApplyPatch(a.shape, b.patch, Larger(a.lamport, b.lamport))
           c == [a EXCEPT !.shape = d]
<1>1. IsDrawable(a.shape) /\ a.shape.id = a.id /\ "shape" \in DOMAIN a /\ a.lamport \in Nat
  BY DEF IsEdit
<1>2. Larger(a.lamport, b.lamport) \in Nat
  BY <1>1, LargerFacts
<1>3. IsDrawable(d) /\ d.id = a.id
      /\ d.updatedAt = Larger(a.shape.updatedAt, Larger(a.lamport, b.lamport))
  BY <1>1, <1>2, PatchFacts
<1> HIDE DEF d
<1>4. DOMAIN c = DOMAIN a /\ c.shape = d /\ \A f \in DOMAIN a \ {"shape"} : c[f] = a[f]
  BY <1>1, WithShape, Zenon
<1> HIDE DEF c
<1>5. /\ IsEdit(c, lists) /\ c.type = "add" /\ c.id = a.id /\ c.clientId = a.clientId
      /\ c.clientSeq = a.clientSeq /\ c.lamport = a.lamport
  BY <1>3, <1>4 DEF IsEdit
<1>6. c = [a EXCEPT !.shape = ApplyPatch(@, b.patch, Larger(a.lamport, b.lamport))]
  BY Zenon DEF c, d
<1>7. c.shape.updatedAt = Larger(a.shape.updatedAt, Larger(a.lamport, b.lamport))
  BY <1>3, <1>4
<1> QED BY <1>5, <1>6, <1>7, Zenon

\* transform, case by case.
LEMMA TransformApart ==
  ASSUME NEW a, NEW b, a.type = "noop" \/ b.type = "noop" \/ a.id # b.id
  PROVE  Transform(a, b) = a
BY Zenon DEF Transform

LEMMA TransformTogether ==
  ASSUME NEW a, NEW b, a.id = b.id,
         a.type \in {"add", "remove", "patch"}, b.type \in {"add", "remove", "patch"}
  PROVE  LET c == Transform(a, b) IN
         /\ b.type = "remove" => c = AsNoop(a)
         /\ a.type = "remove" /\ b.type # "remove" => c = a
         /\ a.type = "patch" /\ b.type = "add" => c = a
         /\ a.type = "patch" /\ b.type = "patch" => c = MergePatches(a, b)
         /\ a.type = "add" /\ b.type = "add" => c = IF Beats(b, a) THEN AsNoop(a) ELSE a
         /\ a.type = "add" /\ b.type = "patch" =>
              c = [a EXCEPT !.shape = ApplyPatch(@, b.patch, Larger(a.lamport, b.lamport))]
<1>1. Transform(a, b) = TransformSameId(a, b)
  BY Zenon DEF Transform
<1>2. b.type = "remove" => Transform(a, b) = AsNoop(a)
  BY <1>1, Zenon DEF TransformSameId
<1>3. a.type = "remove" /\ b.type # "remove" => Transform(a, b) = a
  BY <1>1, Zenon DEF TransformSameId
<1>4. a.type = "patch" /\ b.type = "add" => Transform(a, b) = a
  BY <1>1, Zenon DEF TransformSameId
<1>5. a.type = "patch" /\ b.type = "patch" => Transform(a, b) = MergePatches(a, b)
  BY <1>1, Zenon DEF TransformSameId
<1>6. a.type = "add" /\ b.type = "add" =>
        Transform(a, b) = IF Beats(b, a) THEN AsNoop(a) ELSE a
  BY <1>1, Zenon DEF TransformSameId
<1>7. a.type = "add" /\ b.type = "patch" =>
        Transform(a, b) = [a EXCEPT !.shape = ApplyPatch(@, b.patch, Larger(a.lamport, b.lamport))]
  BY <1>1, Zenon DEF TransformSameId
<1> QED BY <1>2, <1>3, <1>4, <1>5, <1>6, <1>7, Zenon

\* What every transformed op has of the op it was made from.
LEMMA TransformFacts ==
  ASSUME NEW a, NEW b, NEW lists, IsForm(a, lists), IsForm(b, lists)
  PROVE  LET c == Transform(a, b) IN
         /\ IsForm(c, lists) /\ c.lamport = a.lamport
         /\ c.clientSeq = a.clientSeq /\ c.clientId = a.clientId
         /\ c.type # "noop" => c.type = a.type /\ c.id = a.id
         /\ c.type = "add" => c.shape.updatedAt = a.shape.updatedAt
                 \/ c.shape.updatedAt = Larger(a.shape.updatedAt, Larger(a.lamport, b.lamport))
<1> DEFINE c == Transform(a, b)
           Good(e) ==
             /\ IsForm(e, lists) /\ e.lamport = a.lamport
             /\ e.clientSeq = a.clientSeq /\ e.clientId = a.clientId
             /\ e.type # "noop" => e.type = a.type /\ e.id = a.id
             /\ e.type = "add" => e.shape.updatedAt = a.shape.updatedAt
                 \/ e.shape.updatedAt = Larger(a.shape.updatedAt, Larger(a.lamport, b.lamport))
<1>1. Good(a)
  OBVIOUS
<1>2. Good(AsNoop(a))
  BY NoopFacts DEF IsForm
<1>3. CASE a.type = "noop" \/ b.type = "noop" \/ a.id # b.id
  BY <1>1, <1>3, TransformApart, Zenon
<1>4. CASE ~(a.type = "noop" \/ b.type = "noop" \/ a.id # b.id)
  <2>1. IsEdit(a, lists) /\ a.type \in {"add", "remove", "patch"} /\ a.id = b.id
    BY <1>4 DEF IsForm, IsEdit
  <2>2. b.type \in {"add", "remove", "patch"} /\ b.lamport \in Nat
    BY <1>4 DEF IsForm, IsEdit
  <2>3. CASE a.type = "patch" /\ b.type = "patch"
    <3>1. c = MergePatches(a, b)
      BY <2>1, <2>2, <2>3, TransformTogether, Zenon
    <3>2. CASE Kept(a, b) = {}
      <4>1. c = AsNoop(a)
        BY <2>1, <2>3, <3>1, <3>2, MergePatchesFacts, Zenon
      <4> HIDE DEF Good, c
      <4> QED BY <1>2, <4>1 DEF Good, c
    <3>3. CASE Kept(a, b) # {}
      <4> HIDE DEF c, Good
      <4>1. /\ IsEdit(c, lists) /\ c.type = "patch" /\ c.id = a.id /\ c.clientId = a.clientId
            /\ c.clientSeq = a.clientSeq /\ c.lamport = a.lamport
        BY <2>1, <2>3, <3>1, <3>3, MergePatchesFacts
      <4>2. c.lamport \in Nat
        BY <4>1 DEF IsEdit
      <4>3. Good(c)
        BY <2>3, <4>1, <4>2 DEF IsForm, Good
      <4> QED BY <4>3 DEF c, Good
    <3> QED BY <3>2, <3>3
  <2>4. CASE a.type = "add" /\ b.type = "patch"
    <3> DEFINE e == [a EXCEPT !.shape = ApplyPatch(@, b.patch, Larger(a.lamport, b.lamport))]
    <3>1. c = e
      BY <2>1, <2>2, <2>4, TransformTogether, Zenon
    <3>2. /\ IsEdit(e, lists) /\ e.type = "add" /\ e.id = a.id /\ e.clientId = a.clientId
          /\ e.clientSeq = a.clientSeq /\ e.lamport = a.lamport
          /\ e.shape.updatedAt = Larger(a.shape.updatedAt, Larger(a.lamport, b.lamport))
      BY <2>1, <2>2, <2>4, AddOverPatch, Zenon
    <3> HIDE DEF e
    <3>3. e.lamport \in Nat
      BY <3>2 DEF IsEdit
    <3>4. Good(e)
      BY <2>4, <3>2, <3>3 DEF IsForm
    <3> QED BY <3>1, <3>4, Zenon
  <2>5. CASE ~(b.type = "patch" /\ a.type \in {"add", "patch"})
    <3>1. c = a \/ c = AsNoop(a)
      BY <2>1, <2>2, <2>5, TransformTogether, Zenon
    <3> HIDE DEF Good, c
    <3> QED BY <1>1, <1>2, <3>1, Zenon DEF Good, c
  <2> QED BY <2>1, <2>3, <2>4, <2>5
<1> QED BY <1>3, <1>4

\* A patch never grows, and its values stay what they were.
LEMMA TransformedPatch ==
  ASSUME NEW a, NEW b, NEW lists, IsForm(a, lists), IsForm(b, lists), a.type = "patch"
  PROVE  LET c == Transform(a, b) IN
         c.type = "patch" => /\ DOMAIN c.patch \subseteq DOMAIN a.patch
                             /\ \A k \in DOMAIN c.patch : c.patch[k] = a.patch[k]
<1> DEFINE c == Transform(a, b)
<1>1. CASE b.type = "noop" \/ a.id # b.id
  BY <1>1, TransformApart
<1>2. CASE ~(b.type = "noop" \/ a.id # b.id)
  <2>1. b.type \in {"add", "remove", "patch"} /\ a.id = b.id /\ IsEdit(a, lists)
    BY <1>2 DEF IsForm, IsEdit
  <2>2. CASE b.type = "patch"
    <3>1. c = MergePatches(a, b)
      BY <2>1, <2>2, TransformTogether, Zenon
    <3>2. CASE Kept(a, b) = {}
      <4>1. c = AsNoop(a)
        BY <2>1, <3>1, <3>2, MergePatchesFacts, Zenon
      <4>2. c.type = "noop"
        BY <4>1, NoopFacts, Zenon
      <4> QED BY <4>2
    <3>3. CASE Kept(a, b) # {}
      <4>1. DOMAIN c.patch = Kept(a, b) /\ \A k \in Kept(a, b) : c.patch[k] = a.patch[k]
        BY <2>1, <3>1, <3>3, MergePatchesFacts, ZenonT(30)
      <4> HIDE DEF c
      <4> QED BY <4>1 DEF Kept, c
    <3> QED BY <3>2, <3>3
  <2>3. CASE b.type = "remove"
    BY <2>1, <2>3, TransformTogether, NoopFacts, Zenon
  <2>4. CASE b.type = "add"
    <3>1. c = a
      BY <2>1, <2>4, TransformTogether, Zenon
    <3> QED BY <3>1
  <2> QED BY <2>1, <2>2, <2>3, <2>4
<1> QED BY <1>1, <1>2

\* What an op of whatever form makes of a document.
LEMMA ApplyFacts ==
  ASSUME NEW doc, IsDoc(doc), NEW op, NEW lists, IsForm(op, lists)
  PROVE  /\ IsDoc(Apply(doc, op))
         /\ \A i \in DOMAIN Apply(doc, op) :
              i \in DOMAIN doc \/ (op.type = "add" /\ i = op.id)
         /\ op.type = "add" => op.id \in DOMAIN Apply(doc, op)
<1>1. CASE op.type = "noop"
  <2>1. Apply(doc, op) = doc
    BY <1>1, ApplyNoop
  <2> QED BY <1>1, <2>1
<1>2. CASE op.type = "add"
  <2>1. IsEdit(op, lists)
    BY <1>2 DEF IsForm
  <2>2. IsDoc(Apply(doc, op)) /\ DOMAIN Apply(doc, op) = DOMAIN doc \cup {op.id}
    BY <1>2, <2>1, ApplyAddFacts
  <2> QED BY <1>2, <2>2
<1>3. CASE op.type = "remove"
  BY <1>3, ApplyRemoveFacts, ZenonT(60)
<1>4. CASE op.type = "patch"
  BY <1>4, ApplyPatchFacts DEF IsForm
<1> QED BY <1>1, <1>2, <1>3, <1>4 DEF IsForm, IsEdit

\* No drawable is later than "time".
NotAfter(doc, time) == \A i \in DOMAIN doc : doc[i].updatedAt <= time

LEMMA ApplyNotAfter ==
  ASSUME NEW doc, IsDoc(doc), NEW op, NEW lists, IsForm(op, lists), NEW time \in Nat,
         NotAfter(doc, time), op.lamport <= time,
         op.type = "add" => op.shape.updatedAt <= time
  PROVE  NotAfter(Apply(doc, op), time)
<1>1. \A i \in DOMAIN doc : IsDrawable(doc[i]) /\ doc[i].updatedAt \in Nat /\ doc[i].updatedAt <= time
  BY DEF IsDoc, IsDrawable, NotAfter
<1>2. op.lamport \in Nat
  BY DEF IsForm
<1>3. CASE op.type = "noop"
  BY <1>3, ApplyNoop
<1>4. CASE op.type = "add"
  <2>1. IsEdit(op, lists) /\ IsDrawable(op.shape)
    BY <1>4 DEF IsForm, IsEdit
  <2>2. /\ DOMAIN Apply(doc, op) = DOMAIN doc \cup {op.id}
        /\ \A i \in DOMAIN doc \ {op.id} : Apply(doc, op)[i] = doc[i]
        /\ Apply(doc, op)[op.id] = IF op.id \in DOMAIN doc THEN MergeAdd(doc[op.id], op) ELSE op.shape
    BY <1>4, <2>1, ApplyAddFacts
  <2>3. Apply(doc, op)[op.id].updatedAt <= time
    <3>1. CASE op.id \in DOMAIN doc
      <4>1. MergeAdd(doc[op.id], op).updatedAt = Larger(doc[op.id].updatedAt, op.lamport)
        BY <1>1, <1>2, <2>1, <3>1, MergeFacts
      <4>2. Larger(doc[op.id].updatedAt, op.lamport) <= time
        BY <1>1, <1>2, <3>1, LargerFacts
      <4> QED BY <2>2, <3>1, <4>1, <4>2
    <3>2. CASE op.id \notin DOMAIN doc
      BY <1>4, <2>2, <3>2
    <3> QED BY <3>1, <3>2
  <2> QED BY <1>1, <2>2, <2>3 DEF NotAfter
<1>5. CASE op.type = "remove"
  <2>1. /\ DOMAIN Apply(doc, op) = DOMAIN doc \ {op.id}
        /\ \A i \in DOMAIN doc \ {op.id} : Apply(doc, op)[i] = doc[i]
    BY <1>5, ApplyRemoveFacts
  <2> QED BY <1>1, <2>1 DEF NotAfter
<1>6. CASE op.type = "patch"
  <2>1. /\ DOMAIN Apply(doc, op) = DOMAIN doc
        /\ \A i \in DOMAIN doc \ {op.id} : Apply(doc, op)[i] = doc[i]
        /\ op.id \in DOMAIN doc => Apply(doc, op)[op.id] = ApplyPatch(doc[op.id], op.patch, op.lamport)
    BY <1>2, <1>6, ApplyPatchFacts
  <2>2. ASSUME op.id \in DOMAIN doc
        PROVE  Apply(doc, op)[op.id].updatedAt <= time
    <3>1. ApplyPatch(doc[op.id], op.patch, op.lamport).updatedAt
            = Larger(doc[op.id].updatedAt, op.lamport)
      BY <1>1, <1>2, <2>2, PatchFacts
    <3>2. Larger(doc[op.id].updatedAt, op.lamport) <= time
      BY <1>1, <1>2, <2>2, LargerFacts
    <3> QED BY <2>1, <2>2, <3>1, <3>2
  <2> QED BY <1>1, <2>1, <2>2 DEF NotAfter
<1> QED BY <1>3, <1>4, <1>5, <1>6 DEF IsForm, IsEdit

-------------------------------------------------------------------------------
(* Ops in flight.  U is the list of a client's own edits that the server has not         *)
(* answered; what it does to a drawable outweighs whatever else happened to it.          *)

IsBacklog(U, lists) == IsSequence(U) /\ \A j \in 1 .. Len(U) : IsEdit(U[j], lists)

Removes(U, i) == \E j \in 1 .. Len(U) : U[j].type = "remove" /\ U[j].id = i

Sets(U, i, k) ==
  \E j \in 1 .. Len(U) :
    U[j].type = "patch" /\ U[j].id = i /\ k \in DOMAIN U[j].patch /\ ~U[j].patch[k].append

PatchesAfter(U, i, m, n) ==
  \E j \in 1 .. Len(U) :
    U[j].type = "patch" /\ U[j].id = i /\ m <= U[j].lamport /\ n <= U[j].lamport

\* Two versions of a drawable i that come to the same when U is applied to them.
AgreeAt(d, e, U, i) ==
  /\ d.id = e.id /\ d.createdAt = e.createdAt
  /\ \A k \in DOMAIN d.fields \cup DOMAIN e.fields :
       \/ Sets(U, i, k)
       \/ k \in DOMAIN d.fields /\ k \in DOMAIN e.fields /\ d.fields[k] = e.fields[k]
  /\ d.updatedAt = e.updatedAt \/ PatchesAfter(U, i, d.updatedAt, e.updatedAt)

Agree(s, v, U) ==
  \A i \in DOMAIN s \cup DOMAIN v :
    \/ Removes(U, i)
    \/ i \in DOMAIN s /\ i \in DOMAIN v /\ AgreeAt(s[i], v[i], U, i)

LEMMA AgreeWithItself ==
  ASSUME NEW s, NEW U
  PROVE  Agree(s, s, U)
BY DEF Agree, AgreeAt

\* When nothing is in flight, documents that agree are the same.
LEMMA AgreeOnNothing ==
  ASSUME NEW s, NEW v, IsDoc(s), IsDoc(v), NEW U, Len(U) = 0, Agree(s, v, U)
  PROVE  s = v
<1>1. \A i \in DOMAIN s \cup DOMAIN v : i \in DOMAIN s /\ i \in DOMAIN v /\ AgreeAt(s[i], v[i], U, i)
  BY DEF Agree, Removes
<1>2. ASSUME NEW i \in DOMAIN s
      PROVE  s[i] = v[i]
  <2>1. IsDrawable(s[i]) /\ IsDrawable(v[i]) /\ AgreeAt(s[i], v[i], U, i)
    BY <1>1, <1>2 DEF IsDoc
  <2>2. /\ s[i].id = v[i].id /\ s[i].createdAt = v[i].createdAt /\ s[i].updatedAt = v[i].updatedAt
        /\ \A k \in DOMAIN s[i].fields \cup DOMAIN v[i].fields :
             k \in DOMAIN s[i].fields /\ k \in DOMAIN v[i].fields /\ s[i].fields[k] = v[i].fields[k]
    BY <2>1 DEF AgreeAt, Sets, PatchesAfter
  <2> QED BY <2>1, <2>2, SameDrawable
<1>3. DOMAIN s = DOMAIN v
  BY <1>1
<1> QED BY <1>2, <1>3, SameDoc

\* One more edit in flight only adds to what is outweighed.
LEMMA AgreeWithMore ==
  ASSUME NEW s, NEW v, NEW U, IsSequence(U), NEW op, Agree(s, v, U)
  PROVE  Agree(s, v, Append(U, op))
<1> DEFINE W == Append(U, op)
<1>1. Len(W) = Len(U) + 1 /\ Len(U) \in Nat /\ \A j \in 1 .. Len(U) : W[j] = U[j]
  BY AppendFacts DEF IsSequence
<1> HIDE DEF W
<1>2. \A i : Removes(U, i) => Removes(W, i)
  BY <1>1 DEF Removes
<1>3. \A i, k : Sets(U, i, k) => Sets(W, i, k)
  BY <1>1 DEF Sets
<1>4. \A i, m, n : PatchesAfter(U, i, m, n) => PatchesAfter(W, i, m, n)
  BY <1>1 DEF PatchesAfter
<1>5. \A d, e, i : AgreeAt(d, e, U, i) => AgreeAt(d, e, W, i)
  BY <1>3, <1>4 DEF AgreeAt
<1>6. Agree(s, v, W)
  BY <1>2, <1>5 DEF Agree
<1> QED BY <1>6 DEF W

\* What PatchesAfter says of the larger of two numbers.
LEMMA PatchesAfterLarger ==
  ASSUME NEW U, NEW lists, IsBacklog(U, lists), NEW i, NEW m \in Nat, NEW n \in Nat, NEW l \in Nat,
         PatchesAfter(U, i, m, n)
  PROVE  \/ Larger(m, l) = Larger(n, l)
         \/ PatchesAfter(U, i, Larger(m, l), Larger(n, l))
<1>1. PICK j \in 1 .. Len(U) :
        U[j].type = "patch" /\ U[j].id = i /\ m <= U[j].lamport /\ n <= U[j].lamport
  BY DEF PatchesAfter
<1>2. U[j].lamport \in Nat
  BY DEF IsBacklog, IsEdit
<1>3. CASE l <= U[j].lamport
  <2>1. Larger(m, l) <= U[j].lamport /\ Larger(n, l) <= U[j].lamport
    BY <1>1, <1>2, <1>3, LargerFacts
  <2> QED BY <1>1, <2>1 DEF PatchesAfter
<1>4. CASE l > U[j].lamport
  BY <1>1, <1>2, <1>4 DEF Larger
<1> QED BY <1>2, <1>3, <1>4

\* Two versions that come to the same under U come to the same under W when both were
\* patched, the one with a part of what the other got: as long as W sets the rest, and
\* what U sets beyond W is set by the patch.
LEMMA PatchBoth ==
  ASSUME NEW d, NEW e, IsDrawable(d), IsDrawable(e), NEW i, NEW U, NEW W, NEW lists,
         AgreeAt(d, e, U, i), IsBacklog(W, lists),
         NEW p, NEW q, NEW l \in Nat,
         DOMAIN p \subseteq DOMAIN q, \A k \in DOMAIN p : p[k] = q[k],
         \A k \in DOMAIN q \ DOMAIN p : Sets(W, i, k),
         \A k : Sets(U, i, k) => Sets(W, i, k) \/ (k \in DOMAIN p /\ ~p[k].append),
         \A m, n \in Nat : PatchesAfter(U, i, m, n) =>
                             PatchesAfter(W, i, m, n) \/ (m <= l /\ n <= l)
  PROVE  AgreeAt(ApplyPatch(d, p, l), ApplyPatch(e, q, l), W, i)
<1> DEFINE d1 == ApplyPatch(d, p, l)
           e1 == ApplyPatch(e, q, l)
<1>1. /\ d1.id = d.id /\ d1.createdAt = d.createdAt /\ d1.updatedAt = Larger(d.updatedAt, l)
      /\ DOMAIN d1.fields = DOMAIN d.fields \cup DOMAIN p
      /\ \A k \in DOMAIN d.fields \ DOMAIN p : d1.fields[k] = d.fields[k]
      /\ \A k \in DOMAIN p : d1.fields[k] =
           IF p[k].append
             THEN (IF k \in DOMAIN d.fields THEN d.fields[k] ELSE <<>>) \o p[k].v
             ELSE p[k].v
  BY PatchFacts
<1>2. /\ e1.id = e.id /\ e1.createdAt = e.createdAt /\ e1.updatedAt = Larger(e.updatedAt, l)
      /\ DOMAIN e1.fields = DOMAIN e.fields \cup DOMAIN q
      /\ \A k \in DOMAIN e.fields \ DOMAIN q : e1.fields[k] = e.fields[k]
      /\ \A k \in DOMAIN q : e1.fields[k] =
           IF q[k].append
             THEN (IF k \in DOMAIN e.fields THEN e.fields[k] ELSE <<>>) \o q[k].v
             ELSE q[k].v
  BY PatchFacts
<1> HIDE DEF d1, e1
<1>3. d.updatedAt \in Nat /\ e.updatedAt \in Nat
  BY DEF IsDrawable
<1>4. d1.updatedAt = e1.updatedAt \/ PatchesAfter(W, i, d1.updatedAt, e1.updatedAt)
  <2>1. CASE d.updatedAt = e.updatedAt
    BY <1>1, <1>2, <2>1
  <2>2. CASE PatchesAfter(W, i, d.updatedAt, e.updatedAt)
    BY <1>1, <1>2, <1>3, <2>2, PatchesAfterLarger
  <2>3. CASE d.updatedAt <= l /\ e.updatedAt <= l
    BY <1>1, <1>2, <1>3, <2>3 DEF Larger
  <2> QED BY <1>3, <2>1, <2>2, <2>3 DEF AgreeAt
<1>5. ASSUME NEW k \in DOMAIN d1.fields \cup DOMAIN e1.fields, ~Sets(W, i, k)
      PROVE  k \in DOMAIN d1.fields /\ k \in DOMAIN e1.fields /\ d1.fields[k] = e1.fields[k]
  <2>1. k \in DOMAIN d.fields \cup DOMAIN e.fields =>
          \/ Sets(U, i, k)
          \/ k \in DOMAIN d.fields /\ k \in DOMAIN e.fields /\ d.fields[k] = e.fields[k]
    BY DEF AgreeAt
  <2>2. CASE k \notin DOMAIN q
    BY <1>1, <1>2, <1>5, <2>1, <2>2
  <2>3. CASE k \in DOMAIN q
    <3>1. k \in DOMAIN p /\ p[k] = q[k]
      BY <1>5, <2>3
    <3>2. CASE ~p[k].append
      <4>1. d1.fields[k] = p[k].v
        BY <1>1, <3>1, <3>2, Zenon
      <4>2. e1.fields[k] = p[k].v
        BY <1>2, <2>3, <3>1, <3>2, Zenon
      <4> QED BY <1>1, <1>2, <3>1, <4>1, <4>2
    <3>3. CASE p[k].append
      <4> DEFINE x == IF k \in DOMAIN d.fields THEN d.fields[k] ELSE <<>>
                 y == IF k \in DOMAIN e.fields THEN e.fields[k] ELSE <<>>
      <4>1. x = y
        <5>1. ~Sets(U, i, k)
          BY <1>5, <3>3
        <5> QED BY <2>1, <5>1
      <4>2. d1.fields[k] = x \o p[k].v
        BY <1>1, <3>1, <3>3, Zenon
      <4>3. e1.fields[k] = y \o p[k].v
        BY <1>2, <2>3, <3>1, <3>3, Zenon
      <4> HIDE DEF x, y
      <4> QED BY <1>1, <1>2, <3>1, <4>1, <4>2, <4>3
    <3> QED BY <3>2, <3>3
  <2> QED BY <2>2, <2>3
<1>6. d1.id = e1.id /\ d1.createdAt = e1.createdAt
  BY <1>1, <1>2 DEF AgreeAt
<1>7. AgreeAt(d1, e1, W, i)
  BY <1>4, <1>5, <1>6, Zenon DEF AgreeAt
<1> QED BY <1>7 DEF d1, e1

\* A patch that U overwrites altogether may reach one version only.
LEMMA PatchOne ==
  ASSUME NEW d, NEW e, IsDrawable(d), IsDrawable(e), NEW i, NEW U, NEW lists,
         AgreeAt(d, e, U, i), IsBacklog(U, lists), NEW q, NEW l \in Nat,
         \A k \in DOMAIN q : Sets(U, i, k), PatchesAfter(U, i, l, l)
  PROVE  AgreeAt(d, ApplyPatch(e, q, l), U, i)
<1> DEFINE e1 == ApplyPatch(e, q, l)
<1>1. /\ e1.id = e.id /\ e1.createdAt = e.createdAt /\ e1.updatedAt = Larger(e.updatedAt, l)
      /\ DOMAIN e1.fields = DOMAIN e.fields \cup DOMAIN q
      /\ \A k \in DOMAIN e.fields \ DOMAIN q : e1.fields[k] = e.fields[k]
  BY PatchFacts
<1> HIDE DEF e1
<1>2. d.updatedAt \in Nat /\ e.updatedAt \in Nat
  BY DEF IsDrawable
<1>3. PICK j \in 1 .. Len(U) : U[j].type = "patch" /\ U[j].id = i /\ l <= U[j].lamport
  BY DEF PatchesAfter
<1>4. U[j].lamport \in Nat
  BY DEF IsBacklog, IsEdit
<1>5. d.updatedAt = e1.updatedAt \/ PatchesAfter(U, i, d.updatedAt, e1.updatedAt)
  <2>1. CASE d.updatedAt = e.updatedAt
    <3>1. CASE l <= e.updatedAt
      BY <1>1, <1>2, <2>1, <3>1 DEF Larger
    <3>2. CASE l > e.updatedAt
      <4>1. e1.updatedAt = l
        BY <1>1, <1>2, <3>2 DEF Larger
      <4>2. d.updatedAt <= U[j].lamport /\ e1.updatedAt <= U[j].lamport
        BY <1>2, <1>3, <1>4, <2>1, <3>2, <4>1
      <4> QED BY <1>3, <4>2 DEF PatchesAfter
    <3> QED BY <1>2, <3>1, <3>2
  <2>2. CASE PatchesAfter(U, i, d.updatedAt, e.updatedAt)
    <3>1. PICK h \in 1 .. Len(U) : U[h].type = "patch" /\ U[h].id = i
              /\ d.updatedAt <= U[h].lamport /\ e.updatedAt <= U[h].lamport
      BY <2>2 DEF PatchesAfter
    <3>2. U[h].lamport \in Nat
      BY DEF IsBacklog, IsEdit
    <3>3. CASE l <= U[h].lamport
      <4>1. e1.updatedAt <= U[h].lamport
        BY <1>1, <1>2, <3>1, <3>2, <3>3, LargerFacts, ZenonT(60)
      <4> QED BY <3>1, <4>1 DEF PatchesAfter
    <3>4. CASE l > U[h].lamport
      <4>1. e1.updatedAt = l
        BY <1>1, <1>2, <3>1, <3>2, <3>4 DEF Larger
      <4>2. d.updatedAt <= U[j].lamport /\ e1.updatedAt <= U[j].lamport
        BY <1>2, <1>3, <1>4, <3>1, <3>2, <3>4, <4>1
      <4> QED BY <1>3, <4>2 DEF PatchesAfter
    <3> QED BY <3>2, <3>3, <3>4
  <2> QED BY <2>1, <2>2 DEF AgreeAt
<1>6. \A k \in DOMAIN d.fields \cup DOMAIN e1.fields :
        \/ Sets(U, i, k)
        \/ k \in DOMAIN d.fields /\ k \in DOMAIN e1.fields /\ d.fields[k] = e1.fields[k]
  BY <1>1 DEF AgreeAt
<1>7. AgreeAt(d, e1, U, i)
  BY <1>1, <1>5, <1>6, Zenon DEF AgreeAt
<1> QED BY <1>7 DEF e1

\* An add of an id that both have.
LEMMA MergeBoth ==
  ASSUME NEW d, NEW e, IsDrawable(d), IsDrawable(e), NEW i, NEW U, NEW lists,
         AgreeAt(d, e, U, i), IsBacklog(U, lists),
         NEW op, IsDrawable(op.shape), op.lamport \in Nat
  PROVE  AgreeAt(MergeAdd(d, op), MergeAdd(e, op), U, i)
<1> DEFINE d1 == MergeAdd(d, op)
           e1 == MergeAdd(e, op)
<1>1. /\ d1.id = op.shape.id /\ d1.createdAt = d.createdAt
      /\ d1.updatedAt = Larger(d.updatedAt, op.lamport)
      /\ DOMAIN d1.fields = DOMAIN d.fields \cup DOMAIN op.shape.fields
      /\ \A k \in DOMAIN d1.fields : d1.fields[k] =
           IF k \in DOMAIN op.shape.fields THEN op.shape.fields[k] ELSE d.fields[k]
  BY MergeFacts
<1>2. /\ e1.id = op.shape.id /\ e1.createdAt = e.createdAt
      /\ e1.updatedAt = Larger(e.updatedAt, op.lamport)
      /\ DOMAIN e1.fields = DOMAIN e.fields \cup DOMAIN op.shape.fields
      /\ \A k \in DOMAIN e1.fields : e1.fields[k] =
           IF k \in DOMAIN op.shape.fields THEN op.shape.fields[k] ELSE e.fields[k]
  BY MergeFacts
<1> HIDE DEF d1, e1
<1>3. d.updatedAt \in Nat /\ e.updatedAt \in Nat
  BY DEF IsDrawable
<1>4. d1.updatedAt = e1.updatedAt \/ PatchesAfter(U, i, d1.updatedAt, e1.updatedAt)
  BY <1>1, <1>2, <1>3, PatchesAfterLarger DEF AgreeAt
<1>5. \A k \in DOMAIN d1.fields \cup DOMAIN e1.fields :
        \/ Sets(U, i, k)
        \/ k \in DOMAIN d1.fields /\ k \in DOMAIN e1.fields /\ d1.fields[k] = e1.fields[k]
  BY <1>1, <1>2 DEF AgreeAt
<1>6. AgreeAt(d1, e1, U, i)
  BY <1>1, <1>2, <1>4, <1>5, Zenon DEF AgreeAt
<1> QED BY <1>6 DEF d1, e1

\* What the first of U and the others have between them.
LEMMA FirstAndRest ==
  ASSUME NEW U, IsSequence(U), U # <<>>
  PROVE  LET u == U[1]
             W == Tail(U) IN
         /\ \A i : Removes(U, i) => Removes(W, i) \/ (u.type = "remove" /\ u.id = i)
         /\ \A i, k : Sets(U, i, k) =>
              \/ Sets(W, i, k)
              \/ u.type = "patch" /\ u.id = i /\ k \in DOMAIN u.patch /\ ~u.patch[k].append
         /\ \A i, m, n : PatchesAfter(U, i, m, n) =>
              \/ PatchesAfter(W, i, m, n)
              \/ u.type = "patch" /\ u.id = i /\ m <= u.lamport /\ n <= u.lamport
<1> DEFINE W == Tail(U)
<1>1. Len(U) \in Nat /\ Len(U) >= 1 /\ Len(W) = Len(U) - 1 /\ \A j \in 1 .. Len(U) - 1 : W[j] = U[j + 1]
  BY TailFacts DEF IsSequence
<1> HIDE DEF W
<1>2. ASSUME NEW j \in 1 .. Len(U), j # 1
      PROVE  j - 1 \in 1 .. Len(W) /\ W[j - 1] = U[j]
  BY <1>1, <1>2
<1>3. \A i : Removes(U, i) => Removes(W, i) \/ (U[1].type = "remove" /\ U[1].id = i)
  BY <1>2 DEF Removes
<1>4. \A i, k : Sets(U, i, k) =>
        \/ Sets(W, i, k)
        \/ U[1].type = "patch" /\ U[1].id = i /\ k \in DOMAIN U[1].patch /\ ~U[1].patch[k].append
  BY <1>2 DEF Sets
<1>5. \A i, m, n : PatchesAfter(U, i, m, n) =>
        \/ PatchesAfter(W, i, m, n)
        \/ U[1].type = "patch" /\ U[1].id = i /\ m <= U[1].lamport /\ n <= U[1].lamport
  BY <1>2 DEF PatchesAfter
<1> QED BY <1>3, <1>4, <1>5 DEF W

\* The op that a client made, as the server stamped it.
SameEdit(op, u) ==
  /\ op.type = u.type /\ op.id = u.id /\ op.lamport >= u.lamport
  /\ u.type = "add" => op.shape = u.shape
  /\ u.type = "patch" => op.patch = u.patch

\* The answer to the first edit in flight: what it outweighed it now settles.
LEMMA AgreeAfterEcho ==
  ASSUME NEW s, NEW v, IsDoc(s), IsDoc(v), NEW U, NEW lists, IsBacklog(U, lists), U # <<>>,
         Agree(s, v, U), NEW op, IsEdit(op, lists), SameEdit(op, U[1])
  PROVE  Agree(Apply(s, op), Apply(v, op), Tail(U))
<1> DEFINE u == U[1]
           W == Tail(U)
           s1 == Apply(s, op)
           v1 == Apply(v, op)
<1>1. /\ IsSequence(U) /\ IsSequence(W) /\ 1 \in 1 .. Len(U) /\ Len(W) = Len(U) - 1 /\ Len(U) \in Nat
      /\ \A j \in 1 .. Len(U) - 1 : W[j] = U[j + 1]
  BY TailFacts DEF IsBacklog, IsSequence
<1>2. IsBacklog(W, lists)
  <2>1. \A j \in 1 .. Len(W) : j + 1 \in 1 .. Len(U) /\ W[j] = U[j + 1]
    BY <1>1
  <2> QED BY <1>1, <2>1 DEF IsBacklog
<1>3. /\ \A i : Removes(U, i) => Removes(W, i) \/ (u.type = "remove" /\ u.id = i)
      /\ \A i, k : Sets(U, i, k) =>
           \/ Sets(W, i, k)
           \/ u.type = "patch" /\ u.id = i /\ k \in DOMAIN u.patch /\ ~u.patch[k].append
      /\ \A i, m, n : PatchesAfter(U, i, m, n) =>
           \/ PatchesAfter(W, i, m, n)
           \/ u.type = "patch" /\ u.id = i /\ m <= u.lamport /\ n <= u.lamport
  BY <1>1, FirstAndRest
<1>4. /\ op.type = u.type /\ op.id = u.id /\ op.lamport >= u.lamport
      /\ op.lamport \in Nat /\ u.lamport \in Nat /\ op.type \in {"add", "remove", "patch"}
  BY <1>1 DEF SameEdit, IsBacklog, IsEdit
<1> HIDE DEF W, u, s1, v1
<1>5. ASSUME NEW i \in DOMAIN s \cup DOMAIN v, i # op.id
      PROVE  Removes(W, i) \/ (i \in DOMAIN s /\ i \in DOMAIN v /\ AgreeAt(s[i], v[i], W, i))
  <2>1. CASE Removes(U, i)
    BY <1>3, <1>4, <1>5, <2>1
  <2>2. CASE i \in DOMAIN s /\ i \in DOMAIN v /\ AgreeAt(s[i], v[i], U, i)
    <3>1. \A k : Sets(U, i, k) => Sets(W, i, k)
      BY <1>3, <1>4, <1>5
    <3>2. \A m, n : PatchesAfter(U, i, m, n) => PatchesAfter(W, i, m, n)
      BY <1>3, <1>4, <1>5
    <3> QED BY <2>2, <3>1, <3>2 DEF AgreeAt
  <2> QED BY <2>1, <2>2 DEF Agree
<1>6. CASE op.type = "remove"
  <2>1. /\ DOMAIN s1 = DOMAIN s \ {op.id} /\ DOMAIN v1 = DOMAIN v \ {op.id}
        /\ \A i \in DOMAIN s \ {op.id} : s1[i] = s[i]
        /\ \A i \in DOMAIN v \ {op.id} : v1[i] = v[i]
    BY <1>6, ApplyRemoveFacts DEF s1, v1
  <2>2. \A i \in DOMAIN s1 \cup DOMAIN v1 : i \in DOMAIN s \cup DOMAIN v /\ i # op.id
    BY <2>1
  <2>3. Agree(s1, v1, W)
    BY <1>5, <2>1, <2>2 DEF Agree
  <2> QED BY <2>3 DEF s1, v1, W
<1>7. CASE op.type = "add"
  <2>1. /\ DOMAIN s1 = DOMAIN s \cup {op.id} /\ DOMAIN v1 = DOMAIN v \cup {op.id}
        /\ \A i \in DOMAIN s \ {op.id} : s1[i] = s[i]
        /\ \A i \in DOMAIN v \ {op.id} : v1[i] = v[i]
        /\ s1[op.id] = IF op.id \in DOMAIN s THEN MergeAdd(s[op.id], op) ELSE op.shape
        /\ v1[op.id] = IF op.id \in DOMAIN v THEN MergeAdd(v[op.id], op) ELSE op.shape
    BY <1>7, ApplyAddFacts DEF s1, v1
  <2>2. Removes(W, op.id) \/ AgreeAt(s1[op.id], v1[op.id], W, op.id)
    <3>1. CASE Removes(U, op.id)
      BY <1>3, <1>4, <1>7, <3>1
    <3>2. CASE op.id \in DOMAIN s /\ op.id \in DOMAIN v /\ AgreeAt(s[op.id], v[op.id], U, op.id)
      <4>1. \A k : Sets(U, op.id, k) => Sets(W, op.id, k)
        BY <1>3, <1>4, <1>7
      <4>2. \A m, n : PatchesAfter(U, op.id, m, n) => PatchesAfter(W, op.id, m, n)
        BY <1>3, <1>4, <1>7
      <4>3. AgreeAt(s[op.id], v[op.id], W, op.id)
        BY <3>2, <4>1, <4>2 DEF AgreeAt
      <4>4. IsDrawable(s[op.id]) /\ IsDrawable(v[op.id]) /\ IsDrawable(op.shape)
        BY <1>7, <3>2 DEF IsDoc, IsEdit
      <4>5. AgreeAt(MergeAdd(s[op.id], op), MergeAdd(v[op.id], op), W, op.id)
        BY <1>2, <1>4, <4>3, <4>4, MergeBoth
      <4> QED BY <2>1, <3>2, <4>5
    <3>3. CASE op.id \notin DOMAIN s /\ op.id \notin DOMAIN v
      BY <2>1, <3>3 DEF AgreeAt
    <3> QED BY <3>1, <3>2, <3>3 DEF Agree
  <2>3. Agree(s1, v1, W)
    BY <1>5, <2>1, <2>2 DEF Agree
  <2> QED BY <2>3 DEF s1, v1, W
<1>8. CASE op.type = "patch"
  <2>1. /\ DOMAIN s1 = DOMAIN s /\ DOMAIN v1 = DOMAIN v
        /\ \A i \in DOMAIN s \ {op.id} : s1[i] = s[i]
        /\ \A i \in DOMAIN v \ {op.id} : v1[i] = v[i]
        /\ op.id \in DOMAIN s => s1[op.id] = ApplyPatch(s[op.id], op.patch, op.lamport)
        /\ op.id \in DOMAIN v => v1[op.id] = ApplyPatch(v[op.id], op.patch, op.lamport)
    BY <1>4, <1>8, ApplyPatchFacts DEF s1, v1
  <2>2. ASSUME op.id \in DOMAIN s \cup DOMAIN v
        PROVE  \/ Removes(W, op.id)
               \/ op.id \in DOMAIN s /\ op.id \in DOMAIN v /\ AgreeAt(s1[op.id], v1[op.id], W, op.id)
    <3>1. CASE Removes(U, op.id)
      BY <1>3, <1>4, <1>8, <3>1
    <3>2. CASE op.id \in DOMAIN s /\ op.id \in DOMAIN v /\ AgreeAt(s[op.id], v[op.id], U, op.id)
      <4>1. op.patch = u.patch
        BY <1>4, <1>8 DEF SameEdit, u
      <4>2. \A k : Sets(U, op.id, k) =>
              Sets(W, op.id, k) \/ (k \in DOMAIN op.patch /\ ~op.patch[k].append)
        BY <1>3, <4>1
      <4>3. \A m, n \in Nat : PatchesAfter(U, op.id, m, n) =>
              PatchesAfter(W, op.id, m, n) \/ (m <= op.lamport /\ n <= op.lamport)
        BY <1>3, <1>4
      <4>4. IsDrawable(s[op.id]) /\ IsDrawable(v[op.id])
        BY <3>2 DEF IsDoc
      <4> DEFINE q == op.patch
                 l == op.lamport
                 i == op.id
                 d == s[i]
                 e == v[i]
      <4>5. /\ DOMAIN q \subseteq DOMAIN q /\ \A k \in DOMAIN q : q[k] = q[k]
            /\ \A k \in DOMAIN q \ DOMAIN q : Sets(W, i, k)
            /\ \A k : Sets(U, i, k) => Sets(W, i, k) \/ (k \in DOMAIN q /\ ~q[k].append)
            /\ \A m, n \in Nat : PatchesAfter(U, i, m, n) =>
                 PatchesAfter(W, i, m, n) \/ (m <= l /\ n <= l)
            /\ IsDrawable(d) /\ IsDrawable(e) /\ AgreeAt(d, e, U, i) /\ l \in Nat
        BY <1>4, <3>2, <4>2, <4>3, <4>4
      <4> HIDE DEF q, l, i, d, e
      <4>6. AgreeAt(ApplyPatch(d, q, l), ApplyPatch(e, q, l), W, i)
        BY <1>2, <4>5, PatchBoth
      <4> QED BY <2>1, <3>2, <4>6 DEF q, l, i, d, e
    <3> QED BY <2>2, <3>1, <3>2 DEF Agree
  <2>3. Agree(s1, v1, W)
    BY <1>5, <2>1, <2>2 DEF Agree
  <2> QED BY <2>3 DEF s1, v1, W
<1> QED BY <1>4, <1>6, <1>7, <1>8

\* What rebasing has made of the edit u.
Derived(p, u) ==
  /\ p.clientSeq = u.clientSeq
  /\ p.type # "noop" => p.type = u.type /\ p.id = u.id /\ p.lamport = u.lamport
  /\ p.type = "patch" => /\ DOMAIN p.patch \subseteq DOMAIN u.patch
                         /\ \A k \in DOMAIN p.patch : p.patch[k] = u.patch[k]

LEMMA DerivedTransform ==
  ASSUME NEW p, NEW u, NEW b, NEW lists, IsForm(p, lists), IsForm(b, lists), Derived(p, u)
  PROVE  Derived(Transform(p, b), u)
<1> DEFINE c == Transform(p, b)
<1>1. /\ c.lamport = p.lamport /\ c.clientSeq = p.clientSeq
      /\ c.type # "noop" => c.type = p.type /\ c.id = p.id
  BY TransformFacts
<1>2. c.type = "patch" => p.type = "patch"
  BY <1>1
<1>3. c.type = "patch" => /\ DOMAIN c.patch \subseteq DOMAIN p.patch
                          /\ \A k \in DOMAIN c.patch : c.patch[k] = p.patch[k]
  BY <1>2, TransformedPatch
<1> HIDE DEF c
<1>4. Derived(c, u)
  <2>1. c.type # "noop" => p.type # "noop"
    BY <1>1
  <2> QED BY <1>1, <1>2, <1>3, <2>1 DEF Derived
<1> QED BY <1>4 DEF c

\* What is left of the remote op b on its walk over what rebasing has made of U: it goes
\* on as it is but for the part that U outweighs.
Fate(r, b, U) ==
  /\ b.type = "add" => r = b
  /\ b.type = "remove" => r = b \/ (r.type = "noop" /\ Removes(U, b.id))
  /\ b.type = "patch" =>
       \/ r.type = "noop" /\ Removes(U, b.id)
       \/ /\ r.type = "noop" /\ PatchesAfter(U, b.id, b.lamport, b.lamport)
          /\ \A k \in DOMAIN b.patch : Sets(U, b.id, k)
       \/ /\ r.type = "patch" /\ r.id = b.id /\ r.lamport = b.lamport
          /\ DOMAIN r.patch \subseteq DOMAIN b.patch
          /\ \A k \in DOMAIN r.patch : r.patch[k] = b.patch[k]
          /\ \A k \in DOMAIN b.patch \ DOMAIN r.patch : Sets(U, b.id, k)

LEMMA FateOfItself ==
  ASSUME NEW b, NEW U
  PROVE  Fate(b, b, U)
BY DEF Fate

\* One step of the walk.  An add meets nothing with its id: nobody else knows that.
LEMMA FateOverNext ==
  ASSUME NEW r, NEW b, NEW U, NEW lists, IsBacklog(U, lists), IsEdit(b, lists), IsForm(r, lists),
         Fate(r, b, U), NEW j \in 1 .. Len(U), NEW p, IsForm(p, lists), Derived(p, U[j]),
         b.type = "add" => p.type = "noop" \/ p.id # b.id
  PROVE  Fate(Transform(r, p), b, U)
<1> DEFINE c == Transform(r, p)
           u == U[j]
<1>1. b.type \in {"add", "remove", "patch"} /\ b.lamport \in Nat
  BY DEF IsEdit
<1>2. CASE r.type = "noop" \/ p.type = "noop" \/ r.id # p.id
  <2>1. c = r
    BY <1>2, TransformApart
  <2> QED BY <2>1
<1>3. CASE ~(r.type = "noop" \/ p.type = "noop" \/ r.id # p.id)
  <2>1. /\ r.type = b.type /\ r.id = b.id /\ p.id = b.id /\ IsEdit(r, lists) /\ IsEdit(p, lists)
        /\ p.type \in {"add", "remove", "patch"} /\ b.type # "add"
    BY <1>1, <1>3 DEF Fate, IsForm, IsEdit
  <2>2. p.type = u.type /\ p.id = u.id /\ p.lamport = u.lamport
    BY <1>3 DEF Derived
  <2>3. r.id = p.id /\ r.type \in {"add", "remove", "patch"} /\ p.type \in {"add", "remove", "patch"}
    BY <1>1, <2>1
  <2>4. CASE p.type = "remove"
    <3>1. c.type = "noop"
      <4>1. c = AsNoop(r)
        BY <2>3, <2>4, TransformTogether, Zenon
      <4> QED BY <4>1, NoopFacts, Zenon
    <3>2. Removes(U, b.id)
      BY <2>1, <2>2, <2>4 DEF Removes
    <3> HIDE DEF c
    <3>3. Fate(c, b, U)
      BY <2>1, <3>1, <3>2 DEF Fate
    <3> QED BY <3>3 DEF c
  <2>5. CASE p.type # "remove" /\ ~(p.type = "patch" /\ b.type = "patch")
    <3>1. c = r
      BY <2>1, <2>3, <2>5, TransformTogether, Zenon
    <3> QED BY <3>1
  <2>6. CASE p.type = "patch" /\ b.type = "patch"
    <3>1. c = MergePatches(r, p) /\ r.type = "patch"
      BY <2>1, <2>3, <2>6, TransformTogether, Zenon
    <3>2. /\ r.lamport = b.lamport /\ DOMAIN r.patch \subseteq DOMAIN b.patch
          /\ \A k \in DOMAIN r.patch : r.patch[k] = b.patch[k]
          /\ \A k \in DOMAIN b.patch \ DOMAIN r.patch : Sets(U, b.id, k)
      BY <2>6, <3>1 DEF Fate
    <3>3. \A k \in DOMAIN p.patch : k \in DOMAIN u.patch /\ p.patch[k] = u.patch[k]
      BY <2>6 DEF Derived
    <3>4. ASSUME NEW k \in DOMAIN r.patch \ Kept(r, p)
          PROVE  Sets(U, b.id, k) /\ Beats(p, r)
      <4>1. k \in DOMAIN p.patch /\ Beats(p, r) /\ ~(r.patch[k].append /\ p.patch[k].append)
        BY DEF Kept
      <4>2. r.patch[k].append = (k \in lists) /\ p.patch[k].append = (k \in lists)
        BY <2>1, <2>6, <3>1, <4>1 DEF IsEdit
      <4>3. ~p.patch[k].append
        BY <4>1, <4>2
      <4>4. k \in DOMAIN u.patch /\ ~u.patch[k].append
        BY <3>3, <4>1, <4>3
      <4> QED BY <2>1, <2>2, <2>6, <4>1, <4>4 DEF Sets
    <3>5. CASE Kept(r, p) = {}
      <4>1. c = AsNoop(r)
        BY <2>1, <3>1, <3>5, MergePatchesFacts, Zenon
      <4>2. c.type = "noop"
        BY <4>1, NoopFacts, Zenon
      <4>3. PICK k \in DOMAIN r.patch : TRUE
        BY <2>1, <3>1 DEF IsEdit
      <4>4. Beats(p, r)
        BY <3>4, <3>5, <4>3
      <4>5. b.lamport <= u.lamport
        BY <1>1, <2>1, <2>2, <3>2, <4>4 DEF Beats, IsEdit
      <4>6. PatchesAfter(U, b.id, b.lamport, b.lamport)
        BY <2>1, <2>2, <2>6, <4>5 DEF PatchesAfter
      <4>7. \A k1 \in DOMAIN b.patch : Sets(U, b.id, k1)
        BY <3>2, <3>4, <3>5
      <4> HIDE DEF c
      <4>8. Fate(c, b, U)
        BY <2>6, <4>2, <4>6, <4>7 DEF Fate
      <4> QED BY <4>8 DEF c
    <3>6. CASE Kept(r, p) # {}
      <4>1. /\ c.type = "patch" /\ c.id = r.id /\ c.lamport = r.lamport
            /\ DOMAIN c.patch = Kept(r, p) /\ \A k \in Kept(r, p) : c.patch[k] = r.patch[k]
        <5> HIDE DEF c
        <5> QED BY <2>1, <3>1, <3>6, MergePatchesFacts, ZenonT(60)
      <4>2. Kept(r, p) \subseteq DOMAIN r.patch
        BY DEF Kept
      <4> HIDE DEF c
      <4>3. /\ DOMAIN c.patch \subseteq DOMAIN b.patch
            /\ \A k \in DOMAIN c.patch : c.patch[k] = b.patch[k]
            /\ \A k \in DOMAIN b.patch \ DOMAIN c.patch : Sets(U, b.id, k)
        BY <3>2, <3>4, <4>1, <4>2
      <4>4. Fate(c, b, U)
        BY <2>1, <2>6, <3>2, <4>1, <4>3 DEF Fate
      <4> QED BY <4>4 DEF c
    <3> QED BY <3>5, <3>6
  <2> QED BY <2>1, <2>4, <2>5, <2>6
<1> QED BY <1>2, <1>3

\* A remote op: the whole of it for the server, what U leaves of it for the client.
LEMMA AgreeAfterRemote ==
  ASSUME NEW s, NEW v, IsDoc(s), IsDoc(v), NEW U, NEW lists, IsBacklog(U, lists), Agree(s, v, U),
         NEW b, IsEdit(b, lists), NEW r, Fate(r, b, U)
  PROVE  Agree(Apply(s, r), Apply(v, b), U)
<1> DEFINE s1 == Apply(s, r)
           v1 == Apply(v, b)
<1>1. b.type \in {"add", "remove", "patch"} /\ b.lamport \in Nat
  BY DEF IsEdit
<1>2. r.type = "noop" => s1 = s
  BY ApplyNoop
<1> HIDE DEF s1, v1
<1>3. CASE b.type = "add"
  <2>1. r = b
    BY <1>3 DEF Fate
  <2>2. /\ DOMAIN s1 = DOMAIN s \cup {b.id} /\ DOMAIN v1 = DOMAIN v \cup {b.id}
        /\ \A i \in DOMAIN s \ {b.id} : s1[i] = s[i]
        /\ \A i \in DOMAIN v \ {b.id} : v1[i] = v[i]
        /\ s1[b.id] = IF b.id \in DOMAIN s THEN MergeAdd(s[b.id], b) ELSE b.shape
        /\ v1[b.id] = IF b.id \in DOMAIN v THEN MergeAdd(v[b.id], b) ELSE b.shape
    BY <1>3, <2>1, ApplyAddFacts DEF s1, v1
  <2>3. Removes(U, b.id) \/ AgreeAt(s1[b.id], v1[b.id], U, b.id)
    <3>1. CASE b.id \in DOMAIN s /\ b.id \in DOMAIN v /\ AgreeAt(s[b.id], v[b.id], U, b.id)
      <4>1. IsDrawable(s[b.id]) /\ IsDrawable(v[b.id]) /\ IsDrawable(b.shape)
        BY <1>3, <3>1 DEF IsDoc, IsEdit
      <4>2. AgreeAt(MergeAdd(s[b.id], b), MergeAdd(v[b.id], b), U, b.id)
        BY <1>1, <3>1, <4>1, MergeBoth
      <4> QED BY <2>2, <3>1, <4>2
    <3>2. CASE b.id \notin DOMAIN s /\ b.id \notin DOMAIN v
      BY <2>2, <3>2 DEF AgreeAt
    <3> QED BY <3>1, <3>2 DEF Agree
  <2>4. Agree(s1, v1, U)
    BY <2>2, <2>3 DEF Agree
  <2> QED BY <2>4 DEF s1, v1
<1>4. CASE b.type = "remove"
  <2>1. DOMAIN v1 = DOMAIN v \ {b.id} /\ \A i \in DOMAIN v \ {b.id} : v1[i] = v[i]
    BY <1>4, ApplyRemoveFacts DEF v1
  <2>2. CASE r = b
    <3>1. DOMAIN s1 = DOMAIN s \ {b.id} /\ \A i \in DOMAIN s \ {b.id} : s1[i] = s[i]
      BY <1>4, <2>2, ApplyRemoveFacts DEF s1
    <3>2. Agree(s1, v1, U)
      BY <2>1, <3>1 DEF Agree
    <3> QED BY <3>2 DEF s1, v1
  <2>3. CASE r.type = "noop" /\ Removes(U, b.id)
    <3>1. s1 = s
      BY <1>2, <2>3
    <3>2. Agree(s1, v1, U)
      BY <2>1, <2>3, <3>1 DEF Agree
    <3> QED BY <3>2 DEF s1, v1
  <2> QED BY <1>4, <2>2, <2>3 DEF Fate
<1>5. CASE b.type = "patch"
  <2>1. /\ DOMAIN v1 = DOMAIN v
        /\ \A i \in DOMAIN v \ {b.id} : v1[i] = v[i]
        /\ b.id \in DOMAIN v => v1[b.id] = ApplyPatch(v[b.id], b.patch, b.lamport)
    BY <1>1, <1>5, ApplyPatchFacts DEF v1
  <2>2. CASE r.type = "noop" /\ Removes(U, b.id)
    <3>1. s1 = s
      BY <1>2, <2>2
    <3>2. Agree(s1, v1, U)
      BY <2>1, <2>2, <3>1 DEF Agree
    <3> QED BY <3>2 DEF s1, v1
  <2>3. CASE /\ r.type = "noop" /\ PatchesAfter(U, b.id, b.lamport, b.lamport)
             /\ \A k \in DOMAIN b.patch : Sets(U, b.id, k)
    <3>1. s1 = s
      BY <1>2, <2>3
    <3>2. ASSUME b.id \in DOMAIN s, b.id \in DOMAIN v, AgreeAt(s[b.id], v[b.id], U, b.id)
          PROVE  AgreeAt(s1[b.id], v1[b.id], U, b.id)
      <4>1. IsDrawable(s[b.id]) /\ IsDrawable(v[b.id])
        BY <3>2 DEF IsDoc
      <4>2. AgreeAt(s[b.id], ApplyPatch(v[b.id], b.patch, b.lamport), U, b.id)
        BY <1>1, <2>3, <3>2, <4>1, PatchOne
      <4> QED BY <2>1, <3>1, <3>2, <4>2
    <3>3. Agree(s1, v1, U)
      BY <2>1, <3>1, <3>2 DEF Agree
    <3> QED BY <3>3 DEF s1, v1
  <2>4. CASE /\ r.type = "patch" /\ r.id = b.id /\ r.lamport = b.lamport
             /\ DOMAIN r.patch \subseteq DOMAIN b.patch
             /\ \A k \in DOMAIN r.patch : r.patch[k] = b.patch[k]
             /\ \A k \in DOMAIN b.patch \ DOMAIN r.patch : Sets(U, b.id, k)
    <3>1. /\ DOMAIN s1 = DOMAIN s
          /\ \A i \in DOMAIN s \ {b.id} : s1[i] = s[i]
          /\ b.id \in DOMAIN s => s1[b.id] = ApplyPatch(s[b.id], r.patch, b.lamport)
      BY <1>1, <2>4, ApplyPatchFacts DEF s1
    <3>2. ASSUME b.id \in DOMAIN s, b.id \in DOMAIN v, AgreeAt(s[b.id], v[b.id], U, b.id)
          PROVE  AgreeAt(s1[b.id], v1[b.id], U, b.id)
      <4> DEFINE q == b.patch
                 p == r.patch
                 l == b.lamport
                 i == b.id
                 d == s[i]
                 e == v[i]
      <4>1. /\ DOMAIN p \subseteq DOMAIN q /\ \A k \in DOMAIN p : p[k] = q[k]
            /\ \A k \in DOMAIN q \ DOMAIN p : Sets(U, i, k)
            /\ \A k : Sets(U, i, k) => Sets(U, i, k) \/ (k \in DOMAIN p /\ ~p[k].append)
            /\ \A m, n \in Nat : PatchesAfter(U, i, m, n) =>
                 PatchesAfter(U, i, m, n) \/ (m <= l /\ n <= l)
            /\ IsDrawable(d) /\ IsDrawable(e) /\ AgreeAt(d, e, U, i) /\ l \in Nat
        BY <1>1, <2>4, <3>2 DEF IsDoc
      <4> HIDE DEF q, p, l, i, d, e
      <4>2. AgreeAt(ApplyPatch(d, p, l), ApplyPatch(e, q, l), U, i)
        BY <4>1, PatchBoth
      <4> QED BY <2>1, <3>1, <3>2, <4>2 DEF q, p, l, i, d, e
    <3>3. Agree(s1, v1, U)
      BY <2>1, <3>1, <3>2 DEF Agree
    <3> QED BY <3>3 DEF s1, v1
  <2> QED BY <1>5, <2>2, <2>3, <2>4 DEF Fate
<1> QED BY <1>1, <1>3, <1>4, <1>5

================================================================================
