---------------------------- MODULE OTLaws_proofs ----------------------------
(***************************************************************************)
(* Proofs about OTLaws: what the header of ot.ts claims of transform and   *)
(* compose, with the exceptions, for every document and every two ops.     *)
(***************************************************************************)
EXTENDS OTLaws, OT_proofs

-------------------------------------------------------------------------------
(* Joined lists *)

LEMMA JoinedIsSequence ==
  ASSUME NEW s, IsSequence(s), NEW t, IsSequence(t)
  PROVE  IsSequence(s \o t)
<1> DEFINE S == {s[k] : k \in 1 .. Len(s)} \cup {t[k] : k \in 1 .. Len(t)}
<1>1. s \in Seq(S) /\ t \in Seq(S)
  BY DEF IsSequence
<1> HIDE DEF S
<1>2. s \o t \in Seq(S)
  BY <1>1
<1> QED BY <1>2, SeqIsSequence

LEMMA JoinAssociates ==
  ASSUME NEW s, IsSequence(s), NEW t, IsSequence(t), NEW u, IsSequence(u)
  PROVE  (s \o t) \o u = s \o (t \o u)
<1> DEFINE S == {s[k] : k \in 1 .. Len(s)} \cup {t[k] : k \in 1 .. Len(t)} \cup {u[k] : k \in 1 .. Len(u)}
<1>1. s \in Seq(S) /\ t \in Seq(S) /\ u \in Seq(S)
  BY SMTT(30) DEF IsSequence
<1> HIDE DEF S
<1> QED BY <1>1, ConcatAssociative

\* What is written at the end of a list, or stands at its beginning, can be told from it.
LEMMA CancelBefore ==
  ASSUME NEW s, IsSequence(s), NEW t, IsSequence(t), NEW u, IsSequence(u)
  PROVE  s \o t = s \o u => t = u
<1> DEFINE S == {s[k] : k \in 1 .. Len(s)} \cup {t[k] : k \in 1 .. Len(t)} \cup {u[k] : k \in 1 .. Len(u)}
<1>1. s \in Seq(S) /\ t \in Seq(S) /\ u \in Seq(S)
  BY SMTT(30) DEF IsSequence
<1> HIDE DEF S
<1> QED BY <1>1, ConcatSimplifications, Zenon

LEMMA CancelAfter ==
  ASSUME NEW s, IsSequence(s), NEW t, IsSequence(t), NEW u, IsSequence(u)
  PROVE  t \o s = u \o s => t = u
<1> DEFINE S == {s[k] : k \in 1 .. Len(s)} \cup {t[k] : k \in 1 .. Len(t)} \cup {u[k] : k \in 1 .. Len(u)}
<1>1. s \in Seq(S) /\ t \in Seq(S) /\ u \in Seq(S)
  BY SMTT(30) DEF IsSequence
<1> HIDE DEF S
<1> QED BY <1>1, ConcatSimplifications, Zenon

-------------------------------------------------------------------------------
(* What an op changes *)

\* Two documents have the same drawable, or none, with id i.
SameAt(d, e, i) == (i \in DOMAIN d <=> i \in DOMAIN e) /\ (i \in DOMAIN d => d[i] = e[i])

LEMMA SameEverywhere ==
  ASSUME NEW d, NEW e, IsDoc(d), IsDoc(e), \A i : SameAt(d, e, i)
  PROVE  d = e
BY SameDoc DEF SameAt

\* An op leaves every other drawable alone ...
LEMMA ApplyElsewhere ==
  ASSUME NEW doc, IsDoc(doc), NEW op, NEW lists, IsEdit(op, lists)
  PROVE  IsDoc(Apply(doc, op)) /\ \A i : i # op.id => SameAt(Apply(doc, op), doc, i)
<1> DEFINE e == Apply(doc, op)
<1>1. op.lamport \in Nat /\ op.type \in {"add", "remove", "patch"}
  BY DEF IsEdit
<1>2. /\ IsDoc(e)
      /\ DOMAIN e \cup {op.id} = DOMAIN doc \cup {op.id}
      /\ \A i \in DOMAIN doc \ {op.id} : e[i] = doc[i]
  <2>1. CASE op.type = "add"
    <3>1. /\ IsDoc(e) /\ DOMAIN e = DOMAIN doc \cup {op.id}
          /\ \A i \in DOMAIN doc \ {op.id} : e[i] = doc[i]
      BY <2>1, ApplyAddFacts, Zenon
    <3> QED BY <3>1
  <2>2. CASE op.type = "remove"
    <3>1. /\ IsDoc(e) /\ DOMAIN e = DOMAIN doc \ {op.id}
          /\ \A i \in DOMAIN doc \ {op.id} : e[i] = doc[i]
      BY <2>2, ApplyRemoveFacts, Zenon
    <3> QED BY <3>1
  <2>3. CASE op.type = "patch"
    BY <1>1, <2>3, ApplyPatchFacts
  <2> QED BY <1>1, <2>1, <2>2, <2>3
<1> HIDE DEF e
<1>3. ASSUME NEW i, i # op.id
      PROVE  SameAt(e, doc, i)
  <2>1. i \in DOMAIN e <=> i \in DOMAIN doc
    BY <1>2, <1>3
  <2> QED BY <1>2, <1>3, <2>1 DEF SameAt
<1> QED BY <1>2, <1>3 DEF e

\* ... and makes of its own what depends on that one only.
LEMMA ApplyThere ==
  ASSUME NEW d, IsDoc(d), NEW e, IsDoc(e), NEW op, NEW lists, IsEdit(op, lists), SameAt(d, e, op.id)
  PROVE  SameAt(Apply(d, op), Apply(e, op), op.id)
<1>1. op.lamport \in Nat /\ op.type \in {"add", "remove", "patch"}
  BY DEF IsEdit
<1>2. CASE op.type = "add"
  <2>1. /\ DOMAIN Apply(d, op) = DOMAIN d \cup {op.id}
        /\ Apply(d, op)[op.id] = IF op.id \in DOMAIN d THEN MergeAdd(d[op.id], op) ELSE op.shape
    BY <1>2, ApplyAddFacts, Zenon
  <2>2. /\ DOMAIN Apply(e, op) = DOMAIN e \cup {op.id}
        /\ Apply(e, op)[op.id] = IF op.id \in DOMAIN e THEN MergeAdd(e[op.id], op) ELSE op.shape
    BY <1>2, ApplyAddFacts, Zenon
  <2> QED BY <2>1, <2>2 DEF SameAt
<1>3. CASE op.type = "remove"
  <2>1. DOMAIN Apply(d, op) = DOMAIN d \ {op.id} /\ DOMAIN Apply(e, op) = DOMAIN e \ {op.id}
    BY <1>3, ApplyRemoveFacts, Zenon
  <2> QED BY <2>1 DEF SameAt
<1>4. CASE op.type = "patch"
  BY <1>1, <1>4, ApplyPatchFacts DEF SameAt
<1> QED BY <1>1, <1>2, <1>3, <1>4

\* Ops on different drawables commute.
LEMMA ApartCommute ==
  ASSUME NEW s, IsDoc(s), NEW x, NEW y, NEW xl, NEW yl, IsEdit(x, xl), IsEdit(y, yl), x.id # y.id
  PROVE  Apply(Apply(s, x), y) = Apply(Apply(s, y), x)
<1> DEFINE sx == Apply(s, x)
           sy == Apply(s, y)
           l == Apply(sx, y)
           r == Apply(sy, x)
<1>1. IsDoc(sx) /\ \A i : i # x.id => SameAt(sx, s, i)
  BY ApplyElsewhere
<1>2. IsDoc(sy) /\ \A i : i # y.id => SameAt(sy, s, i)
  BY ApplyElsewhere
<1>3. IsDoc(l) /\ \A i : i # y.id => SameAt(l, sx, i)
  BY <1>1, ApplyElsewhere
<1>4. IsDoc(r) /\ \A i : i # x.id => SameAt(r, sy, i)
  BY <1>2, ApplyElsewhere
<1>5. SameAt(l, sy, y.id)
  <2>1. SameAt(sx, s, y.id)
    BY <1>1
  <2> QED BY <1>1, <2>1, ApplyThere
<1>6. SameAt(r, sx, x.id)
  <2>1. SameAt(sy, s, x.id)
    BY <1>2
  <2> QED BY <1>2, <2>1, ApplyThere
<1> HIDE DEF sx, sy, l, r
<1>7. ASSUME NEW i PROVE SameAt(l, r, i)
  <2>1. CASE i = y.id
    <3>1. SameAt(l, sy, i) /\ SameAt(r, sy, i)
      BY <1>4, <1>5, <2>1
    <3> QED BY <3>1 DEF SameAt
  <2>2. CASE i = x.id
    <3>1. SameAt(l, sx, i) /\ SameAt(r, sx, i)
      BY <1>3, <1>6, <2>2
    <3> QED BY <3>1 DEF SameAt
  <2>3. CASE i # x.id /\ i # y.id
    <3>1. SameAt(l, sx, i) /\ SameAt(sx, s, i) /\ SameAt(r, sy, i) /\ SameAt(sy, s, i)
      BY <1>1, <1>2, <1>3, <1>4, <2>3
    <3> QED BY <3>1 DEF SameAt
  <2> QED BY <2>1, <2>2, <2>3
<1>8. l = r
  BY <1>3, <1>4, <1>7, SameEverywhere
<1> QED BY <1>8 DEF l, r, sx, sy

-------------------------------------------------------------------------------
(* One op after another, transformed *)

Appended(op) == IF op.type = "patch" THEN {k \in DOMAIN op.patch : op.patch[k].append} ELSE {}

LEMMA OpFacts ==
  ASSUME NEW c, NEW op, IsOp(op, c)
  PROVE  /\ op.lamport \in Nat /\ op.clientId = c
         /\ op.type \in {"add", "remove", "patch", "noop"}
         /\ op.type # "noop" => IsEdit(op, Appended(op))
         /\ op.type = "add" => IsAdd(op)
         /\ op.type = "patch" => IsPatch(op)
<1>1. /\ op.lamport \in Nat /\ op.clientId = c
      /\ op.type \in {"add", "remove", "patch", "noop"}
      /\ op.type = "add" => IsAdd(op)
      /\ op.type = "patch" => IsPatch(op)
  BY DEF IsOp
<1>2. CASE op.type = "add"
  BY <1>1, <1>2 DEF IsOp, IsAdd, IsEdit
<1>3. CASE op.type = "remove"
  BY <1>1, <1>3 DEF IsOp, IsEdit
<1>4. CASE op.type = "patch"
  <2>1. Appended(op) = {k \in DOMAIN op.patch : op.patch[k].append}
    BY <1>4 DEF Appended
  <2>2. \A k \in DOMAIN op.patch : op.patch[k].append = (k \in Appended(op))
    BY <1>1, <1>4, <2>1 DEF IsPatch
  <2> QED BY <1>1, <1>4, <2>2 DEF IsOp, IsPatch, IsEdit
<1> QED BY <1>1, <1>2, <1>3, <1>4

\* What the replica shows that receives x first.
Both(s, x, y) == Apply(Apply(s, x), Transform(y, x))

\* Ops that have nothing to do with each other commute as they are.
LEMMA BothApart ==
  ASSUME NEW s, IsDoc(s), NEW c, NEW d, NEW x, NEW y, IsOp(x, c), IsOp(y, d),
         x.type = "noop" \/ y.type = "noop" \/ x.id # y.id
  PROVE  Both(s, x, y) = Both(s, y, x)
<1>1. Transform(x, y) = x /\ Transform(y, x) = y
  BY TransformApart
<1>2. CASE x.type = "noop"
  BY <1>1, <1>2, ApplyNoop DEF Both
<1>3. CASE y.type = "noop"
  BY <1>1, <1>3, ApplyNoop DEF Both
<1>4. CASE x.type # "noop" /\ y.type # "noop" /\ x.id # y.id
  <2>1. IsEdit(x, Appended(x)) /\ IsEdit(y, Appended(y))
    BY <1>4, OpFacts
  <2>2. Apply(Apply(s, x), y) = Apply(Apply(s, y), x)
    BY <1>4, <2>1, ApartCommute
  <2> QED BY <1>1, <2>2 DEF Both
<1> QED BY <1>2, <1>3, <1>4

\* Two ops on one drawable.
Together(x, y) ==
  /\ IsEdit(x, Appended(x)) /\ IsEdit(y, Appended(y)) /\ x.id = y.id

LEMMA TogetherTypes ==
  ASSUME NEW x, NEW y, Together(x, y)
  PROVE  /\ x.type \in {"add", "remove", "patch"} /\ y.type \in {"add", "remove", "patch"}
         /\ x.lamport \in Nat /\ y.lamport \in Nat /\ x.id = y.id /\ Together(y, x)
         /\ IsEdit(x, Appended(x)) /\ IsEdit(y, Appended(y))
BY DEF Together, IsEdit

LEMMA TransformedEdit ==
  ASSUME NEW x, NEW y, Together(x, y)
  PROVE  LET z == Transform(y, x) IN
         z.type = "noop" \/ (IsEdit(z, Appended(y)) /\ z.id = x.id)
<1> DEFINE z == Transform(y, x)
<1>1. /\ x.type \in {"add", "remove", "patch"} /\ y.type \in {"add", "remove", "patch"}
      /\ x.lamport \in Nat /\ y.id = x.id /\ IsEdit(y, Appended(y))
  BY TogetherTypes
<1>2. CASE z = y
  BY <1>1, <1>2
<1>3. CASE z = AsNoop(y)
  BY <1>3, NoopFacts
<1>4. CASE y.type = "patch" /\ x.type = "patch"
  <2>1. z = MergePatches(y, x)
    BY <1>1, <1>4, TransformTogether, Zenon
  <2> HIDE DEF z
  <2>2. CASE Kept(y, x) = {}
    BY <1>1, <1>3, <1>4, <2>1, <2>2, MergePatchesFacts, Zenon DEF z
  <2>3. CASE Kept(y, x) # {}
    BY <1>1, <1>4, <2>1, <2>3, MergePatchesFacts DEF z
  <2> QED BY <2>2, <2>3
<1>5. CASE y.type = "add" /\ x.type = "patch"
  <2> DEFINE e == [y EXCEPT !.shape = ApplyPatch(@, x.patch, Larger(y.lamport, x.lamport))]
  <2>1. z = e
    BY <1>1, <1>5, TransformTogether, Zenon
  <2>2. IsEdit(e, Appended(y)) /\ e.id = y.id
    BY <1>1, <1>5, AddOverPatch, Zenon
  <2> QED BY <1>1, <2>1, <2>2
<1> HIDE DEF z
<1>6. CASE y.type = "add" /\ x.type = "add"
  <2>1. z = IF Beats(x, y) THEN AsNoop(y) ELSE y
    BY <1>1, <1>6, TransformTogether, Zenon DEF z
  <2> QED BY <1>2, <1>3, <2>1 DEF z
<1>7. CASE x.type = "remove"
  BY <1>1, <1>3, <1>7, TransformTogether, Zenon DEF z
<1>8. CASE x.type # "remove" /\ y.type = "remove"
  BY <1>1, <1>2, <1>8, TransformTogether, Zenon DEF z
<1>9. CASE x.type = "add" /\ y.type = "patch"
  BY <1>1, <1>2, <1>9, TransformTogether, Zenon DEF z
<1> QED BY <1>1, <1>4, <1>5, <1>6, <1>7, <1>8, <1>9 DEF z

LEMMA BothElsewhere ==
  ASSUME NEW s, IsDoc(s), NEW x, NEW y, Together(x, y)
  PROVE  IsDoc(Both(s, x, y)) /\ \A i : i # x.id => SameAt(Both(s, x, y), s, i)
<1> DEFINE z == Transform(y, x)
           sx == Apply(s, x)
<1>1. IsDoc(sx) /\ \A i : i # x.id => SameAt(sx, s, i)
  BY TogetherTypes, ApplyElsewhere
<1>2. z.type = "noop" \/ (IsEdit(z, Appended(y)) /\ z.id = x.id)
  BY TransformedEdit
<1>3. Both(s, x, y) = Apply(sx, z)
  BY DEF Both
<1> HIDE DEF z, sx
<1>4. CASE z.type = "noop"
  <2>1. Apply(sx, z) = sx
    BY <1>4, ApplyNoop
  <2> QED BY <1>1, <1>3, <2>1
<1>5. CASE IsEdit(z, Appended(y)) /\ z.id = x.id
  <2>1. IsDoc(Apply(sx, z)) /\ \A i : i # x.id => SameAt(Apply(sx, z), sx, i)
    BY <1>1, <1>5, ApplyElsewhere
  <2>2. ASSUME NEW i, i # x.id
        PROVE  SameAt(Apply(sx, z), s, i)
    <3>1. SameAt(Apply(sx, z), sx, i) /\ SameAt(sx, s, i)
      BY <1>1, <2>1, <2>2
    <3> QED BY <3>1 DEF SameAt
  <2> QED BY <1>3, <2>1, <2>2
<1> QED BY <1>2, <1>4, <1>5

\* The two orders differ, if at all, in that drawable.
LEMMA BothSame ==
  ASSUME NEW s, IsDoc(s), NEW x, NEW y, Together(x, y)
  PROVE  Both(s, x, y) = Both(s, y, x) <=> SameAt(Both(s, x, y), Both(s, y, x), x.id)
<1> DEFINE l == Both(s, x, y)
           r == Both(s, y, x)
<1>1. IsDoc(l) /\ \A i : i # x.id => SameAt(l, s, i)
  BY BothElsewhere
<1>2. IsDoc(r) /\ \A i : i # x.id => SameAt(r, s, i)
  BY BothElsewhere, TogetherTypes
<1> HIDE DEF l, r
<1>3. l = r => SameAt(l, r, x.id)
  BY DEF SameAt
<1>4. ASSUME SameAt(l, r, x.id)
      PROVE  l = r
  <2>1. ASSUME NEW i PROVE SameAt(l, r, i)
    <3>1. CASE i = x.id
      BY <1>4, <3>1
    <3>2. CASE i # x.id
      <4>1. SameAt(l, s, i) /\ SameAt(r, s, i)
        BY <1>1, <1>2, <3>2
      <4> QED BY <4>1 DEF SameAt
    <3> QED BY <3>1, <3>2
  <2> QED BY <1>1, <1>2, <2>1, SameEverywhere
<1> QED BY <1>3, <1>4 DEF l, r

-------------------------------------------------------------------------------
(* Removes and adds *)

LEMMA RemovedInBoth ==
  ASSUME NEW s, IsDoc(s), NEW x, NEW y, Together(x, y), x.type = "remove" \/ y.type = "remove"
  PROVE  x.id \notin DOMAIN Both(s, x, y)
<1> DEFINE sx == Apply(s, x)
<1>1. /\ x.type \in {"add", "remove", "patch"} /\ y.type \in {"add", "remove", "patch"}
      /\ x.id = y.id
  BY TogetherTypes
<1>2. IsDoc(sx)
  BY TogetherTypes, ApplyElsewhere
<1>3. Both(s, x, y) = Apply(sx, Transform(y, x))
  BY DEF Both
<1>4. CASE x.type = "remove"
  <2>1. Transform(y, x) = AsNoop(y)
    BY <1>1, <1>4, TransformTogether, Zenon
  <2>2. Both(s, x, y) = sx
    BY <1>3, <2>1, ApplyNoop, NoopFacts
  <2>3. DOMAIN sx = DOMAIN s \ {x.id}
    BY <1>4, ApplyRemoveFacts
  <2> QED BY <2>2, <2>3
<1> HIDE DEF sx
<1>5. CASE x.type # "remove"
  <2>1. y.type = "remove" /\ Transform(y, x) = y
    BY <1>1, <1>5, TransformTogether, Zenon
  <2>2. DOMAIN Apply(sx, y) = DOMAIN sx \ {y.id}
    BY <1>2, <2>1, ApplyRemoveFacts
  <2> QED BY <1>1, <1>3, <2>1, <2>2
<1> QED BY <1>4, <1>5

\* Of two ops of different clients one beats the other.
LEMMA OneBeats ==
  ASSUME NEW c \in Nat, NEW d \in Nat, c # d, NEW x, NEW y, IsOp(x, c), IsOp(y, d)
  PROVE  /\ Beats(x, y) <=> ~Beats(y, x)
         /\ Beats(x, y) => x.lamport >= y.lamport
<1>1. x.lamport \in Nat /\ y.lamport \in Nat /\ x.clientId = c /\ y.clientId = d
  BY OpFacts
<1> QED BY <1>1 DEF Beats

\* The later of two adds of one id prevails; the two orders agree on a drawable that was
\* there, and only then.
LEMMA AddsInOrder ==
  ASSUME NEW c \in Nat, NEW d \in Nat, c # d, NEW x, NEW y, IsOp(x, c), IsOp(y, d),
         NEW s, IsDoc(s), Together(x, y), x.type = "add", y.type = "add", Beats(y, x)
  PROVE  Both(s, x, y) = Both(s, y, x) <=> x.id \in DOMAIN s
<1> DEFINE i == x.id
           sx == Apply(s, x)
           l == Both(s, x, y)
           r == Both(s, y, x)
<1>1. /\ y.id = i /\ IsEdit(x, Appended(x)) /\ IsEdit(y, Appended(y))
      /\ x.lamport \in Nat /\ y.lamport \in Nat /\ IsAdd(x) /\ IsAdd(y)
  BY OpFacts, TogetherTypes
<1>2. ~Beats(x, y) /\ y.lamport >= x.lamport
  BY OneBeats
<1>3. Transform(y, x) = y /\ Transform(x, y) = AsNoop(x)
  BY <1>1, <1>2, TransformTogether, Zenon
<1>4. l = Apply(sx, y) /\ r = Apply(s, y)
  BY <1>3, ApplyNoop, NoopFacts DEF Both
<1>5. IsDoc(sx) /\ DOMAIN sx = DOMAIN s \cup {i}
      /\ sx[i] = IF i \in DOMAIN s THEN MergeAdd(s[i], x) ELSE x.shape
  BY <1>1, ApplyAddFacts, Zenon
<1>6. DOMAIN r = DOMAIN s \cup {i} /\ r[i] = IF i \in DOMAIN s THEN MergeAdd(s[i], y) ELSE y.shape
  <2>1. /\ DOMAIN Apply(s, y) = DOMAIN s \cup {y.id}
        /\ Apply(s, y)[y.id] = IF y.id \in DOMAIN s THEN MergeAdd(s[y.id], y) ELSE y.shape
    BY <1>1, ApplyAddFacts, Zenon
  <2> QED BY <1>1, <1>4, <2>1
<1>7. Both(s, x, y) = Both(s, y, x) <=> SameAt(l, r, i)
  BY BothSame
<1> HIDE DEF sx
<1>8. DOMAIN l = DOMAIN sx \cup {i} /\ l[i] = MergeAdd(sx[i], y)
  <2>1. /\ DOMAIN Apply(sx, y) = DOMAIN sx \cup {y.id}
        /\ Apply(sx, y)[y.id] = IF y.id \in DOMAIN sx THEN MergeAdd(sx[y.id], y) ELSE y.shape
    BY <1>1, <1>5, ApplyAddFacts, Zenon
  <2>2. i \in DOMAIN sx
    BY <1>5
  <2> QED BY <1>1, <1>4, <2>1, <2>2
<1> HIDE DEF l, r
<1>9. SameAt(l, r, i) <=> l[i] = r[i]
  BY <1>5, <1>6, <1>8 DEF SameAt
<1>10. /\ IsDrawable(x.shape) /\ x.shape.id = i /\ x.shape.updatedAt \in Nat
       /\ IsDrawable(y.shape) /\ y.shape.id = i /\ y.shape.updatedAt \in Nat
       /\ y.shape.updatedAt < y.lamport
       /\ DOMAIN x.shape.fields = DOMAIN y.shape.fields
  BY <1>1 DEF IsAdd, IsDrawable
<1>11. CASE i \notin DOMAIN s
  <2>1. l[i] = MergeAdd(x.shape, y) /\ r[i] = y.shape
    BY <1>5, <1>6, <1>8, <1>11
  <2>2. l[i].updatedAt = Larger(x.shape.updatedAt, y.lamport)
    BY SMTT(30), <1>1, <1>10, <2>1, MergeFacts
  <2>3. l[i].updatedAt \in Nat /\ l[i].updatedAt >= y.lamport
    BY <1>1, <1>10, <2>2, LargerFacts, ZenonT(60)
  <2>4. r[i].updatedAt \in Nat /\ r[i].updatedAt < y.lamport
    BY <1>10, <2>1
  <2>5. l[i].updatedAt # r[i].updatedAt
    BY <1>1, <2>3, <2>4
  <2> QED BY <1>7, <1>9, <1>11, <2>5
<1>12. CASE i \in DOMAIN s
  <2> DEFINE e == s[i]
             f == MergeAdd(e, x)
             g == MergeAdd(f, y)
             h == MergeAdd(e, y)
  <2>1. l[i] = g /\ r[i] = h
    BY <1>5, <1>6, <1>8, <1>12
  <2>2. IsDrawable(e)
    BY <1>12 DEF IsDoc
  <2>3. /\ IsDrawable(f) /\ f.id = i /\ f.createdAt = e.createdAt
        /\ f.updatedAt = Larger(e.updatedAt, x.lamport)
        /\ DOMAIN f.fields = DOMAIN e.fields \cup DOMAIN x.shape.fields
        /\ \A k \in DOMAIN f.fields : f.fields[k] =
             IF k \in DOMAIN x.shape.fields THEN x.shape.fields[k] ELSE e.fields[k]
    BY <1>1, <1>10, <2>2, MergeFacts, ZenonT(30)
  <2>4. /\ IsDrawable(h) /\ h.id = i /\ h.createdAt = e.createdAt
        /\ h.updatedAt = Larger(e.updatedAt, y.lamport)
        /\ DOMAIN h.fields = DOMAIN e.fields \cup DOMAIN y.shape.fields
        /\ \A k \in DOMAIN h.fields : h.fields[k] =
             IF k \in DOMAIN y.shape.fields THEN y.shape.fields[k] ELSE e.fields[k]
    BY <1>1, <1>10, <2>2, MergeFacts, ZenonT(30)
  <2> HIDE DEF f
  <2>5. /\ IsDrawable(g) /\ g.id = y.shape.id /\ g.createdAt = f.createdAt
        /\ g.updatedAt = Larger(f.updatedAt, y.lamport)
        /\ DOMAIN g.fields = DOMAIN f.fields \cup DOMAIN y.shape.fields
        /\ \A k \in DOMAIN g.fields : g.fields[k] =
             IF k \in DOMAIN y.shape.fields THEN y.shape.fields[k] ELSE f.fields[k]
    <3>1. IsDrawable(f) /\ IsDrawable(y.shape) /\ y.lamport \in Nat /\ y.shape.id = i
      BY <1>1, <1>10, <2>3
    <3> QED BY <3>1, MergeFacts, SMTT(30)
  <2>6. g.updatedAt = h.updatedAt
    <3>1. e.updatedAt \in Nat
      BY <2>2 DEF IsDrawable
    <3> HIDE DEF e, g, h
    <3> QED BY <1>1, <1>2, <2>3, <2>4, <2>5, <3>1 DEF Larger
  <2> HIDE DEF e, g, h
  <2>7. DOMAIN g.fields = DOMAIN h.fields /\ \A k \in DOMAIN g.fields : g.fields[k] = h.fields[k]
    BY <1>10, <2>3, <2>4, <2>5
  <2>8. g = h
    BY <1>10, <2>3, <2>4, <2>5, <2>6, <2>7, SameDrawable
  <2> QED BY <1>7, <1>9, <1>12, <2>1, <2>8
<1> QED BY <1>11, <1>12

LEMMA AddsTogether ==
  ASSUME NEW c \in Nat, NEW d \in Nat, c # d, NEW x, NEW y, IsOp(x, c), IsOp(y, d),
         NEW s, IsDoc(s), Together(x, y), x.type = "add", y.type = "add"
  PROVE  Both(s, x, y) = Both(s, y, x) <=> x.id \in DOMAIN s
<1>1. CASE Beats(y, x)
  BY <1>1, AddsInOrder
<1>2. CASE Beats(x, y)
  <2>1. Together(y, x) /\ y.id = x.id
    BY TogetherTypes
  <2>2. Both(s, y, x) = Both(s, x, y) <=> y.id \in DOMAIN s
    BY <1>2, <2>1, AddsInOrder
  <2> QED BY <2>1, <2>2
<1> QED BY <1>1, <1>2, OneBeats

\* e is what a patch makes of the drawable d, f what a merge of d and e makes.
IsPatched(e, d, patch, lamport) ==
  /\ IsDrawable(e) /\ e.id = d.id /\ e.createdAt = d.createdAt
  /\ e.updatedAt = Larger(d.updatedAt, lamport)
  /\ DOMAIN e.fields = DOMAIN d.fields \cup DOMAIN patch
  /\ \A k \in DOMAIN d.fields \ DOMAIN patch : e.fields[k] = d.fields[k]
  /\ \A k \in DOMAIN patch : e.fields[k] =
       IF patch[k].append
         THEN (IF k \in DOMAIN d.fields THEN d.fields[k] ELSE <<>>) \o patch[k].v
         ELSE patch[k].v

IsMerged(f, d, e, lamport) ==
  /\ IsDrawable(f) /\ f.id = e.id /\ f.createdAt = d.createdAt
  /\ f.updatedAt = Larger(d.updatedAt, lamport)
  /\ DOMAIN f.fields = DOMAIN d.fields \cup DOMAIN e.fields
  /\ \A k \in DOMAIN f.fields :
       f.fields[k] = IF k \in DOMAIN e.fields THEN e.fields[k] ELSE d.fields[k]

LEMMA Patches ==
  ASSUME NEW d, IsDrawable(d), NEW patch, NEW lamport \in Nat
  PROVE  IsPatched(ApplyPatch(d, patch, lamport), d, patch, lamport)
<1> DEFINE e == ApplyPatch(d, patch, lamport)
<1>1. /\ IsDrawable(e) /\ e.id = d.id /\ e.createdAt = d.createdAt
      /\ e.updatedAt = Larger(d.updatedAt, lamport)
      /\ DOMAIN e.fields = DOMAIN d.fields \cup DOMAIN patch
      /\ \A k \in DOMAIN d.fields \ DOMAIN patch : e.fields[k] = d.fields[k]
  BY PatchFacts
<1>2. \A k \in DOMAIN patch : e.fields[k] =
        IF patch[k].append
          THEN (IF k \in DOMAIN d.fields THEN d.fields[k] ELSE <<>>) \o patch[k].v
          ELSE patch[k].v
  BY PatchFacts
<1> HIDE DEF e
<1>3. IsPatched(e, d, patch, lamport)
  BY <1>1, <1>2, Zenon DEF IsPatched
<1> QED BY <1>3 DEF e

LEMMA Merges ==
  ASSUME NEW d, IsDrawable(d), NEW op, IsDrawable(op.shape), op.lamport \in Nat
  PROVE  IsMerged(MergeAdd(d, op), d, op.shape, op.lamport)
BY MergeFacts, SMTT(30) DEF IsMerged

\* An add over a patch of the same drawable, in full.
LEMMA AddCarriesPatch ==
  ASSUME NEW x, NEW y, IsEdit(x, Appended(x)), x.type = "add", y.lamport \in Nat,
         NEW z, z = [x EXCEPT !.shape = ApplyPatch(@, y.patch, Larger(x.lamport, y.lamport))]
  PROVE  /\ IsEdit(z, Appended(x)) /\ z.type = "add" /\ z.id = x.id /\ z.lamport = x.lamport
         /\ z.shape = ApplyPatch(x.shape, y.patch, Larger(x.lamport, y.lamport))
<1>1. IsEdit(z, Appended(x)) /\ z.type = "add" /\ z.id = x.id /\ z.lamport = x.lamport
  BY AddOverPatch, Zenon
<1>2. "shape" \in DOMAIN x
  BY DEF IsEdit
<1>3. z.shape = ApplyPatch(x.shape, y.patch, Larger(x.lamport, y.lamport))
  BY <1>2, Zenon
<1> QED BY <1>1, <1>3

\* An add and a patch of one drawable: the orders agree on a drawable that was there, and
\* on a new one if the patch has no earlier stamp than the add.
LEMMA AddAndPatch ==
  ASSUME NEW c, NEW d, NEW x, NEW y, IsOp(x, c), IsOp(y, d),
         NEW s, IsDoc(s), Together(x, y), x.type = "add", y.type = "patch"
  PROVE  Both(s, x, y) = Both(s, y, x) <=> (x.id \in DOMAIN s \/ x.lamport <= y.lamport)
<1> DEFINE i == x.id
           m == Larger(x.lamport, y.lamport)
           z == [x EXCEPT !.shape = ApplyPatch(@, y.patch, m)]
           sx == Apply(s, x)
           sy == Apply(s, y)
           l == Both(s, x, y)
           r == Both(s, y, x)
<1>1. /\ y.id = i /\ IsEdit(x, Appended(x)) /\ IsEdit(y, Appended(y))
      /\ x.lamport \in Nat /\ y.lamport \in Nat /\ IsAdd(x) /\ IsPatch(y)
  BY OpFacts, TogetherTypes
<1>2. Transform(y, x) = y /\ Transform(x, y) = z
  BY <1>1, TransformTogether, Zenon
<1>3. l = Apply(sx, y) /\ r = Apply(sy, z)
  BY <1>2, Zenon DEF Both
<1>4. /\ IsEdit(z, Appended(x)) /\ z.type = "add" /\ z.id = i /\ z.lamport = x.lamport
      /\ z.shape = ApplyPatch(x.shape, y.patch, m)
  BY <1>1, AddCarriesPatch, Zenon
<1>5. IsDoc(sx) /\ DOMAIN sx = DOMAIN s \cup {i}
      /\ sx[i] = IF i \in DOMAIN s THEN MergeAdd(s[i], x) ELSE x.shape
  BY <1>1, ApplyAddFacts, Zenon
<1>6. /\ IsDoc(sy) /\ DOMAIN sy = DOMAIN s
      /\ i \in DOMAIN s => sy[i] = ApplyPatch(s[i], y.patch, y.lamport)
  <2>1. /\ IsDoc(sy) /\ DOMAIN sy = DOMAIN s
        /\ y.id \in DOMAIN s => sy[y.id] = ApplyPatch(s[y.id], y.patch, y.lamport)
    BY <1>1, ApplyPatchFacts, Zenon
  <2> QED BY <1>1, <2>1
<1>7. Both(s, x, y) = Both(s, y, x) <=> SameAt(l, r, i)
  BY BothSame
<1>8. m \in Nat
  BY <1>1, LargerFacts
<1> HIDE DEF sx, sy, z, m, l, r
<1>9. DOMAIN l = DOMAIN sx /\ l[i] = ApplyPatch(sx[i], y.patch, y.lamport)
  <2>1. /\ DOMAIN Apply(sx, y) = DOMAIN sx
        /\ y.id \in DOMAIN sx => Apply(sx, y)[y.id] = ApplyPatch(sx[y.id], y.patch, y.lamport)
    BY <1>1, <1>5, ApplyPatchFacts, Zenon
  <2>2. i \in DOMAIN sx
    BY <1>5
  <2> QED BY <1>1, <1>3, <2>1, <2>2
<1>10. DOMAIN r = DOMAIN sy \cup {i} /\ r[i] = IF i \in DOMAIN sy THEN MergeAdd(sy[i], z) ELSE z.shape
  <2>1. /\ DOMAIN Apply(sy, z) = DOMAIN sy \cup {z.id}
        /\ Apply(sy, z)[z.id] = IF z.id \in DOMAIN sy THEN MergeAdd(sy[z.id], z) ELSE z.shape
    <3>1. IsDoc(sy) /\ IsEdit(z, Appended(x)) /\ z.type = "add"
      BY <1>4, <1>6
    <3> QED BY <3>1, ApplyAddFacts, Zenon
  <2> QED BY <1>3, <1>4, <2>1
<1>11. SameAt(l, r, i) <=> l[i] = r[i]
  BY <1>5, <1>6, <1>9, <1>10 DEF SameAt
<1>12. IsDrawable(x.shape) /\ x.shape.id = i /\ x.shape.updatedAt \in Nat /\ x.shape.updatedAt < x.lamport
  BY <1>1 DEF IsAdd, IsDrawable
<1> DEFINE P == DOMAIN y.patch
           p == y.patch
           X == x.shape.fields
<1>13. \A k \in P : p[k].append => k \in DOMAIN X
  BY <1>1 DEF IsAdd, IsPatch
<1>14. CASE i \notin DOMAIN s
  <2> DEFINE e == ApplyPatch(x.shape, p, y.lamport)
             f == ApplyPatch(x.shape, p, m)
  <2>1. l[i] = e /\ r[i] = f
    <3>1. sx[i] = x.shape /\ r[i] = z.shape
      BY <1>5, <1>6, <1>10, <1>14
    <3> QED BY <1>4, <1>9, <3>1, Zenon
  <2>2. e.updatedAt = Larger(x.shape.updatedAt, y.lamport)
    BY <1>1, <1>12, Patches DEF IsPatched
  <2>3. f.updatedAt = Larger(x.shape.updatedAt, m)
    BY <1>8, <1>12, Patches DEF IsPatched
  <2>4. CASE x.lamport <= y.lamport
    <3>1. m = y.lamport
      BY <1>1, <2>4 DEF m, Larger
    <3>2. l[i] = r[i]
      BY <2>1, <3>1
    <3> QED BY <1>7, <1>11, <2>4, <3>2
  <2> HIDE DEF e, f
  <2>5. CASE ~(x.lamport <= y.lamport)
    <3>1. m = x.lamport /\ f.updatedAt = x.lamport
      BY <1>1, <1>12, <2>3, <2>5 DEF m, Larger
    <3>2. e.updatedAt # x.lamport
      BY <1>1, <1>12, <2>2, <2>5 DEF Larger
    <3>3. l[i] # r[i]
      BY <2>1, <3>1, <3>2
    <3> QED BY <1>7, <1>11, <1>14, <2>5, <3>3
  <2> QED BY <2>4, <2>5
<1>15. CASE i \in DOMAIN s
  <2> DEFINE e == s[i]
             f == MergeAdd(e, x)
             g == ApplyPatch(f, p, y.lamport)
             h == ApplyPatch(e, p, y.lamport)
             j == MergeAdd(h, z)
  <2>1. l[i] = g /\ r[i] = j
    <3>1. sx[i] = f /\ sy[i] = h
      BY <1>1, <1>5, <1>6, <1>15, Zenon
    <3>2. r[i] = MergeAdd(sy[i], z)
      BY <1>6, <1>10, <1>15
    <3> QED BY <1>9, <3>1, <3>2, Zenon
  <2>2. IsDrawable(e) /\ e.updatedAt \in Nat
    BY <1>15 DEF IsDoc, IsDrawable
  <2>3. IsMerged(f, e, x.shape, x.lamport)
    BY <1>1, <1>12, <2>2, Merges
  <2>4. IsPatched(h, e, p, y.lamport)
    BY <1>1, <2>2, Patches
  <2> HIDE DEF f, h
  <2>5. IsPatched(g, f, p, y.lamport)
    <3>1. IsDrawable(f)
      BY <2>3 DEF IsMerged
    <3> QED BY <1>1, <3>1, Patches
  <2> DEFINE o == z.shape
  <2>6. IsPatched(o, x.shape, p, m)
    <3>1. IsPatched(ApplyPatch(x.shape, p, m), x.shape, p, m)
      BY <1>8, <1>12, Patches
    <3> QED BY <1>4, <3>1, Zenon
  <2>7. IsMerged(j, h, o, x.lamport)
    <3>1. IsDrawable(h) /\ IsDrawable(z.shape) /\ z.lamport = x.lamport /\ z.lamport \in Nat
      BY <1>1, <1>4, <2>4, <2>6 DEF IsPatched
    <3>2. IsMerged(j, h, z.shape, z.lamport)
      BY <3>1, Merges
    <3> QED BY <3>1, <3>2, Zenon
  <2> HIDE DEF e, g, j, o
  <2>8. g.updatedAt = j.updatedAt
    <3>1. /\ g.updatedAt = Larger(Larger(e.updatedAt, x.lamport), y.lamport)
          /\ j.updatedAt = Larger(Larger(e.updatedAt, y.lamport), x.lamport)
      BY <2>3, <2>4, <2>5, <2>7 DEF IsPatched, IsMerged
    <3> QED BY <1>1, <2>2, <3>1 DEF Larger
  <2>9. DOMAIN g.fields = DOMAIN j.fields
    BY <2>3, <2>4, <2>5, <2>6, <2>7 DEF IsPatched, IsMerged
  <2>10. ASSUME NEW k \in DOMAIN g.fields
         PROVE  g.fields[k] = j.fields[k]
    <3>1. CASE k \in P
      <4>1. j.fields[k] = o.fields[k]
        <5>1. k \in DOMAIN o.fields
          BY <2>6, <3>1 DEF IsPatched
        <5> QED BY <2>7, <5>1 DEF IsMerged
      <4>2. CASE ~p[k].append
        <5>1. g.fields[k] = p[k].v
          BY <2>5, <3>1, <4>2 DEF IsPatched
        <5>2. o.fields[k] = p[k].v
          BY <2>6, <3>1, <4>2 DEF IsPatched
        <5> QED BY <4>1, <5>1, <5>2
      <4>3. CASE p[k].append
        <5>1. k \in DOMAIN X /\ k \in DOMAIN f.fields /\ f.fields[k] = X[k]
          BY <1>13, <2>3, <3>1, <4>3 DEF IsMerged
        <5> QED BY <2>5, <2>6, <3>1, <4>1, <4>3, <5>1 DEF IsPatched
      <4> QED BY <4>2, <4>3
    <3>2. CASE k \notin P
      <4>1. CASE k \in DOMAIN X
        <5>1. g.fields[k] = X[k]
          BY <2>3, <2>5, <3>2, <4>1 DEF IsPatched, IsMerged
        <5>2. o.fields[k] = X[k] /\ k \in DOMAIN o.fields
          BY <2>6, <3>2, <4>1 DEF IsPatched
        <5>3. j.fields[k] = o.fields[k]
          BY <2>7, <5>2 DEF IsMerged
        <5> QED BY <5>1, <5>2, <5>3
      <4>2. CASE k \notin DOMAIN X
        <5>1. k \in DOMAIN e.fields
          BY <2>3, <2>5, <3>2, <4>2 DEF IsPatched, IsMerged
        <5>2. g.fields[k] = e.fields[k]
          BY <2>3, <2>5, <3>2, <4>2, <5>1 DEF IsPatched, IsMerged
        <5>3. k \notin DOMAIN o.fields /\ k \in DOMAIN h.fields /\ h.fields[k] = e.fields[k]
          BY <2>4, <2>6, <3>2, <4>2, <5>1 DEF IsPatched
        <5> QED BY <2>7, <5>2, <5>3 DEF IsMerged
      <4> QED BY <4>1, <4>2
    <3> QED BY <3>1, <3>2
  <2>11. g = j
    <3>1. g.id = j.id /\ g.createdAt = j.createdAt
      BY <2>3, <2>4, <2>5, <2>6, <2>7 DEF IsPatched, IsMerged
    <3> QED BY <2>5, <2>7, <2>8, <2>9, <2>10, <3>1, SameDrawable DEF IsPatched, IsMerged
  <2> QED BY <1>7, <1>11, <1>15, <2>1, <2>11
<1> QED BY <1>14, <1>15

-------------------------------------------------------------------------------
(* Two patches of one drawable *)

\* What is in field k of the drawable d, what the write w makes of it, and what is in it
\* after the patch x and then what transform leaves of the patch y.
Had(d, k) == IF k \in DOMAIN d.fields THEN d.fields[k] ELSE <<>>
On(d, w, k) == IF w.append THEN Had(d, k) \o w.v ELSE w.v
Merged(d, x, y, k) ==
  IF k \in Kept(y, x)
    THEN IF k \in DOMAIN x.patch /\ y.patch[k].append
           THEN On(d, x.patch[k], k) \o y.patch[k].v
           ELSE On(d, y.patch[k], k)
    ELSE IF k \in DOMAIN x.patch THEN On(d, x.patch[k], k) ELSE d.fields[k]

IsOutcome(e, d, x, y) ==
  /\ IsDrawable(e) /\ e.id = d.id /\ e.createdAt = d.createdAt
  /\ e.updatedAt = Larger(d.updatedAt, Larger(x.lamport, y.lamport))
  /\ DOMAIN e.fields = DOMAIN d.fields \cup DOMAIN x.patch \cup DOMAIN y.patch
  /\ \A k \in DOMAIN e.fields : e.fields[k] = Merged(d, x, y, k)

\* A patch can lose all it writes to a patch of no earlier stamp only.
LEMMA KeptNothing ==
  ASSUME NEW x, NEW y, IsPatch(y), x.lamport \in Nat, y.lamport \in Nat, Kept(y, x) = {}
  PROVE  x.lamport >= y.lamport /\ DOMAIN y.patch \subseteq DOMAIN x.patch
<1>1. PICK k \in DOMAIN y.patch : TRUE
  BY DEF IsPatch
<1>2. k \notin Kept(y, x)
  OBVIOUS
<1>3. Beats(x, y)
  BY <1>1, <1>2 DEF Kept
<1>4. x.lamport >= y.lamport
  BY <1>3 DEF Beats
<1>5. \A f \in DOMAIN y.patch : f \in DOMAIN x.patch
  BY DEF Kept
<1> QED BY <1>4, <1>5

LEMMA PatchAfterPatch ==
  ASSUME NEW c, NEW d, NEW x, NEW y, IsOp(x, c), IsOp(y, d),
         NEW s, IsDoc(s), Together(x, y), x.type = "patch", y.type = "patch", x.id \in DOMAIN s
  PROVE  x.id \in DOMAIN Both(s, x, y) /\ IsOutcome(Both(s, x, y)[x.id], s[x.id], x, y)
<1> DEFINE i == x.id
           o == s[i]
           z == MergePatches(y, x)
           sx == Apply(s, x)
           e == ApplyPatch(o, x.patch, x.lamport)
           l == Both(s, x, y)
<1>1. /\ y.id = i /\ IsEdit(x, Appended(x)) /\ IsEdit(y, Appended(y))
      /\ x.lamport \in Nat /\ y.lamport \in Nat /\ IsPatch(x) /\ IsPatch(y)
  BY OpFacts, TogetherTypes
<1>2. l = Apply(sx, z)
  <2>1. Transform(y, x) = z
    BY <1>1, TransformTogether, Zenon
  <2> QED BY <2>1, Zenon DEF Both
<1>3. IsDoc(sx) /\ DOMAIN sx = DOMAIN s /\ sx[i] = e
  BY <1>1, ApplyPatchFacts, Zenon
<1>4. IsDrawable(o) /\ o.updatedAt \in Nat
  BY DEF IsDoc, IsDrawable
<1>5. IsPatched(e, o, x.patch, x.lamport)
  BY <1>1, <1>4, Patches
<1>6. CASE Kept(y, x) = {}
  <2>1. z = AsNoop(y)
    BY <1>1, <1>6, MergePatchesFacts, Zenon
  <2>2. l = sx
    BY <1>2, <2>1, ApplyNoop, NoopFacts
  <2>3. l[i] = e /\ i \in DOMAIN l
    BY <1>3, <2>2
  <2>4. x.lamport >= y.lamport /\ DOMAIN y.patch \subseteq DOMAIN x.patch
    BY <1>1, <1>6, KeptNothing
  <2> HIDE DEF e, o, l
  <2>5. Larger(x.lamport, y.lamport) = x.lamport
    BY <1>1, <2>4 DEF Larger
  <2>6. ASSUME NEW k \in DOMAIN e.fields PROVE e.fields[k] = Merged(o, x, y, k)
    BY <1>5, <1>6 DEF IsPatched, Merged, On, Had
  <2>7. IsOutcome(e, o, x, y)
    <3>1. DOMAIN e.fields = DOMAIN o.fields \cup DOMAIN x.patch \cup DOMAIN y.patch
      BY <1>5, <2>4 DEF IsPatched
    <3> QED BY <1>5, <2>5, <2>6, <3>1 DEF IsOutcome, IsPatched
  <2> QED BY <2>3, <2>7 DEF o, l
<1>7. CASE Kept(y, x) # {}
  <2>1. /\ z.type = "patch" /\ z.id = y.id /\ z.lamport = y.lamport
        /\ DOMAIN z.patch = Kept(y, x) /\ \A k \in Kept(y, x) : z.patch[k] = y.patch[k]
    BY <1>1, <1>7, MergePatchesFacts, Zenon
  <2> DEFINE f == ApplyPatch(e, z.patch, y.lamport)
  <2>2. IsDrawable(e)
    BY <1>5 DEF IsPatched
  <2>3. IsPatched(f, e, z.patch, y.lamport)
    BY <1>1, <2>2, Patches
  <2> HIDE DEF sx, z
  <2>4. DOMAIN l = DOMAIN sx /\ l[i] = f
    <3>1. /\ DOMAIN Apply(sx, z) = DOMAIN sx
          /\ z.id \in DOMAIN sx => Apply(sx, z)[z.id] = ApplyPatch(sx[z.id], z.patch, z.lamport)
      BY <1>1, <1>3, <2>1, ApplyPatchFacts, SMTT(30)
    <3>2. z.id = i /\ i \in DOMAIN sx
      BY <1>1, <1>3, <2>1
    <3>3. Apply(sx, z)[i] = ApplyPatch(sx[i], z.patch, z.lamport)
      BY <3>1, <3>2
    <3> QED BY <1>2, <1>3, <2>1, <3>1, <3>3, Zenon
  <2> HIDE DEF e, f, o, l
  <2>5. f.updatedAt = Larger(o.updatedAt, Larger(x.lamport, y.lamport))
    <3>1. f.updatedAt = Larger(Larger(o.updatedAt, x.lamport), y.lamport)
      BY <1>5, <2>3 DEF IsPatched
    <3> QED BY <1>1, <1>4, <3>1 DEF Larger
  <2>6. DOMAIN f.fields = DOMAIN o.fields \cup DOMAIN x.patch \cup DOMAIN y.patch
    <3>1. Kept(y, x) \subseteq DOMAIN y.patch /\ DOMAIN y.patch \subseteq Kept(y, x) \cup DOMAIN x.patch
      BY DEF Kept
    <3> QED BY <1>5, <2>1, <2>3, <3>1 DEF IsPatched
  <2>7. ASSUME NEW k \in DOMAIN f.fields PROVE f.fields[k] = Merged(o, x, y, k)
    <3>1. CASE k \notin Kept(y, x)
      <4>1. k \in DOMAIN e.fields /\ f.fields[k] = e.fields[k]
        BY <2>1, <2>3, <3>1 DEF IsPatched
      <4>2. e.fields[k] = Merged(o, x, y, k)
        BY <1>5, <3>1, <4>1 DEF IsPatched, Merged, On, Had
      <4> QED BY <4>1, <4>2
    <3>2. CASE k \in Kept(y, x)
      <4>1. f.fields[k] = IF y.patch[k].append
              THEN (IF k \in DOMAIN e.fields THEN e.fields[k] ELSE <<>>) \o y.patch[k].v
              ELSE y.patch[k].v
        BY <2>1, <2>3, <3>2 DEF IsPatched
      <4>2. CASE ~y.patch[k].append
        BY <3>2, <4>1, <4>2 DEF Merged, On
      <4>3. CASE y.patch[k].append /\ k \in DOMAIN x.patch
        <5>1. k \in DOMAIN e.fields /\ e.fields[k] = On(o, x.patch[k], k)
          BY <1>5, <4>3 DEF IsPatched, On, Had
        <5> QED BY <3>2, <4>1, <4>3, <5>1 DEF Merged
      <4>4. CASE y.patch[k].append /\ k \notin DOMAIN x.patch
        <5>1. (IF k \in DOMAIN e.fields THEN e.fields[k] ELSE <<>>) = Had(o, k)
          BY <1>5, <4>4 DEF IsPatched, Had
        <5> QED BY <3>2, <4>1, <4>4, <5>1 DEF Merged, On
      <4> QED BY <4>2, <4>3, <4>4
    <3> QED BY <3>1, <3>2
  <2>8. f.id = o.id /\ f.createdAt = o.createdAt /\ IsDrawable(f)
    BY <1>5, <2>3 DEF IsPatched
  <2>9. IsOutcome(f, o, x, y)
    BY <2>5, <2>6, <2>7, <2>8 DEF IsOutcome
  <2>10. i \in DOMAIN l
    BY <1>3, <2>4
  <2> QED BY <2>4, <2>9, <2>10 DEF o, l
<1> QED BY <1>6, <1>7

\* In field k the order in which a drawable d gets the patches p and q is seen, as p
\* appends.
ClashOn(d, p, q, k) ==
  /\ p.patch[k].append
  /\ \/ q.patch[k].append /\ p.patch[k].v \o q.patch[k].v # q.patch[k].v \o p.patch[k].v
     \/ ~q.patch[k].append /\ Beats(p, q) /\ Had(d, k) # q.patch[k].v

\* One append against a set: only if the set loses and sets another list.
LEMMA AppendOverSet ==
  ASSUME NEW d, NEW x, NEW y, NEW k \in DOMAIN x.patch \cap DOMAIN y.patch, IsPatch(x), IsPatch(y),
         ListsIn(d.fields), Beats(x, y) <=> ~Beats(y, x), x.patch[k].append, ~y.patch[k].append
  PROVE  Merged(d, x, y, k) = Merged(d, y, x, k) <=> ~ClashOn(d, x, y, k)
<1>1. k \in ListFields /\ IsSequence(x.patch[k].v) /\ IsSequence(y.patch[k].v)
  BY DEF IsPatch
<1>2. IsSequence(Had(d, k))
  <2>1. IsSequence(<<>>)
    BY DEF IsSequence
  <2> QED BY <1>1, <2>1 DEF Had, ListsIn
<1>3. (k \in Kept(y, x) <=> Beats(y, x)) /\ (k \in Kept(x, y) <=> Beats(x, y))
  BY DEF Kept
<1>4. CASE Beats(y, x)
  <2>1. Merged(d, x, y, k) = y.patch[k].v
    BY <1>3, <1>4 DEF Merged, On
  <2>2. Merged(d, y, x, k) = y.patch[k].v
    BY <1>3, <1>4 DEF Merged, On
  <2> QED BY <1>4, <2>1, <2>2 DEF ClashOn
<1>5. CASE ~Beats(y, x)
  <2>1. Merged(d, x, y, k) = Had(d, k) \o x.patch[k].v
    BY <1>3, <1>5 DEF Merged, On
  <2>2. Merged(d, y, x, k) = y.patch[k].v \o x.patch[k].v
    BY <1>3, <1>5 DEF Merged, On
  <2>3. Had(d, k) \o x.patch[k].v = y.patch[k].v \o x.patch[k].v <=> Had(d, k) = y.patch[k].v
    <3>1. Had(d, k) \o x.patch[k].v = y.patch[k].v \o x.patch[k].v => Had(d, k) = y.patch[k].v
      BY <1>1, <1>2, CancelAfter
    <3> QED BY <3>1
  <2> QED BY <1>5, <2>1, <2>2, <2>3 DEF ClashOn
<1> QED BY <1>4, <1>5

LEMMA FieldInBothOrders ==
  ASSUME NEW d, NEW x, NEW y, NEW k, IsPatch(x), IsPatch(y), ListsIn(d.fields),
         Beats(x, y) <=> ~Beats(y, x)
  PROVE  Merged(d, x, y, k) = Merged(d, y, x, k)
           <=> ~(k \in DOMAIN x.patch \cap DOMAIN y.patch
                 /\ (ClashOn(d, x, y, k) \/ ClashOn(d, y, x, k)))
<1>1. CASE k \notin DOMAIN x.patch \cap DOMAIN y.patch
  <2>1. CASE k \in DOMAIN x.patch
    <3>1. k \in Kept(x, y) /\ k \notin Kept(y, x) /\ k \notin DOMAIN y.patch
      BY <1>1, <2>1 DEF Kept
    <3> QED BY <1>1, <2>1, <3>1 DEF Merged
  <2>2. CASE k \in DOMAIN y.patch
    <3>1. k \in Kept(y, x) /\ k \notin Kept(x, y) /\ k \notin DOMAIN x.patch
      BY <1>1, <2>2 DEF Kept
    <3> QED BY <1>1, <2>2, <3>1 DEF Merged
  <2>3. CASE k \notin DOMAIN x.patch /\ k \notin DOMAIN y.patch
    <3>1. k \notin Kept(y, x) /\ k \notin Kept(x, y)
      BY <2>3 DEF Kept
    <3> QED BY <1>1, <2>3, <3>1 DEF Merged
  <2> QED BY <2>1, <2>2, <2>3
<1>2. CASE k \in DOMAIN x.patch \cap DOMAIN y.patch
  <2>1. CASE x.patch[k].append /\ ~y.patch[k].append
    <3>1. ~ClashOn(d, y, x, k)
      BY <2>1 DEF ClashOn
    <3> QED BY <1>2, <2>1, <3>1, AppendOverSet
  <2>2. CASE ~x.patch[k].append /\ y.patch[k].append
    <3>1. ~ClashOn(d, x, y, k)
      BY <2>2 DEF ClashOn
    <3>2. Merged(d, y, x, k) = Merged(d, x, y, k) <=> ~ClashOn(d, y, x, k)
      BY <1>2, <2>2, AppendOverSet
    <3> QED BY <1>2, <3>1, <3>2
  <2>3. CASE ~x.patch[k].append /\ ~y.patch[k].append
    <3>1. (k \in Kept(y, x) <=> Beats(y, x)) /\ (k \in Kept(x, y) <=> Beats(x, y))
      BY <1>2, <2>3 DEF Kept
    <3>2. ~ClashOn(d, x, y, k) /\ ~ClashOn(d, y, x, k)
      BY <2>3 DEF ClashOn
    <3>3. Merged(d, x, y, k) = Merged(d, y, x, k)
      BY <1>2, <2>3, <3>1 DEF Merged
    <3> QED BY <3>2, <3>3
  <2>4. CASE x.patch[k].append /\ y.patch[k].append
    <3> DEFINE H == Had(d, k)
               v == x.patch[k].v
               w == y.patch[k].v
    <3>1. k \in ListFields /\ IsSequence(v) /\ IsSequence(w)
      BY <1>2, <2>4 DEF IsPatch
    <3>2. IsSequence(H)
      <4>1. IsSequence(<<>>)
        BY DEF IsSequence
      <4> QED BY <3>1, <4>1 DEF Had, ListsIn
    <3>3. k \in Kept(x, y) /\ k \in Kept(y, x)
      BY <1>2, <2>4 DEF Kept
    <3>4. Merged(d, x, y, k) = (H \o v) \o w /\ Merged(d, y, x, k) = (H \o w) \o v
      BY <1>2, <2>4, <3>3 DEF Merged, On
    <3> HIDE DEF H, v, w
    <3>5. IsSequence(v \o w) /\ IsSequence(w \o v)
      BY <3>1, JoinedIsSequence
    <3>6. (H \o v) \o w = H \o (v \o w) /\ (H \o w) \o v = H \o (w \o v)
      <4>1. (H \o v) \o w = H \o (v \o w)
        BY <3>1, <3>2, JoinAssociates
      <4>2. (H \o w) \o v = H \o (w \o v)
        BY <3>1, <3>2, JoinAssociates
      <4> QED BY <4>1, <4>2
    <3>7. H \o (v \o w) = H \o (w \o v) <=> v \o w = w \o v
      <4>1. H \o (v \o w) = H \o (w \o v) => v \o w = w \o v
        BY <3>2, <3>5, CancelBefore
      <4> QED BY <4>1
    <3>8. ClashOn(d, x, y, k) <=> v \o w # w \o v
      BY <2>4 DEF ClashOn, v, w
    <3>9. ClashOn(d, y, x, k) <=> v \o w # w \o v
      BY <2>4 DEF ClashOn, v, w
    <3> QED BY <1>2, <3>4, <3>6, <3>7, <3>8, <3>9
  <2> QED BY <2>1, <2>2, <2>3, <2>4
<1> QED BY <1>1, <1>2

\* Two patches of one drawable: the orders agree unless the drawable is there and they
\* clash on a field.
LEMMA PatchesTogether ==
  ASSUME NEW c \in Nat, NEW d \in Nat, c # d, NEW x, NEW y, IsOp(x, c), IsOp(y, d),
         NEW s, IsDoc(s), \A i \in DOMAIN s : ListsIn(s[i].fields),
         Together(x, y), x.type = "patch", y.type = "patch"
  PROVE  Both(s, x, y) # Both(s, y, x)
           <=> /\ x.id \in DOMAIN s
               /\ \E k \in DOMAIN x.patch \cap DOMAIN y.patch :
                    ClashOn(s[x.id], x, y, k) \/ ClashOn(s[x.id], y, x, k)
<1> DEFINE i == x.id
           l == Both(s, x, y)
           r == Both(s, y, x)
<1>1. /\ y.id = i /\ Together(y, x) /\ IsPatch(x) /\ IsPatch(y)
      /\ x.lamport \in Nat /\ y.lamport \in Nat /\ IsEdit(x, Appended(x)) /\ IsEdit(y, Appended(y))
  BY OpFacts, TogetherTypes
<1>2. Both(s, x, y) = Both(s, y, x) <=> SameAt(l, r, i)
  BY BothSame
<1>3. CASE i \notin DOMAIN s
  <2>1. IsDoc(Apply(s, x)) /\ DOMAIN Apply(s, x) = DOMAIN s
    BY <1>1, ApplyPatchFacts
  <2>2. IsDoc(Apply(s, y)) /\ DOMAIN Apply(s, y) = DOMAIN s
    BY <1>1, ApplyPatchFacts
  <2>3. ASSUME NEW t, IsDoc(t), i \notin DOMAIN t, NEW p, NEW q, Together(p, q), p.id = i,
               p.type = "patch", q.type = "patch"
        PROVE  i \notin DOMAIN Apply(t, Transform(q, p))
    <3>1. /\ q.id = i /\ IsEdit(q, Appended(q)) /\ p.type = "patch" /\ q.type = "patch"
      BY <2>3, TogetherTypes
    <3>2. Transform(q, p) = MergePatches(q, p)
      BY <2>3, <3>1, TransformTogether, Zenon
    <3>3. CASE Kept(q, p) = {}
      <4>1. Transform(q, p) = AsNoop(q)
        BY <3>1, <3>2, <3>3, MergePatchesFacts, Zenon
      <4> QED BY <2>3, <4>1, ApplyNoop, NoopFacts
    <3>4. CASE Kept(q, p) # {}
      <4> DEFINE z == MergePatches(q, p)
      <4>1. z.type = "patch" /\ IsEdit(z, Appended(q))
        BY <3>1, <3>4, MergePatchesFacts, Zenon
      <4> HIDE DEF z
      <4>2. z.lamport \in Nat
        BY <4>1 DEF IsEdit
      <4>3. DOMAIN Apply(t, z) = DOMAIN t
        BY <2>3, <4>1, <4>2, ApplyPatchFacts
      <4> QED BY <2>3, <3>2, <4>3 DEF z
    <3> QED BY <3>3, <3>4
  <2>4. i \notin DOMAIN l /\ i \notin DOMAIN r
    BY <1>1, <1>3, <2>1, <2>2, <2>3 DEF Both
  <2> QED BY <1>2, <1>3, <2>4 DEF SameAt
<1>4. CASE i \in DOMAIN s
  <2> DEFINE o == s[i]
  <2>1. i \in DOMAIN l /\ IsOutcome(l[i], o, x, y)
    BY <1>4, PatchAfterPatch
  <2>2. i \in DOMAIN r /\ IsOutcome(r[i], o, y, x)
    BY <1>1, <1>4, PatchAfterPatch
  <2>3. ListsIn(o.fields)
    BY <1>4
  <2>4. Beats(x, y) <=> ~Beats(y, x)
    BY OneBeats
  <2> DEFINE e == l[i]
             f == r[i]
  <2>5. SameAt(l, r, i) <=> e = f
    BY <2>1, <2>2 DEF SameAt
  <2> HIDE DEF l, r, o, e, f
  <2>6. IsOutcome(e, o, x, y) /\ IsOutcome(f, o, y, x)
    BY <2>1, <2>2 DEF e, f
  <2>7. DOMAIN e.fields = DOMAIN f.fields
        /\ DOMAIN x.patch \cap DOMAIN y.patch \subseteq DOMAIN e.fields
    BY <2>6 DEF IsOutcome
  <2>8. e = f <=> \A k \in DOMAIN e.fields : e.fields[k] = f.fields[k]
    <3>1. Larger(x.lamport, y.lamport) = Larger(y.lamport, x.lamport)
      BY <1>1 DEF Larger
    <3>2. /\ IsDrawable(e) /\ IsDrawable(f) /\ e.id = f.id /\ e.createdAt = f.createdAt
          /\ e.updatedAt = f.updatedAt
      BY <2>6, <3>1 DEF IsOutcome
    <3> QED BY <2>7, <3>2, SameDrawable
  <2>9. ASSUME NEW k \in DOMAIN e.fields
        PROVE  e.fields[k] = f.fields[k]
                 <=> ~(k \in DOMAIN x.patch \cap DOMAIN y.patch
                       /\ (ClashOn(o, x, y, k) \/ ClashOn(o, y, x, k)))
    <3>1. e.fields[k] = Merged(o, x, y, k) /\ f.fields[k] = Merged(o, y, x, k)
      BY <2>6, <2>7 DEF IsOutcome
    <3> QED BY <1>1, <2>3, <2>4, <3>1, FieldInBothOrders, Zenon
  <2> QED BY <1>2, <1>4, <2>5, <2>7, <2>8, <2>9 DEF o
<1> QED BY <1>3, <1>4

-------------------------------------------------------------------------------
(* Two ops in one *)

\* { ...a, shape: d, lamport: m, clientSeq: n } and the same with a patch.
LEMMA WithShapeAndStamp ==
  ASSUME NEW a1, NEW d, NEW m, NEW n, {"shape", "lamport", "clientSeq"} \subseteq DOMAIN a1,
         NEW z, z = [a1 EXCEPT !.shape = d, !.lamport = m, !.clientSeq = n]
  PROVE  /\ DOMAIN z = DOMAIN a1 /\ z.shape = d /\ z.lamport = m
         /\ \A f \in DOMAIN a1 \ {"shape", "lamport", "clientSeq"} : z[f] = a1[f]
OBVIOUS

LEMMA WithPatchAndStamp ==
  ASSUME NEW a1, NEW p, NEW m, NEW n, {"patch", "lamport", "clientSeq"} \subseteq DOMAIN a1,
         NEW z, z = [a1 EXCEPT !.patch = p, !.lamport = m, !.clientSeq = n]
  PROVE  /\ DOMAIN z = DOMAIN a1 /\ z.patch = p /\ z.lamport = m
         /\ \A f \in DOMAIN a1 \ {"patch", "lamport", "clientSeq"} : z[f] = a1[f]
OBVIOUS

\* Two successive ops of one client on one drawable.
InTurn(x, y) == Together(x, y) /\ x.lamport < y.lamport

\* A drawable that is added and patched may as well be added as patched.
LEMMA ComposeAddPatch ==
  ASSUME NEW c, NEW x, NEW y, IsOp(x, c), IsOp(y, c), InTurn(x, y),
         NEW s, IsDoc(s), x.type = "add", y.type = "patch"
  PROVE  Apply(Apply(s, x), y) = Apply(s, Compose(x, y))
<1> DEFINE i == x.id
           z == Compose(x, y)
           p == y.patch
           sx == Apply(s, x)
           l == Apply(sx, y)
           r == Apply(s, z)
           w == ApplyPatch(x.shape, p, y.lamport)
           X == x.shape.fields
<1>1. /\ y.id = i /\ IsEdit(x, Appended(x)) /\ IsEdit(y, Appended(y)) /\ x.lamport < y.lamport
      /\ x.lamport \in Nat /\ y.lamport \in Nat /\ IsAdd(x) /\ IsPatch(y)
  BY OpFacts, TogetherTypes DEF InTurn
<1>2. z = [x EXCEPT !.shape = w, !.lamport = y.lamport, !.clientSeq = y.clientSeq]
  BY Zenon DEF Compose
<1>3. /\ IsDrawable(x.shape) /\ x.shape.id = i /\ x.shape.updatedAt \in Nat
      /\ \A k \in DOMAIN p : p[k].append => k \in DOMAIN X
  BY <1>1 DEF IsAdd, IsPatch, IsDrawable
<1>4. IsPatched(w, x.shape, p, y.lamport)
  BY <1>1, <1>3, Patches
<1>5. /\ {"type", "id", "clientId", "clientSeq", "lamport"} \subseteq DOMAIN x
      /\ "shape" \in DOMAIN x
  BY <1>1 DEF IsEdit
<1> HIDE DEF w, z
<1>6. /\ DOMAIN z = DOMAIN x /\ z.shape = w /\ z.lamport = y.lamport
      /\ \A f \in DOMAIN x \ {"shape", "lamport", "clientSeq"} : z[f] = x[f]
  BY <1>2, <1>5, WithShapeAndStamp
<1>7. z.type = "add" /\ z.id = i /\ IsEdit(z, {})
  <2>1. z.type = "add" /\ z.id = i
    BY <1>5, <1>6
  <2> QED BY <1>1, <1>3, <1>4, <1>5, <1>6, <2>1 DEF IsEdit, IsPatched
<1>8. IsDoc(sx) /\ DOMAIN sx = DOMAIN s \cup {i}
      /\ sx[i] = IF i \in DOMAIN s THEN MergeAdd(s[i], x) ELSE x.shape
  BY <1>1, ApplyAddFacts, Zenon
<1>9. /\ IsDoc(r) /\ DOMAIN r = DOMAIN s \cup {i}
      /\ r[i] = IF i \in DOMAIN s THEN MergeAdd(s[i], z) ELSE w
      /\ \A j \in DOMAIN s \ {i} : r[j] = s[j]
  <2>1. /\ IsDoc(r) /\ DOMAIN r = DOMAIN s \cup {z.id}
        /\ r[z.id] = IF z.id \in DOMAIN s THEN MergeAdd(s[z.id], z) ELSE z.shape
    <3>1. IsEdit(z, {}) /\ z.type = "add"
      BY <1>7
    <3> QED BY <3>1, ApplyAddFacts, Zenon
  <2>2. \A j \in DOMAIN s \ {z.id} : r[j] = s[j]
    BY <1>7, ApplyAddFacts, Zenon
  <2> HIDE DEF r
  <2> QED BY <1>6, <1>7, <2>1, <2>2
<1>10. \A j \in DOMAIN s \ {i} : sx[j] = s[j]
  BY <1>1, ApplyAddFacts, Zenon
<1> HIDE DEF sx, r
<1>11. /\ IsDoc(l) /\ DOMAIN l = DOMAIN sx /\ l[i] = ApplyPatch(sx[i], p, y.lamport)
       /\ \A j \in DOMAIN sx \ {i} : l[j] = sx[j]
  <2>1. /\ IsDoc(l) /\ DOMAIN l = DOMAIN sx
        /\ y.id \in DOMAIN sx => l[y.id] = ApplyPatch(sx[y.id], p, y.lamport)
    BY <1>1, <1>8, ApplyPatchFacts, Zenon
  <2>2. \A j \in DOMAIN sx \ {y.id} : l[j] = sx[j]
    BY <1>1, <1>8, ApplyPatchFacts
  <2>3. i \in DOMAIN sx
    BY <1>8
  <2> HIDE DEF l
  <2> QED BY <1>1, <2>1, <2>2, <2>3
<1>12. l[i] = r[i]
  <2>1. CASE i \notin DOMAIN s
    BY <1>8, <1>9, <1>11, <2>1 DEF w
  <2>2. CASE i \in DOMAIN s
    <3> DEFINE e == s[i]
               f == MergeAdd(e, x)
               g == ApplyPatch(f, p, y.lamport)
               h == MergeAdd(e, z)
    <3>1. l[i] = g /\ r[i] = h
      BY <1>8, <1>9, <1>11, <2>2
    <3>2. IsDrawable(e) /\ e.updatedAt \in Nat
      BY <2>2 DEF IsDoc, IsDrawable
    <3>3. IsMerged(f, e, x.shape, x.lamport)
      BY <1>1, <1>3, <3>2, Merges
    <3> HIDE DEF f
    <3>4. IsPatched(g, f, p, y.lamport)
      <4>1. IsDrawable(f)
        BY <3>3 DEF IsMerged
      <4> QED BY <1>1, <4>1, Patches
    <3>5. IsMerged(h, e, w, y.lamport)
      <4>1. IsDrawable(z.shape) /\ z.lamport \in Nat
        BY <1>1, <1>4, <1>6 DEF IsPatched
      <4>2. IsMerged(h, e, z.shape, z.lamport)
        BY <3>2, <4>1, Merges
      <4> QED BY <1>6, <4>2, Zenon
    <3> HIDE DEF e, g, h
    <3>6. g.updatedAt = h.updatedAt
      <4>1. /\ g.updatedAt = Larger(Larger(e.updatedAt, x.lamport), y.lamport)
            /\ h.updatedAt = Larger(e.updatedAt, y.lamport)
        BY <3>3, <3>4, <3>5 DEF IsPatched, IsMerged
      <4> QED BY <1>1, <3>2, <4>1 DEF Larger
    <3>7. DOMAIN g.fields = DOMAIN h.fields
      BY <1>4, <3>3, <3>4, <3>5 DEF IsPatched, IsMerged
    <3>8. ASSUME NEW k \in DOMAIN g.fields
          PROVE  g.fields[k] = h.fields[k]
      <4>1. CASE k \in DOMAIN p
        <5>1. h.fields[k] = w.fields[k]
          BY <1>4, <3>5, <3>7, <4>1 DEF IsPatched, IsMerged
        <5>2. CASE ~p[k].append
          <6>1. g.fields[k] = p[k].v
            BY <3>4, <4>1, <5>2 DEF IsPatched
          <6>2. w.fields[k] = p[k].v
            BY <1>4, <4>1, <5>2 DEF IsPatched
          <6> QED BY <5>1, <6>1, <6>2
        <5>3. CASE p[k].append
          <6>1. k \in DOMAIN X /\ k \in DOMAIN f.fields /\ f.fields[k] = X[k]
            BY <1>3, <3>3, <4>1, <5>3 DEF IsMerged
          <6>2. g.fields[k] = X[k] \o p[k].v
            BY <3>4, <4>1, <5>3, <6>1 DEF IsPatched
          <6>3. w.fields[k] = X[k] \o p[k].v
            BY <1>4, <4>1, <5>3, <6>1 DEF IsPatched
          <6> QED BY <5>1, <6>2, <6>3
        <5> QED BY <5>2, <5>3
      <4>2. CASE k \notin DOMAIN p /\ k \in DOMAIN X
        <5>1. g.fields[k] = X[k]
          BY <3>3, <3>4, <4>2 DEF IsPatched, IsMerged
        <5>2. k \in DOMAIN w.fields /\ w.fields[k] = X[k]
          BY <1>4, <4>2 DEF IsPatched
        <5> QED BY <3>5, <3>7, <5>1, <5>2 DEF IsMerged
      <4>3. CASE k \notin DOMAIN p /\ k \notin DOMAIN X
        <5>1. k \in DOMAIN e.fields /\ g.fields[k] = e.fields[k]
          BY <3>3, <3>4, <4>3 DEF IsPatched, IsMerged
        <5>2. k \notin DOMAIN w.fields
          BY <1>4, <4>3 DEF IsPatched
        <5> QED BY <3>5, <3>7, <5>1, <5>2 DEF IsMerged
      <4> QED BY <4>1, <4>2, <4>3
    <3>9. g = h
      <4>1. g.id = h.id /\ g.createdAt = h.createdAt
        BY <1>4, <3>3, <3>4, <3>5 DEF IsPatched, IsMerged
      <4> QED BY <3>4, <3>5, <3>6, <3>7, <3>8, <4>1, SameDrawable DEF IsPatched, IsMerged
    <3> QED BY <3>1, <3>9
  <2> QED BY <2>1, <2>2
<1> HIDE DEF l
<1>13. DOMAIN l = DOMAIN r /\ \A j \in DOMAIN l : l[j] = r[j]
  BY <1>8, <1>9, <1>10, <1>11, <1>12
<1>14. l = r
  BY <1>9, <1>11, <1>13, SameDoc
<1> QED BY <1>14 DEF l, r, sx, z

\* What the joined patch writes to field k, and what the two write one after the other.
Joined(d, x, y, k) ==
  IF k \in DOMAIN y.patch
    THEN IF k \in DOMAIN x.patch /\ y.patch[k].append /\ x.patch[k].append
           THEN Had(d, k) \o (x.patch[k].v \o y.patch[k].v)
           ELSE On(d, y.patch[k], k)
    ELSE IF k \in DOMAIN x.patch THEN On(d, x.patch[k], k) ELSE d.fields[k]

InTurns(d, x, y, k) ==
  IF k \in DOMAIN y.patch
    THEN IF k \in DOMAIN x.patch /\ y.patch[k].append
           THEN On(d, x.patch[k], k) \o y.patch[k].v
           ELSE On(d, y.patch[k], k)
    ELSE IF k \in DOMAIN x.patch THEN On(d, x.patch[k], k) ELSE d.fields[k]

\* What JoinPatches returns: appends are joined, and otherwise the later write wins.
IsJoined(j, p, q) ==
  /\ DOMAIN j = DOMAIN p \cup DOMAIN q
  /\ \A k \in DOMAIN p \ DOMAIN q : j[k] = p[k]
  /\ \A k \in DOMAIN q :
       j[k] = IF k \in DOMAIN p /\ q[k].append /\ p[k].append
                THEN [append |-> TRUE, v |-> p[k].v \o q[k].v]
                ELSE q[k]

LEMMA JoinPatchesFacts ==
  ASSUME NEW p, NEW q
  PROVE  IsJoined(JoinPatches(p, q), p, q)
BY DEF JoinPatches, Override, IsJoined

\* The joined patch misses the effect of the two in a field that the first sets to
\* another list and the second appends to.
LEMMA FieldInOnePatch ==
  ASSUME NEW d, NEW x, NEW y, NEW k, IsPatch(x), IsPatch(y), ListsIn(d.fields)
  PROVE  InTurns(d, x, y, k) = Joined(d, x, y, k)
           <=> ~(/\ k \in DOMAIN x.patch \cap DOMAIN y.patch
                 /\ ~x.patch[k].append /\ y.patch[k].append /\ Had(d, k) # x.patch[k].v)
<1>1. CASE ~(k \in DOMAIN x.patch \cap DOMAIN y.patch /\ y.patch[k].append)
  BY <1>1 DEF InTurns, Joined
<1>2. CASE k \in DOMAIN x.patch \cap DOMAIN y.patch /\ y.patch[k].append
  <2> DEFINE H == Had(d, k)
             v == x.patch[k].v
             w == y.patch[k].v
  <2>1. k \in ListFields /\ IsSequence(v) /\ IsSequence(w)
    BY <1>2 DEF IsPatch
  <2>2. IsSequence(H)
    <3>1. IsSequence(<<>>)
      BY DEF IsSequence
    <3> QED BY <2>1, <3>1 DEF Had, ListsIn
  <2>3. CASE x.patch[k].append
    <3>1. InTurns(d, x, y, k) = (H \o v) \o w /\ Joined(d, x, y, k) = H \o (v \o w)
      BY <1>2, <2>3 DEF InTurns, Joined, On
    <3> HIDE DEF H, v, w
    <3>2. (H \o v) \o w = H \o (v \o w)
      BY <2>1, <2>2, JoinAssociates
    <3> QED BY <2>3, <3>1, <3>2
  <2>4. CASE ~x.patch[k].append
    <3>1. InTurns(d, x, y, k) = v \o w /\ Joined(d, x, y, k) = H \o w
      BY <1>2, <2>4 DEF InTurns, Joined, On
    <3>2. Had(d, k) # x.patch[k].v <=> H # v
      OBVIOUS
    <3> HIDE DEF H, v, w
    <3>3. H \o w = v \o w => H = v
      BY <2>1, <2>2, CancelAfter
    <3> QED BY <1>2, <2>4, <3>1, <3>2, <3>3
  <2> QED BY <2>3, <2>4
<1> QED BY <1>1, <1>2

LEMMA ComposePatches ==
  ASSUME NEW c, NEW x, NEW y, IsOp(x, c), IsOp(y, c), InTurn(x, y),
         NEW s, IsDoc(s), \A i \in DOMAIN s : ListsIn(s[i].fields),
         x.type = "patch", y.type = "patch"
  PROVE  Apply(Apply(s, x), y) # Apply(s, Compose(x, y))
           <=> /\ x.id \in DOMAIN s
               /\ \E k \in DOMAIN x.patch \cap DOMAIN y.patch :
                    /\ ~x.patch[k].append /\ y.patch[k].append
                    /\ Had(s[x.id], k) # x.patch[k].v
<1> DEFINE i == x.id
           z == Compose(x, y)
           q == JoinPatches(x.patch, y.patch)
           sx == Apply(s, x)
           l == Apply(sx, y)
           r == Apply(s, z)
<1>1. /\ y.id = i /\ IsEdit(x, Appended(x)) /\ IsEdit(y, Appended(y)) /\ x.lamport < y.lamport
      /\ x.lamport \in Nat /\ y.lamport \in Nat /\ IsPatch(x) /\ IsPatch(y)
  BY OpFacts, TogetherTypes DEF InTurn
<1>2. z = [x EXCEPT !.patch = q, !.lamport = y.lamport, !.clientSeq = y.clientSeq]
  BY Zenon DEF Compose
<1>3. {"type", "id", "patch", "lamport", "clientSeq"} \subseteq DOMAIN x
  BY <1>1 DEF IsEdit
<1> HIDE DEF q, z
<1>4. /\ DOMAIN z = DOMAIN x /\ z.patch = q /\ z.lamport = y.lamport
      /\ \A f \in DOMAIN x \ {"patch", "lamport", "clientSeq"} : z[f] = x[f]
  BY <1>2, <1>3, WithPatchAndStamp
<1>5. z.type = "patch" /\ z.id = i /\ z.lamport \in Nat
  BY <1>1, <1>3, <1>4
<1>6. IsDoc(sx) /\ DOMAIN sx = DOMAIN s
  BY <1>1, ApplyPatchFacts, Zenon
<1>7. \A j \in DOMAIN s \ {i} : sx[j] = s[j]
  BY <1>1, ApplyPatchFacts
<1>8. i \in DOMAIN s => sx[i] = ApplyPatch(s[i], x.patch, x.lamport)
  BY <1>1, ApplyPatchFacts, Zenon
<1>9. IsDoc(r) /\ DOMAIN r = DOMAIN s
  BY <1>5, ApplyPatchFacts, Zenon
<1>10. \A j \in DOMAIN s \ {i} : r[j] = s[j]
  BY <1>5, ApplyPatchFacts
<1>11. i \in DOMAIN s => r[i] = ApplyPatch(s[i], q, y.lamport)
  <2>1. z.id \in DOMAIN s => r[z.id] = ApplyPatch(s[z.id], z.patch, z.lamport)
    BY <1>5, ApplyPatchFacts, Zenon
  <2> HIDE DEF r
  <2> QED BY <1>4, <1>5, <2>1
<1> HIDE DEF sx, r
<1>12. IsDoc(l) /\ DOMAIN l = DOMAIN sx
  BY <1>1, <1>6, ApplyPatchFacts, Zenon
<1>13. \A j \in DOMAIN sx \ {i} : l[j] = sx[j]
  BY <1>1, <1>6, ApplyPatchFacts
<1>14. i \in DOMAIN sx => l[i] = ApplyPatch(sx[i], y.patch, y.lamport)
  BY <1>1, <1>6, ApplyPatchFacts
<1> HIDE DEF l
<1>15. l = r <=> (i \in DOMAIN s => l[i] = r[i])
  <2>1. ASSUME i \in DOMAIN s => l[i] = r[i]
        PROVE  l = r
    <3>1. DOMAIN l = DOMAIN r /\ \A j \in DOMAIN l : l[j] = r[j]
      BY <1>6, <1>7, <1>9, <1>10, <1>12, <1>13, <2>1
    <3> QED BY <1>9, <1>12, <3>1, SameDoc
  <2> QED BY <2>1
<1>16. l = r <=> Apply(Apply(s, x), y) = Apply(s, Compose(x, y))
  BY DEF l, r, sx, z
<1>17. CASE i \notin DOMAIN s
  BY <1>15, <1>16, <1>17
<1>18. CASE i \in DOMAIN s
  <2> DEFINE d == s[i]
             e == ApplyPatch(d, x.patch, x.lamport)
             f == ApplyPatch(e, y.patch, y.lamport)
             g == ApplyPatch(d, q, y.lamport)
  <2>1. l[i] = f /\ r[i] = g
    BY <1>6, <1>8, <1>11, <1>14, <1>18
  <2>2. IsDrawable(d) /\ d.updatedAt \in Nat /\ ListsIn(d.fields)
    BY <1>18 DEF IsDoc, IsDrawable
  <2>3. IsPatched(e, d, x.patch, x.lamport)
    BY <1>1, <2>2, Patches
  <2> HIDE DEF e
  <2>4. IsPatched(f, e, y.patch, y.lamport)
    <3>1. IsDrawable(e)
      BY <2>3 DEF IsPatched
    <3> QED BY <1>1, <3>1, Patches
  <2>5. IsPatched(g, d, q, y.lamport)
    BY <1>1, <2>2, Patches
  <2>6. /\ DOMAIN q = DOMAIN x.patch \cup DOMAIN y.patch
        /\ \A k \in DOMAIN x.patch \ DOMAIN y.patch : q[k] = x.patch[k]
        /\ \A k \in DOMAIN y.patch :
             q[k] = IF k \in DOMAIN x.patch /\ y.patch[k].append /\ x.patch[k].append
                      THEN [append |-> TRUE, v |-> x.patch[k].v \o y.patch[k].v]
                      ELSE y.patch[k]
    <3>1. IsJoined(q, x.patch, y.patch)
      BY JoinPatchesFacts, Zenon DEF q
    <3> QED BY <3>1 DEF IsJoined
  <2> HIDE DEF d, f, g
  <2>7. g.updatedAt = f.updatedAt
    <3>1. /\ f.updatedAt = Larger(Larger(d.updatedAt, x.lamport), y.lamport)
          /\ g.updatedAt = Larger(d.updatedAt, y.lamport)
      BY <2>3, <2>4, <2>5 DEF IsPatched
    <3> QED BY <1>1, <2>2, <3>1 DEF Larger
  <2>8. DOMAIN f.fields = DOMAIN d.fields \cup DOMAIN x.patch \cup DOMAIN y.patch
        /\ DOMAIN g.fields = DOMAIN f.fields
    BY <2>3, <2>4, <2>5, <2>6 DEF IsPatched
  <2>9. ASSUME NEW k \in DOMAIN f.fields PROVE f.fields[k] = InTurns(d, x, y, k)
    <3>1. CASE k \notin DOMAIN y.patch
      <4>1. k \in DOMAIN e.fields /\ f.fields[k] = e.fields[k]
        BY <2>4, <3>1 DEF IsPatched
      <4>2. e.fields[k] = InTurns(d, x, y, k)
        BY <2>3, <3>1, <4>1 DEF IsPatched, InTurns, On, Had
      <4> QED BY <4>1, <4>2
    <3>2. CASE k \in DOMAIN y.patch /\ ~y.patch[k].append
      BY <2>4, <3>2 DEF IsPatched, InTurns, On
    <3>3. CASE k \in DOMAIN y.patch /\ y.patch[k].append /\ k \in DOMAIN x.patch
      <4>1. k \in DOMAIN e.fields /\ e.fields[k] = On(d, x.patch[k], k)
        BY <2>3, <3>3 DEF IsPatched, On, Had
      <4>2. f.fields[k] = e.fields[k] \o y.patch[k].v
        BY <2>4, <3>3, <4>1 DEF IsPatched
      <4> QED BY <3>3, <4>1, <4>2 DEF InTurns
    <3>4. CASE k \in DOMAIN y.patch /\ y.patch[k].append /\ k \notin DOMAIN x.patch
      <4>1. (IF k \in DOMAIN e.fields THEN e.fields[k] ELSE <<>>) = Had(d, k)
        BY <2>3, <3>4 DEF IsPatched, Had
      <4>2. f.fields[k] = Had(d, k) \o y.patch[k].v
        BY <2>4, <3>4, <4>1 DEF IsPatched
      <4> QED BY <3>4, <4>2 DEF InTurns, On
    <3> QED BY <3>1, <3>2, <3>3, <3>4
  <2>10. ASSUME NEW k \in DOMAIN f.fields PROVE g.fields[k] = Joined(d, x, y, k)
    <3>1. CASE k \notin DOMAIN q
      BY <2>5, <2>6, <2>8, <3>1 DEF IsPatched, Joined
    <3>2. CASE k \in DOMAIN q
      <4>1. g.fields[k] = On(d, q[k], k)
        BY <2>5, <3>2 DEF IsPatched, On, Had
      <4>2. CASE k \in DOMAIN x.patch /\ k \in DOMAIN y.patch /\ y.patch[k].append /\ x.patch[k].append
        <5>1. q[k].append /\ q[k].v = x.patch[k].v \o y.patch[k].v
          <6>1. q[k] = [append |-> TRUE, v |-> x.patch[k].v \o y.patch[k].v]
            BY <2>6, <4>2, Zenon
          <6>2. ASSUME NEW e0, NEW v0, e0 = [append |-> TRUE, v |-> v0]
                PROVE  e0.append /\ e0.v = v0
            BY <6>2
          <6> QED BY <6>1, <6>2, Zenon
        <5> QED BY <4>1, <4>2, <5>1 DEF Joined, On
      <4>3. CASE k \in DOMAIN y.patch /\ ~(k \in DOMAIN x.patch /\ y.patch[k].append /\ x.patch[k].append)
        <5>1. q[k] = y.patch[k]
          BY <2>6, <4>3
        <5> QED BY <4>1, <4>3, <5>1 DEF Joined
      <4>4. CASE k \notin DOMAIN y.patch
        <5>1. k \in DOMAIN x.patch /\ q[k] = x.patch[k]
          BY <2>6, <3>2, <4>4
        <5> QED BY <4>1, <4>4, <5>1 DEF Joined
      <4> QED BY <4>2, <4>3, <4>4
    <3> QED BY <3>1, <3>2
  <2>11. f = g <=> \A k \in DOMAIN f.fields : f.fields[k] = g.fields[k]
    <3>1. IsDrawable(f) /\ IsDrawable(g) /\ f.id = g.id /\ f.createdAt = g.createdAt
      BY <2>3, <2>4, <2>5 DEF IsPatched
    <3> QED BY <2>7, <2>8, <3>1, SameDrawable
  <2>12. ASSUME NEW k \in DOMAIN f.fields
         PROVE  f.fields[k] = g.fields[k]
                  <=> ~(/\ k \in DOMAIN x.patch \cap DOMAIN y.patch
                        /\ ~x.patch[k].append /\ y.patch[k].append /\ Had(d, k) # x.patch[k].v)
    <3>1. f.fields[k] = InTurns(d, x, y, k) /\ g.fields[k] = Joined(d, x, y, k)
      BY <2>9, <2>10, Zenon
    <3>2. IsPatch(x) /\ IsPatch(y) /\ ListsIn(d.fields)
      BY <1>1, <2>2
    <3>3. InTurns(d, x, y, k) = Joined(d, x, y, k)
            <=> ~(/\ k \in DOMAIN x.patch \cap DOMAIN y.patch
                  /\ ~x.patch[k].append /\ y.patch[k].append /\ Had(d, k) # x.patch[k].v)
      BY <3>2, FieldInOnePatch
    <3> QED BY <3>1, <3>3, Zenon
  <2> QED BY <1>15, <1>16, <1>18, <2>1, <2>8, <2>11, <2>12 DEF d
<1> QED BY <1>17, <1>18

\* A remove after a patch does as well alone; a remove after an add is dropped with it,
\* which is as good if the drawable was not there before.
LEMMA ComposeRemoves ==
  ASSUME NEW c, NEW x, NEW y, IsOp(x, c), IsOp(y, c), InTurn(x, y),
         NEW s, IsDoc(s), x.type \in {"add", "patch"}, y.type = "remove"
  PROVE  Apply(Apply(s, x), y) # Apply(s, Compose(x, y)) <=> x.type = "add" /\ x.id \in DOMAIN s
<1> DEFINE i == x.id
           sx == Apply(s, x)
           l == Apply(sx, y)
<1>1. y.id = i /\ IsEdit(x, Appended(x)) /\ IsEdit(y, Appended(y))
  BY TogetherTypes DEF InTurn
<1>2. IsDoc(sx) /\ \A j : j # i => SameAt(sx, s, j)
  BY <1>1, ApplyElsewhere
<1>3. IsDoc(l) /\ DOMAIN l = DOMAIN sx \ {i} /\ \A j \in DOMAIN sx \ {i} : l[j] = sx[j]
  <2>1. IsDoc(l) /\ DOMAIN l = DOMAIN sx \ {y.id} /\ \A j \in DOMAIN sx \ {y.id} : l[j] = sx[j]
    BY <1>2, ApplyRemoveFacts
  <2> QED BY <1>1, <2>1
<1> HIDE DEF sx
<1>4. DOMAIN l = DOMAIN s \ {i} /\ \A j \in DOMAIN s \ {i} : l[j] = s[j]
  <2>1. \A j : j # i => (j \in DOMAIN sx <=> j \in DOMAIN s) /\ (j \in DOMAIN sx => sx[j] = s[j])
    BY <1>2 DEF SameAt
  <2> HIDE DEF l
  <2> QED BY <1>3, <2>1
<1> HIDE DEF l
<1>5. CASE x.type = "add"
  <2>1. Compose(x, y) = AsNoop(x)
    BY <1>5, Zenon DEF Compose
  <2>2. Apply(s, Compose(x, y)) = s
    BY <2>1, ApplyNoop, NoopFacts
  <2>3. i \in DOMAIN s => l # s
    BY <1>4
  <2>4. i \notin DOMAIN s => l = s
    BY <1>3, <1>4, SameDoc
  <2> QED BY <1>5, <2>2, <2>3, <2>4 DEF l, sx
<1>6. CASE x.type = "patch"
  <2>1. Compose(x, y) = y
    BY <1>6, Zenon DEF Compose
  <2>2. IsDoc(Apply(s, y)) /\ DOMAIN Apply(s, y) = DOMAIN s \ {i}
        /\ \A j \in DOMAIN s \ {i} : Apply(s, y)[j] = s[j]
    BY <1>1, ApplyRemoveFacts
  <2>3. l = Apply(s, y)
    BY <1>3, <1>4, <2>2, SameDoc
  <2> QED BY <1>6, <2>1, <2>3 DEF l, sx
<1> QED BY <1>5, <1>6

-------------------------------------------------------------------------------
(* The two replicas *)

\* How far a replica of the document s is that applies p and then q, or p alone.
Stage(s, r, p, q) ==
  \/ r = [doc |-> s, todo |-> <<p, q>>]
  \/ r = [doc |-> Apply(s, p), todo |-> <<q>>]
  \/ r = [doc |-> Apply(Apply(s, p), q), todo |-> <<>>]
StageOne(s, r, p) ==
  \/ r = [doc |-> s, todo |-> <<p>>]
  \/ r = [doc |-> Apply(s, p), todo |-> <<>>]

ConcurrentPair ==
  /\ relation = "concurrent"
  /\ \E c, d \in DOMAIN OpsOf : c # d /\ a \in OpsOf[c] /\ b \in OpsOf[d]
BatchedPair ==
  /\ relation = "batched"
  /\ \E c \in DOMAIN OpsOf : a \in OpsOf[c] /\ b \in OpsOf[c]
  /\ a.lamport < b.lamport /\ Composable(a, b)

\* The ops stay what they were offered as, and each replica is on its way.
IInv ==
  /\ base \in Bases
  /\ \/ /\ ConcurrentPair
        /\ Stage(base, left, a, Transform(b, a))
        /\ Stage(base, right, b, Transform(a, b))
     \/ /\ BatchedPair
        /\ Stage(base, left, a, b)
        /\ StageOne(base, right, Compose(a, b))

LEMMA StageStep ==
  ASSUME NEW s, NEW r, NEW p, NEW q, Stage(s, r, p, q), r.todo # <<>>
  PROVE  Stage(s, ApplyNext(r), p, q)
<1>1. CASE r = [doc |-> s, todo |-> <<p, q>>]
  <2>1. r.doc = s /\ r.todo = <<p, q>>
    BY <1>1
  <2>2. Head(r.todo) = p /\ Tail(r.todo) = <<q>>
    BY <2>1
  <2>3. ApplyNext(r) = [doc |-> Apply(s, p), todo |-> <<q>>]
    BY <2>1, <2>2, Zenon DEF ApplyNext
  <2> QED BY <2>3, Zenon DEF Stage
<1>2. CASE r = [doc |-> Apply(s, p), todo |-> <<q>>]
  <2>1. r.doc = Apply(s, p) /\ r.todo = <<q>>
    BY <1>2, Zenon
  <2>2. Head(r.todo) = q /\ Tail(r.todo) = <<>>
    BY <2>1
  <2>3. ApplyNext(r) = [doc |-> Apply(Apply(s, p), q), todo |-> <<>>]
    BY <2>1, <2>2, Zenon DEF ApplyNext
  <2> QED BY <2>3, Zenon DEF Stage
<1>3. CASE r = [doc |-> Apply(Apply(s, p), q), todo |-> <<>>]
  BY <1>3, Zenon
<1> QED BY <1>1, <1>2, <1>3, Zenon DEF Stage

LEMMA StageOneStep ==
  ASSUME NEW s, NEW r, NEW p, StageOne(s, r, p), r.todo # <<>>
  PROVE  StageOne(s, ApplyNext(r), p)
<1>1. CASE r = [doc |-> s, todo |-> <<p>>]
  <2>1. r.doc = s /\ r.todo = <<p>>
    BY <1>1
  <2>2. Head(r.todo) = p /\ Tail(r.todo) = <<>>
    BY <2>1
  <2>3. ApplyNext(r) = [doc |-> Apply(s, p), todo |-> <<>>]
    BY <2>1, <2>2, Zenon DEF ApplyNext
  <2> QED BY <2>3, Zenon DEF StageOne
<1>2. CASE r = [doc |-> Apply(s, p), todo |-> <<>>]
  BY <1>2, Zenon
<1> QED BY <1>1, <1>2, Zenon DEF StageOne

LEMMA InitIInv == Init => IInv
<1> SUFFICES ASSUME Init PROVE IInv
  OBVIOUS
<1>1. base \in Bases
  BY DEF Init
<1>2. CASE Concurrent
  <2>1. PICK c \in DOMAIN OpsOf : a \in OpsOf[c]
    BY <1>2 DEF Concurrent
  <2>2. a.clientId = c
    BY <2>1, OpsAssumption, OpFacts
  <2>3. PICK d \in DOMAIN OpsOf \ {a.clientId} : b \in OpsOf[d]
    BY <1>2 DEF Concurrent
  <2>4. ConcurrentPair
    BY <1>2, <2>1, <2>2, <2>3 DEF Concurrent, ConcurrentPair
  <2>5. Stage(base, left, a, Transform(b, a)) /\ Stage(base, right, b, Transform(a, b))
    BY <1>2, Zenon DEF Concurrent, Replica, Stage
  <2> QED BY <1>1, <2>4, <2>5 DEF IInv
<1>3. CASE Batched
  <2>1. PICK c \in DOMAIN OpsOf : a \in OpsOf[c]
    BY <1>3 DEF Batched
  <2>2. a.clientId = c /\ a.lamport \in Nat
    BY <2>1, OpsAssumption, OpFacts
  <2>3. b \in OpsOf[c]
    BY <1>3, <2>2, Zenon DEF Batched
  <2>4. b.lamport \in Nat
    BY <2>1, <2>3, OpsAssumption, OpFacts
  <2>5. BatchedPair
    <3>1. b.lamport > a.lamport /\ relation = "batched" /\ Composable(a, b)
      BY <1>3, Zenon DEF Batched
    <3> QED BY <2>1, <2>2, <2>3, <2>4, <3>1 DEF BatchedPair
  <2>6. Stage(base, left, a, b) /\ StageOne(base, right, Compose(a, b))
    BY <1>3, Zenon DEF Batched, Replica, Stage, StageOne
  <2> QED BY <1>1, <2>5, <2>6 DEF IInv
<1> QED BY <1>2, <1>3 DEF Init

LEMMA NextIInv == IInv /\ [Next]_vars => IInv'
<1> SUFFICES ASSUME IInv, [Next]_vars PROVE IInv'
  OBVIOUS
<1>1. UNCHANGED <<base, a, b, relation>>
  BY DEF Next, ApplyLeft, ApplyRight, vars
<1>2. base' \in Bases
  BY <1>1 DEF IInv
<1>3. \/ left' = left
      \/ left.todo # <<>> /\ left' = ApplyNext(left)
  BY DEF Next, ApplyLeft, ApplyRight, vars
<1>4. \/ right' = right
      \/ right.todo # <<>> /\ right' = ApplyNext(right)
  BY DEF Next, ApplyLeft, ApplyRight, vars
<1>5. ASSUME NEW p, NEW q, Stage(base, left, p, q)
      PROVE  Stage(base, left', p, q)
  BY <1>3, <1>5, StageStep, Zenon
<1>6. ASSUME NEW p, NEW q, Stage(base, right, p, q)
      PROVE  Stage(base, right', p, q)
  BY <1>4, <1>6, StageStep, Zenon
<1>7. ASSUME NEW p, StageOne(base, right, p)
      PROVE  StageOne(base, right', p)
  BY <1>4, <1>7, StageOneStep, Zenon
<1>8. CASE /\ ConcurrentPair
           /\ Stage(base, left, a, Transform(b, a))
           /\ Stage(base, right, b, Transform(a, b))
  <2>1. ConcurrentPair'
    BY <1>1, <1>8 DEF ConcurrentPair
  <2>2. Stage(base', left', a', Transform(b', a')) /\ Stage(base', right', b', Transform(a', b'))
    BY <1>1, <1>5, <1>6, <1>8, Zenon
  <2> QED BY <1>2, <2>1, <2>2, Zenon DEF IInv
<1>9. CASE /\ BatchedPair
           /\ Stage(base, left, a, b)
           /\ StageOne(base, right, Compose(a, b))
  <2>1. BatchedPair'
    BY <1>1, <1>9, Zenon DEF BatchedPair
  <2>2. Stage(base', left', a', b') /\ StageOne(base', right', Compose(a', b'))
    BY <1>1, <1>5, <1>7, <1>9, Zenon
  <2> QED BY <1>2, <2>1, <2>2, Zenon DEF IInv
<1> QED BY <1>8, <1>9 DEF IInv

\* Each replica applies what it was sent, in order, and nothing else (apply,
\* ot.ts:60-134, once for each op of its list).
THEOREM Invariance == Spec => []IInv
<1> QED BY InitIInv, NextIInv, PTL DEF Spec

\* Where the replicas end.
LEMMA StageEnd ==
  ASSUME NEW s, NEW r, NEW p, NEW q, Stage(s, r, p, q), r.todo = <<>>
  PROVE  r.doc = Apply(Apply(s, p), q)
<1>1. r # [doc |-> s, todo |-> <<p, q>>]
  <2> SUFFICES ASSUME r = [doc |-> s, todo |-> <<p, q>>] PROVE FALSE
    OBVIOUS
  <2>1. r.todo = <<p, q>>
    OBVIOUS
  <2> QED BY <2>1
<1>2. r # [doc |-> Apply(s, p), todo |-> <<q>>]
  <2> SUFFICES ASSUME r = [doc |-> Apply(s, p), todo |-> <<q>>] PROVE FALSE
    OBVIOUS
  <2>1. r.todo = <<q>>
    BY Zenon
  <2> QED BY <2>1
<1>3. r = [doc |-> Apply(Apply(s, p), q), todo |-> <<>>]
  BY <1>1, <1>2, Zenon DEF Stage
<1> QED BY <1>3, Zenon

LEMMA StageOneEnd ==
  ASSUME NEW s, NEW r, NEW p, StageOne(s, r, p), r.todo = <<>>
  PROVE  r.doc = Apply(s, p)
<1>1. r # [doc |-> s, todo |-> <<p>>]
  <2> SUFFICES ASSUME r = [doc |-> s, todo |-> <<p>>] PROVE FALSE
    OBVIOUS
  <2>1. r.todo = <<p>>
    OBVIOUS
  <2> QED BY <2>1
<1>2. r = [doc |-> Apply(s, p), todo |-> <<>>]
  BY <1>1, Zenon DEF StageOne
<1> QED BY <1>2, Zenon

\* The state after both orders of delivery, and after both ways of sending a batch.
Delivered(c, d) ==
  /\ c \in Nat /\ d \in Nat /\ c # d /\ IsOp(a, c) /\ IsOp(b, d)
  /\ IsDoc(base) /\ \A i \in DOMAIN base : ListsIn(base[i].fields)
  /\ left.doc = Both(base, a, b) /\ right.doc = Both(base, b, a)

LEMMA ConcurrentDone ==
  ASSUME IInv, relation = "concurrent", Done
  PROVE  \E c, d : Delivered(c, d)
<1>1. /\ base \in Bases /\ ConcurrentPair
      /\ Stage(base, left, a, Transform(b, a)) /\ Stage(base, right, b, Transform(a, b))
  BY DEF IInv, BatchedPair
<1>2. PICK c \in DOMAIN OpsOf, d \in DOMAIN OpsOf : c # d /\ a \in OpsOf[c] /\ b \in OpsOf[d]
  BY <1>1 DEF ConcurrentPair
<1>3. c \in Nat /\ d \in Nat /\ IsOp(a, c) /\ IsOp(b, d)
  BY <1>2, OpsAssumption
<1>4. IsDoc(base) /\ \A i \in DOMAIN base : ListsIn(base[i].fields)
  BY <1>1, BasesAssumption
<1>5. left.doc = Both(base, a, b)
  <2>1. left.todo = <<>>
    BY DEF Done
  <2>2. left.doc = Apply(Apply(base, a), Transform(b, a))
    BY <1>1, <2>1, StageEnd
  <2> QED BY <2>2 DEF Both
<1>6. right.doc = Both(base, b, a)
  <2>1. right.todo = <<>>
    BY DEF Done
  <2>2. right.doc = Apply(Apply(base, b), Transform(a, b))
    BY <1>1, <2>1, StageEnd
  <2> QED BY <2>2 DEF Both
<1> QED BY <1>2, <1>3, <1>4, <1>5, <1>6 DEF Delivered

Clashes ==
  \/ CreateClash
  \/ StampClash(a, b) \/ StampClash(b, a)
  \/ AppendClash(a, b) \/ AppendClash(b, a)

LEMMA ClashNeedsTarget == Clashes => SameTarget
BY DEF Clashes, CreateClash, StampClash, AppendClash, BothPatch

LEMMA TargetIsTogether ==
  ASSUME NEW c, NEW d, IsOp(a, c), IsOp(b, d), SameTarget
  PROVE  Together(a, b) /\ Together(b, a)
BY OpFacts DEF SameTarget, Together

\* The body of AppendClash, at a drawable that is there.
LEMMA AppendClashes ==
  ASSUME SameTarget, a.type = "patch", b.type = "patch"
  PROVE  AppendClash(a, b) \/ AppendClash(b, a)
           <=> /\ a.id \in DOMAIN base
               /\ \E k \in DOMAIN a.patch \cap DOMAIN b.patch :
                    ClashOn(base[a.id], a, b, k) \/ ClashOn(base[a.id], b, a, k)
<1>1. AppendClash(a, b)
        <=> /\ a.id \in DOMAIN base
            /\ \E k \in DOMAIN a.patch \cap DOMAIN b.patch : ClashOn(base[a.id], a, b, k)
  BY DEF AppendClash, BothPatch, ClashOn, Before, Had
<1>2. AppendClash(b, a)
        <=> /\ a.id \in DOMAIN base
            /\ \E k \in DOMAIN b.patch \cap DOMAIN a.patch : ClashOn(base[a.id], b, a, k)
  BY DEF AppendClash, BothPatch, ClashOn, Before, Had
<1> QED BY <1>1, <1>2

LEMMA ConcurrentClashes ==
  ASSUME NEW c, NEW d, Delivered(c, d)
  PROVE  left.doc # right.doc <=> Clashes
<1>1. /\ c \in Nat /\ d \in Nat /\ c # d /\ IsOp(a, c) /\ IsOp(b, d)
      /\ IsDoc(base) /\ \A i \in DOMAIN base : ListsIn(base[i].fields)
  BY DEF Delivered
<1>2. left.doc = Both(base, a, b) /\ right.doc = Both(base, b, a)
  BY DEF Delivered
<1>3. CASE ~SameTarget
  <2>1. a.type = "noop" \/ b.type = "noop" \/ a.id # b.id
    BY <1>3 DEF SameTarget
  <2>2. Both(base, a, b) = Both(base, b, a)
    BY <1>1, <2>1, BothApart
  <2> QED BY <1>2, <1>3, <2>2, ClashNeedsTarget
<1>4. CASE SameTarget
  <2>1. Together(a, b) /\ Together(b, a) /\ a.id = b.id
    BY <1>1, <1>4, TargetIsTogether DEF SameTarget
  <2>2. a.type \in {"add", "remove", "patch"} /\ b.type \in {"add", "remove", "patch"}
    BY <2>1, TogetherTypes
  <2>3. a.lamport \in Nat /\ b.lamport \in Nat
    BY <1>1, OpFacts
  <2>4. CASE a.type = "remove" \/ b.type = "remove"
    <3>1. a.id \notin DOMAIN Both(base, a, b)
      BY <1>1, <2>1, <2>4, RemovedInBoth
    <3>2. b.id \notin DOMAIN Both(base, b, a)
      BY <1>1, <2>1, <2>4, RemovedInBoth
    <3>3. SameAt(Both(base, a, b), Both(base, b, a), a.id)
      BY <2>1, <3>1, <3>2 DEF SameAt
    <3>4. Both(base, a, b) = Both(base, b, a)
      BY <1>1, <2>1, <3>3, BothSame
    <3>5. ~Clashes
      BY <2>4 DEF Clashes, CreateClash, StampClash, AppendClash, BothPatch
    <3> QED BY <1>2, <3>4, <3>5
  <2>5. CASE a.type = "add" /\ b.type = "add"
    <3>1. Both(base, a, b) = Both(base, b, a) <=> a.id \in DOMAIN base
      BY <1>1, <2>1, <2>5, AddsTogether
    <3>2. Clashes <=> a.id \notin DOMAIN base
      BY <1>4, <2>5 DEF Clashes, CreateClash, StampClash, AppendClash, BothPatch
    <3> QED BY <1>2, <3>1, <3>2
  <2>6. CASE a.type = "add" /\ b.type = "patch"
    <3>1. Both(base, a, b) = Both(base, b, a) <=> a.id \in DOMAIN base \/ a.lamport <= b.lamport
      BY <1>1, <2>1, <2>6, AddAndPatch
    <3>2. Clashes <=> a.id \notin DOMAIN base /\ a.lamport > b.lamport
      BY <1>4, <2>6 DEF Clashes, CreateClash, StampClash, AppendClash, BothPatch
    <3> QED BY <1>2, <2>3, <3>1, <3>2
  <2>7. CASE a.type = "patch" /\ b.type = "add"
    <3>1. Both(base, b, a) = Both(base, a, b) <=> b.id \in DOMAIN base \/ b.lamport <= a.lamport
      BY <1>1, <2>1, <2>7, AddAndPatch
    <3>2. Clashes <=> a.id \notin DOMAIN base /\ b.lamport > a.lamport
      BY <1>4, <2>7 DEF Clashes, CreateClash, StampClash, AppendClash, BothPatch
    <3> QED BY <1>2, <2>1, <2>3, <3>1, <3>2
  <2>8. CASE a.type = "patch" /\ b.type = "patch"
    <3>1. Both(base, a, b) # Both(base, b, a)
            <=> /\ a.id \in DOMAIN base
                /\ \E k \in DOMAIN a.patch \cap DOMAIN b.patch :
                     ClashOn(base[a.id], a, b, k) \/ ClashOn(base[a.id], b, a, k)
      BY <1>1, <2>1, <2>8, PatchesTogether
    <3>2. Clashes <=> AppendClash(a, b) \/ AppendClash(b, a)
      BY <2>8 DEF Clashes, CreateClash, StampClash
    <3> QED BY <1>2, <1>4, <2>8, <3>1, <3>2, AppendClashes
  <2> QED BY <2>2, <2>4, <2>5, <2>6, <2>7, <2>8
<1> QED BY <1>3, <1>4

\* TP1, with its exceptions: whatever two ops two clients send, from whatever document,
\* the two orders of delivery end in different documents in the three clashes and in no
\* other case (transform, ot.ts:136-228).
THEOREM ConvergesExceptClashes == Spec => []TP1ExceptClashes
<1>1. IInv => TP1ExceptClashes
  <2> SUFFICES ASSUME IInv, relation = "concurrent", Done
               PROVE  left.doc # right.doc <=> Clashes
    BY DEF TP1ExceptClashes, Clashes
  <2>1. PICK c, d : Delivered(c, d)
    BY ConcurrentDone
  <2> QED BY <2>1, ConcurrentClashes
<1> QED BY <1>1, Invariance, PTL

\* A remove wins against a concurrent add or patch of the drawable, in either order
\* (ot.ts:155-168).
THEOREM RemovedForGood == Spec => []RemoveWins
<1>1. IInv => RemoveWins
  <2> SUFFICES ASSUME IInv, relation = "concurrent", Done, SameTarget,
                      "remove" \in {a.type, b.type}
               PROVE  a.id \notin DOMAIN left.doc \cup DOMAIN right.doc
    BY DEF RemoveWins
  <2>1. PICK c, d : Delivered(c, d)
    BY ConcurrentDone
  <2>2. /\ IsOp(a, c) /\ IsOp(b, d) /\ IsDoc(base)
        /\ left.doc = Both(base, a, b) /\ right.doc = Both(base, b, a)
    BY <2>1 DEF Delivered
  <2>3. Together(a, b) /\ Together(b, a) /\ a.id = b.id
    BY <2>2, TargetIsTogether DEF SameTarget
  <2>4. a.id \notin DOMAIN Both(base, a, b)
    BY <2>2, <2>3, RemovedInBoth
  <2>5. b.id \notin DOMAIN Both(base, b, a)
    BY <2>2, <2>3, RemovedInBoth
  <2> QED BY <2>2, <2>3, <2>4, <2>5
<1> QED BY <1>1, Invariance, PTL

\* One field after two patches, in either order: it holds what the only or the later
\* writer wrote, unless one of them appends.
LEMMA FieldAfterPatches ==
  ASSUME NEW e, NEW o, NEW x, NEW y, IsOutcome(e, o, x, y)
  PROVE  /\ \A k \in DOMAIN x.patch \ DOMAIN y.patch : e.fields[k] = On(o, x.patch[k], k)
         /\ \A k \in DOMAIN y.patch \ DOMAIN x.patch : e.fields[k] = On(o, y.patch[k], k)
         /\ \A k \in DOMAIN x.patch \cap DOMAIN y.patch :
              ~x.patch[k].append /\ ~y.patch[k].append =>
                e.fields[k] = IF Beats(x, y) THEN On(o, x.patch[k], k) ELSE On(o, y.patch[k], k)
<1>1. /\ DOMAIN e.fields = DOMAIN o.fields \cup DOMAIN x.patch \cup DOMAIN y.patch
      /\ \A k \in DOMAIN e.fields : e.fields[k] = Merged(o, x, y, k)
  BY DEF IsOutcome
<1>2. ASSUME NEW k \in DOMAIN x.patch \ DOMAIN y.patch
      PROVE  e.fields[k] = On(o, x.patch[k], k)
  <2>1. k \notin Kept(y, x)
    BY <1>2 DEF Kept
  <2> QED BY <1>1, <2>1 DEF Merged
<1>3. ASSUME NEW k \in DOMAIN y.patch \ DOMAIN x.patch
      PROVE  e.fields[k] = On(o, y.patch[k], k)
  <2>1. k \in Kept(y, x)
    BY <1>3 DEF Kept
  <2> QED BY <1>1, <2>1 DEF Merged
<1>4. ASSUME NEW k \in DOMAIN x.patch \cap DOMAIN y.patch, ~x.patch[k].append, ~y.patch[k].append
      PROVE  e.fields[k] = IF Beats(x, y) THEN On(o, x.patch[k], k) ELSE On(o, y.patch[k], k)
  <2>1. k \in Kept(y, x) <=> ~Beats(x, y)
    BY <1>4 DEF Kept
  <2> QED BY <1>1, <1>4, <2>1 DEF Merged
<1> QED BY <1>2, <1>3, <1>4

\* Two concurrent patches merge field by field: a field that one of them writes ends with
\* that write, one that both set with the later write, in either order of delivery
\* (ot.ts:189-228).
THEOREM MergesFieldwise == Spec => []FieldwiseMerge
<1>1. IInv => FieldwiseMerge
  <2> SUFFICES ASSUME IInv, relation = "concurrent", Done, BothPatch, a.id \in DOMAIN base,
                      NEW r \in {left, right}
               PROVE  /\ \A k \in DOMAIN a.patch \ DOMAIN b.patch :
                           r.doc[a.id].fields[k] = Written(a, k)
                      /\ \A k \in DOMAIN b.patch \ DOMAIN a.patch :
                           r.doc[a.id].fields[k] = Written(b, k)
                      /\ \A k \in DOMAIN a.patch \cap DOMAIN b.patch :
                           ~a.patch[k].append /\ ~b.patch[k].append =>
                             r.doc[a.id].fields[k] = Written(IF Beats(b, a) THEN b ELSE a, k)
    BY Zenon DEF FieldwiseMerge
  <2> DEFINE o == base[a.id]
             e == r.doc[a.id]
  <2>1. PICK c, d : Delivered(c, d)
    BY ConcurrentDone
  <2>2. /\ c \in Nat /\ d \in Nat /\ c # d /\ IsOp(a, c) /\ IsOp(b, d) /\ IsDoc(base)
        /\ left.doc = Both(base, a, b) /\ right.doc = Both(base, b, a)
    BY <2>1 DEF Delivered
  <2>3. SameTarget /\ a.type = "patch" /\ b.type = "patch" /\ a.id = b.id
    BY DEF BothPatch, SameTarget
  <2>4. Together(a, b) /\ Together(b, a)
    BY <2>2, <2>3, TargetIsTogether
  <2>5. Beats(a, b) <=> ~Beats(b, a)
    BY <2>2, OneBeats
  <2>6. \A p, k : Written(p, k) = On(o, p.patch[k], k)
    BY DEF Written, Before, On, Had
  <2>7. CASE r = left
    <3>1. IsOutcome(Both(base, a, b)[a.id], base[a.id], a, b)
      BY <2>2, <2>3, <2>4, PatchAfterPatch
    <3>2. IsOutcome(e, o, a, b)
      BY <2>2, <2>7, <3>1
    <3> HIDE DEF e, o
    <3>3. /\ \A k \in DOMAIN a.patch \ DOMAIN b.patch : e.fields[k] = On(o, a.patch[k], k)
          /\ \A k \in DOMAIN b.patch \ DOMAIN a.patch : e.fields[k] = On(o, b.patch[k], k)
          /\ \A k \in DOMAIN a.patch \cap DOMAIN b.patch :
               ~a.patch[k].append /\ ~b.patch[k].append =>
                 e.fields[k] = IF Beats(a, b) THEN On(o, a.patch[k], k) ELSE On(o, b.patch[k], k)
      BY <3>2, FieldAfterPatches
    <3> QED BY <2>5, <2>6, <3>3 DEF e
  <2>8. CASE r = right
    <3>1. IsOutcome(Both(base, b, a)[b.id], base[b.id], b, a)
      BY <2>2, <2>3, <2>4, PatchAfterPatch
    <3>2. IsOutcome(e, o, b, a)
      BY <2>2, <2>3, <2>8, <3>1
    <3> HIDE DEF e, o
    <3>3. /\ \A k \in DOMAIN b.patch \ DOMAIN a.patch : e.fields[k] = On(o, b.patch[k], k)
          /\ \A k \in DOMAIN a.patch \ DOMAIN b.patch : e.fields[k] = On(o, a.patch[k], k)
          /\ \A k \in DOMAIN b.patch \cap DOMAIN a.patch :
               ~b.patch[k].append /\ ~a.patch[k].append =>
                 e.fields[k] = IF Beats(b, a) THEN On(o, b.patch[k], k) ELSE On(o, a.patch[k], k)
      BY <3>2, FieldAfterPatches
    <3> QED BY <2>5, <2>6, <3>3 DEF e
  <2> QED BY <2>7, <2>8
<1> QED BY <1>1, Invariance, PTL

LEMMA BatchedDone ==
  ASSUME IInv, relation = "batched", Done
  PROVE  /\ \E c : IsOp(a, c) /\ IsOp(b, c)
         /\ a.lamport < b.lamport /\ Composable(a, b)
         /\ IsDoc(base) /\ \A i \in DOMAIN base : ListsIn(base[i].fields)
         /\ left.doc = Apply(Apply(base, a), b) /\ right.doc = Apply(base, Compose(a, b))
<1>1. base \in Bases /\ BatchedPair /\ Stage(base, left, a, b) /\ StageOne(base, right, Compose(a, b))
  BY DEF IInv, ConcurrentPair
<1>2. a.lamport < b.lamport /\ Composable(a, b) /\ \E c \in DOMAIN OpsOf : a \in OpsOf[c] /\ b \in OpsOf[c]
  BY <1>1 DEF BatchedPair
<1>3. \E c : IsOp(a, c) /\ IsOp(b, c)
  BY <1>2, OpsAssumption
<1>4. IsDoc(base) /\ \A i \in DOMAIN base : ListsIn(base[i].fields)
  BY <1>1, BasesAssumption
<1>5. left.todo = <<>> /\ right.todo = <<>>
  BY DEF Done
<1>6. left.doc = Apply(Apply(base, a), b)
  BY <1>1, <1>5, StageEnd
<1>7. right.doc = Apply(base, Compose(a, b))
  BY <1>1, <1>5, StageOneEnd
<1> QED BY <1>2, <1>3, <1>4, <1>6, <1>7

\* Whatever two successive ops compose accepts, the op it returns has their joint effect
\* except in the two lossy pairs, and in those never (compose, ot.ts:236-281).
THEOREM ComposeKeepsEffect == Spec => []ComposeExceptLossy
<1>1. IInv => ComposeExceptLossy
  <2> SUFFICES ASSUME IInv, relation = "batched", Done
               PROVE  left.doc # right.doc <=> SetThenAppend \/ ReaddThenRemove
    BY DEF ComposeExceptLossy
  <2>1. /\ a.lamport < b.lamport /\ Composable(a, b)
        /\ IsDoc(base) /\ \A i \in DOMAIN base : ListsIn(base[i].fields)
        /\ left.doc = Apply(Apply(base, a), b) /\ right.doc = Apply(base, Compose(a, b))
    BY BatchedDone
  <2>2. PICK c : IsOp(a, c) /\ IsOp(b, c)
    BY BatchedDone
  <2>3. CASE a.type = "noop"
    <3>1. Compose(a, b) = b
      BY <2>3, Zenon DEF Compose
    <3>2. Apply(base, a) = base
      BY <2>3, ApplyNoop
    <3> QED BY <2>1, <2>3, <3>1, <3>2 DEF SetThenAppend, ReaddThenRemove, BothPatch, SameTarget
  <2>4. CASE a.type # "noop" /\ b.type = "noop"
    <3>1. Compose(a, b) = a
      BY <2>4, Zenon DEF Compose
    <3>2. Apply(Apply(base, a), b) = Apply(base, a)
      BY <2>4, ApplyNoop
    <3> QED BY <2>1, <2>4, <3>1, <3>2 DEF SetThenAppend, ReaddThenRemove, BothPatch, SameTarget
  <2>5. CASE a.type # "noop" /\ b.type # "noop"
    <3>1. /\ SameTarget
          /\ \/ a.type = "add" /\ b.type = "patch"
             \/ a.type = "patch" /\ b.type = "patch"
             \/ a.type \in {"add", "patch"} /\ b.type = "remove"
      BY <2>1, <2>5 DEF Composable, SameTarget
    <3>2. InTurn(a, b)
      BY <2>1, <2>2, <3>1, TargetIsTogether DEF InTurn
    <3>3. CASE a.type = "add" /\ b.type = "patch"
      <4>1. Apply(Apply(base, a), b) = Apply(base, Compose(a, b))
        BY <2>1, <2>2, <3>2, <3>3, ComposeAddPatch
      <4> QED BY <2>1, <3>3, <4>1 DEF SetThenAppend, ReaddThenRemove, BothPatch
    <3>4. CASE a.type = "patch" /\ b.type = "patch"
      <4>1. Apply(Apply(base, a), b) # Apply(base, Compose(a, b))
              <=> /\ a.id \in DOMAIN base
                  /\ \E k \in DOMAIN a.patch \cap DOMAIN b.patch :
                       /\ ~a.patch[k].append /\ b.patch[k].append
                       /\ Had(base[a.id], k) # a.patch[k].v
        BY <2>1, <2>2, <3>2, <3>4, ComposePatches
      <4>2. ~ReaddThenRemove
        BY <3>4 DEF ReaddThenRemove
      <4>3. SetThenAppend
              <=> /\ a.id \in DOMAIN base
                  /\ \E k \in DOMAIN a.patch \cap DOMAIN b.patch :
                       /\ ~a.patch[k].append /\ b.patch[k].append
                       /\ Had(base[a.id], k) # a.patch[k].v
        BY <3>1, <3>4 DEF SetThenAppend, BothPatch, Before, Had
      <4> QED BY <2>1, <4>1, <4>2, <4>3
    <3>5. CASE a.type \in {"add", "patch"} /\ b.type = "remove"
      <4>1. Apply(Apply(base, a), b) # Apply(base, Compose(a, b))
              <=> a.type = "add" /\ a.id \in DOMAIN base
        BY <2>1, <2>2, <3>2, <3>5, ComposeRemoves
      <4>2. ~SetThenAppend
        BY <3>5 DEF SetThenAppend, BothPatch
      <4>3. ReaddThenRemove <=> a.type = "add" /\ a.id \in DOMAIN base
        BY <3>1, <3>5 DEF ReaddThenRemove
      <4> QED BY <2>1, <4>1, <4>2, <4>3
    <3> QED BY <3>1, <3>3, <3>4, <3>5
  <2> QED BY <2>3, <2>4, <2>5
<1> QED BY <1>1, Invariance, PTL

================================================================================
