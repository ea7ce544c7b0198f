---------------------------------- MODULE OT ----------------------------------
(***************************************************************************)
(* The operational-transform engine of shared/src/ot.ts, shared by server  *)
(* and client.  All definitions are pure operators.                        *)
(*                                                                         *)
(* A document (DocState) is a partial function from drawable ids to        *)
(* drawables.  A drawable keeps the three base members the engine looks    *)
(* at, and "fields" holds every other member:                              *)
(*     [id, createdAt, updatedAt, fields]                                  *)
(* A patch is a partial function from field names to                       *)
(*     [append |-> BOOLEAN, v |-> value]                                   *)
(* where append stands for the {"$append": [...]} form; the values of list *)
(* fields are sequences.  serverSeq = 0 is the undefined serverSeq of an   *)
(* op that no server has stamped.  Client ids are naturals: the engine     *)
(* only compares them.                                                     *)
(***************************************************************************)
EXTENDS Integers, Sequences, Functions

Larger(m, n) == IF m >= n THEN m ELSE n

\* Object spread: the members of g over those of f.
Override(f, g) ==
  [k \in DOMAIN f \cup DOMAIN g |-> IF k \in DOMAIN g THEN g[k] ELSE f[k]]

Delete(doc, id) == Restrict(doc, DOMAIN doc \ {id})

EmptyDoc == [i \in {} |-> i]

\* A Map from the ids of its drawables.
Keyed(d) ==
  /\ d = [i \in DOMAIN d |-> d[i]]
  /\ \A i \in DOMAIN d : "id" \in DOMAIN d[i] /\ d[i].id = i

IsDrawable(d) ==
  /\ d = [id |-> d.id, createdAt |-> d.createdAt, updatedAt |-> d.updatedAt,
          fields |-> [k \in DOMAIN d.fields |-> d.fields[k]]]
  /\ d.updatedAt \in Nat

IsDoc(doc) == Keyed(doc) /\ \A i \in DOMAIN doc : IsDrawable(doc[i])

\* A sequence of anything.
IsSequence(s) == Len(s) \in Nat /\ s = [i \in 1 .. Len(s) |-> s[i]]

(***************************************************************************)
(* A document as the bare list of its drawables, and back.  Snapshots and  *)
(* welcome messages carry the list; whoever reads one re-keys it by d.id.  *)
(***************************************************************************)
Drawables(doc) == {doc[i] : i \in DOMAIN doc}

MapById(ds) ==
  [i \in {d.id : d \in ds} |-> CHOOSE d \in ds : d.id = i]

-------------------------------------------------------------------------------
(* apply *)

ApplyPatch(d, patch, lamport) ==
  [id |-> d.id,
   createdAt |-> d.createdAt,
   updatedAt |-> Larger(d.updatedAt, lamport),
   fields    |-> Override(d.fields,
     [k \in DOMAIN patch |->
       IF patch[k].append
         THEN (IF k \in DOMAIN d.fields THEN d.fields[k] ELSE <<>>) \o patch[k].v
         ELSE patch[k].v])]

\* An add of an id that exists merges into the drawable that is there.
MergeAdd(d, op) ==
  [id |-> op.shape.id,
   createdAt |-> d.createdAt,
   updatedAt |-> Larger(d.updatedAt, op.lamport),
   fields    |-> Override(d.fields, op.shape.fields)]

ApplyAdd(doc, op) ==
  Override(doc, [i \in {op.id} |->
    IF i \in DOMAIN doc THEN MergeAdd(doc[i], op) ELSE op.shape])

Apply(doc, op) ==
  CASE op.type = "add"    -> ApplyAdd(doc, op)
    [] op.type = "remove" -> Delete(doc, op.id)
    [] op.type = "patch"  ->
         IF op.id \in DOMAIN doc
           THEN [doc EXCEPT ![op.id] = ApplyPatch(@, op.patch, op.lamport)]
           ELSE doc
    [] OTHER -> doc

-------------------------------------------------------------------------------
(* transform *)

AsNoop(op) ==
  [type |-> "noop", clientId |-> op.clientId, clientSeq |-> op.clientSeq,
   lamport |-> op.lamport, serverSeq |-> op.serverSeq]

\* Mutant: ties are left undecided.
Beats_NoTieBreak(b, a) == b.lamport > a.lamport

\* bLamportGt: b is later than a in the total order of stamps.
Beats(b, a) ==
  \/ b.lamport > a.lamport
  \/ b.lamport = a.lamport /\ b.clientId > a.clientId
  \/ b.lamport = a.lamport /\ b.clientId = a.clientId /\ b.clientSeq > a.clientSeq

\* Mutant: the later write loses.
MergePatches_EarlierWins(a, b) ==
  LET kept == {k \in DOMAIN a.patch :
                 k \in DOMAIN b.patch /\ Beats(a, b) =>
                   a.patch[k].append /\ b.patch[k].append}
  IN  IF kept = {} THEN AsNoop(a) ELSE [a EXCEPT !.patch = Restrict(a.patch, kept)]

\* Mutant: two appends exclude each other as two sets do.
MergePatches_AppendsClash(a, b) ==
  LET kept == {k \in DOMAIN a.patch : k \notin DOMAIN b.patch \/ ~Beats(b, a)}
  IN  IF kept = {} THEN AsNoop(a) ELSE [a EXCEPT !.patch = Restrict(a.patch, kept)]

\* a loses every field that b also writes and wins, unless both append to it.
MergePatches(a, b) ==
  LET lost == {k \in DOMAIN a.patch \cap DOMAIN b.patch :
                 Beats(b, a) /\ ~(a.patch[k].append /\ b.patch[k].append)}
      kept == DOMAIN a.patch \ lost
  IN  IF kept = {} THEN AsNoop(a)
                   ELSE [a EXCEPT !.patch = Restrict(a.patch, kept)]

\* The rules for two ops on the same drawable, by their types; a pair that is
\* not listed leaves a as it is.
TransformSameId(a, b) ==
  CASE a.type = "add" /\ b.type = "add"      -> IF Beats(b, a) THEN AsNoop(a) ELSE a
    [] a.type = "remove" /\ b.type = "remove"-> AsNoop(a)
    [] a.type = "add" /\ b.type = "remove"   -> AsNoop(a)
    [] a.type = "patch" /\ b.type = "remove" -> AsNoop(a)
    [] a.type = "add" /\ b.type = "patch"    ->
         [a EXCEPT !.shape = ApplyPatch(@, b.patch, Larger(a.lamport, b.lamport))]
    [] a.type = "patch" /\ b.type = "patch"  -> MergePatches(a, b)
    [] OTHER -> a

\* Mutant: an add survives a concurrent remove.
Transform_AddSurvives(a, b) ==
  IF "noop" \in {a.type, b.type} THEN a
  ELSE IF a.id # b.id \/ (a.type = "add" /\ b.type = "remove") THEN a
  ELSE TransformSameId(a, b)

\* The form of a to be applied after b, for a and b made on the same document.
Transform(a, b) ==
  IF a.type = "noop" \/ b.type = "noop" THEN a
  ELSE IF a.id # b.id THEN a
  ELSE TransformSameId(a, b)

-------------------------------------------------------------------------------
(* compose *)

\* The result of compose when it is not undefined; Composable says when.
Composable(a, b) ==
  IF "noop" \in {a.type, b.type} THEN TRUE
  ELSE /\ a.id = b.id
       /\ <<a.type, b.type>> \in {<<"add", "patch">>, <<"patch", "patch">>,
                                  <<"add", "remove">>, <<"patch", "remove">>}

\* Mutant: an append replaces the append before it.
JoinPatches_Replace(p, q) == Override(p, q)

\* Two successive patches in one: an append after an append is the joined
\* append, anything else of b replaces what a had.
JoinPatches(p, q) ==
  Override(p, [k \in DOMAIN q |->
    IF k \in DOMAIN p /\ q[k].append /\ p[k].append
      THEN [append |-> TRUE, v |-> p[k].v \o q[k].v]
      ELSE q[k]])

Compose(a, b) ==
  CASE a.type = "noop" -> b
    [] a.type # "noop" /\ b.type = "noop" -> a
    [] a.type = "add" /\ b.type = "patch" ->
         [a EXCEPT !.shape = ApplyPatch(@, b.patch, b.lamport),
                   !.lamport = b.lamport, !.clientSeq = b.clientSeq]
    [] a.type = "patch" /\ b.type = "patch" ->
         [a EXCEPT !.patch = JoinPatches(@, b.patch),
                   !.lamport = b.lamport, !.clientSeq = b.clientSeq]
    [] a.type = "add" /\ b.type = "remove" -> AsNoop(a)
    [] a.type = "patch" /\ b.type = "remove" -> b

===============================================================================
