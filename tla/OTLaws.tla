-------------------------------- MODULE OTLaws --------------------------------
(***************************************************************************)
(* The algebraic laws shared/src/ot.ts claims, as a system of two replicas *)
(* of one document:                                                        *)
(*   - "concurrent": the replicas receive the ops a and b of two clients   *)
(*     in opposite orders, the second one transformed past the first;      *)
(*   - "batched": the left replica receives two successive ops a, b of one *)
(*     client one by one, the right one receives compose(a, b).            *)
(* The ops offered are the ones a client can make: an add carries a        *)
(* drawable of its own id, a patch names at least one field, and what is   *)
(* appended to is a list.                                                  *)
(***************************************************************************)
EXTENDS OT

CONSTANTS Bases,      \* the documents both replicas may start from
          OpsOf,      \* OpsOf[c]: the ops of client c, for c in a set of naturals
          ListFields, \* the fields whose values are lists
          FieldsOf(_) \* the fields of the drawable with that id, by its kind

ListsIn(fields) == \A k \in DOMAIN fields \cap ListFields : IsSequence(fields[k])

\* A new drawable has all the fields of its kind and a stamp from before its op
\* (App.tsx:199-200).
IsAdd(op) ==
  /\ {"id", "shape"} \subseteq DOMAIN op
  /\ IsDrawable(op.shape) /\ op.shape.id = op.id /\ op.shape.updatedAt < op.lamport
  /\ DOMAIN op.shape.fields = FieldsOf(op.id) /\ ListsIn(op.shape.fields)

IsPatch(op) ==
  /\ {"id", "patch"} \subseteq DOMAIN op
  /\ DOMAIN op.patch # {}
  /\ \A k \in DOMAIN op.patch :
       /\ op.patch[k].append \in BOOLEAN
       /\ op.patch[k].append => k \in ListFields \cap FieldsOf(op.id)
       /\ k \in ListFields => IsSequence(op.patch[k].v)

IsOp(op, c) ==
  /\ {"type", "clientId", "clientSeq", "lamport"} \subseteq DOMAIN op
  /\ op.type \in {"add", "remove", "patch", "noop"}
  /\ op.clientId = c /\ op.lamport \in Nat
  /\ op.type = "add" => IsAdd(op)
  /\ op.type = "patch" => IsPatch(op)
  /\ op.type = "remove" => "id" \in DOMAIN op

ASSUME OpsAssumption ==
  DOMAIN OpsOf \subseteq Nat /\ \A c \in DOMAIN OpsOf : \A op \in OpsOf[c] : IsOp(op, c)
ASSUME BasesAssumption ==
  \A doc \in Bases : IsDoc(doc) /\ \A i \in DOMAIN doc : ListsIn(doc[i].fields)

VARIABLES base, a, b,     \* what the replicas start from, and the two ops
          relation,       \* "concurrent" or "batched"
          left, right     \* the replicas: [doc, todo]
vars == <<base, a, b, relation, left, right>>

Replica(todo) == [doc |-> base, todo |-> todo]

\* Two ops of different clients, neither of which has seen the other.
Concurrent ==
  /\ relation = "concurrent"
  /\ a \in UNION {OpsOf[c] : c \in DOMAIN OpsOf}
  /\ b \in UNION {OpsOf[c] : c \in DOMAIN OpsOf \ {a.clientId}}
  /\ a.clientSeq = 1 /\ b.clientSeq = 1
  /\ left  = Replica(<<a, Transform(b, a)>>)
  /\ right = Replica(<<b, Transform(a, b)>>)

\* Two successive ops of one client that compose accepts.
Batched ==
  /\ relation = "batched"
  /\ a \in UNION {OpsOf[c] : c \in DOMAIN OpsOf}
  /\ b \in OpsOf[a.clientId]
  /\ b.clientSeq = a.clientSeq + 1 /\ b.lamport > a.lamport
  /\ Composable(a, b)
  /\ left  = Replica(<<a, b>>)
  /\ right = Replica(<<Compose(a, b)>>)

Init == base \in Bases /\ (Concurrent \/ Batched)

ApplyNext(r) == [doc |-> Apply(r.doc, Head(r.todo)), todo |-> Tail(r.todo)]

ApplyLeft  == /\ left.todo # <<>>
              /\ left' = ApplyNext(left)
              /\ UNCHANGED <<base, a, b, relation, right>>
ApplyRight == /\ right.todo # <<>>
              /\ right' = ApplyNext(right)
              /\ UNCHANGED <<base, a, b, relation, left>>

Next == ApplyLeft \/ ApplyRight
Spec == Init /\ [][Next]_vars

Done == left.todo = <<>> /\ right.todo = <<>>

-------------------------------------------------------------------------------
(* Convergence of concurrent ops *)

SameTarget == "noop" \notin {a.type, b.type} /\ a.id = b.id
BothPatch  == SameTarget /\ a.type = "patch" /\ b.type = "patch"

\* Both create the same id.  Ids are client-unique nanoids, so the shipped
\* client never does this.
CreateClash == SameTarget /\ a.id \notin DOMAIN base /\ a.type = "add" /\ b.type = "add"

\* One patches an id that only the other's add, of a later lamport, creates.
StampClash(p, q) ==
  SameTarget /\ a.id \notin DOMAIN base /\ p.type = "add" /\ q.type = "patch"
  /\ p.lamport > q.lamport

\* The list in field k, which an append starts when there is none.
Before(k) == IF k \in DOMAIN base[a.id].fields THEN base[a.id].fields[k] ELSE <<>>

\* p appends to a list field to which q appends other points, or which q sets to
\* another list and loses: the losing write is dropped by one replica and kept by
\* the other.
AppendClash(p, q) ==
  /\ BothPatch /\ a.id \in DOMAIN base
  /\ \E k \in DOMAIN p.patch \cap DOMAIN q.patch :
       LET mine == p.patch[k].v
           other == q.patch[k].v
       IN  /\ p.patch[k].append
           /\ \/ q.patch[k].append /\ mine \o other # other \o mine
              \/ ~q.patch[k].append /\ Beats(p, q) /\ Before(k) # other

\* The header of ot.ts (lines 3 to 5) states TP1: for any concurrent ops and any state
\* the two orders of delivery give the same document.  They do, same target or not, all
\* fields and stamps included, outside the three clashes, and in a clash they never do
\* (transform, ot.ts:136-228).
TP1ExceptClashes ==
  relation = "concurrent" /\ Done =>
    (left.doc # right.doc <=> \/ CreateClash
                              \/ StampClash(a, b) \/ StampClash(b, a)
                              \/ AppendClash(a, b) \/ AppendClash(b, a))

\* Remove wins: when one of two concurrent ops removes a drawable the other
\* one adds or patches, it is gone in both orders (ot.ts:155-168).
RemoveWins ==
  relation = "concurrent" /\ Done /\ SameTarget /\ "remove" \in {a.type, b.type}
  => a.id \notin DOMAIN left.doc \cup DOMAIN right.doc

\* What one patch alone would leave in field k.
Written(p, k) == IF p.patch[k].append THEN Before(k) \o p.patch[k].v ELSE p.patch[k].v

\* The field-wise merge of two concurrent patches: a field only one of them
\* writes ends with that write, a field both set ends with the later write, and
\* the order of delivery does not matter for either (ot.ts:189-228).
FieldwiseMerge ==
  relation = "concurrent" /\ Done /\ BothPatch /\ a.id \in DOMAIN base =>
    \A r \in {left, right} :
      /\ \A k \in DOMAIN a.patch \ DOMAIN b.patch : r.doc[a.id].fields[k] = Written(a, k)
      /\ \A k \in DOMAIN b.patch \ DOMAIN a.patch : r.doc[a.id].fields[k] = Written(b, k)
      /\ \A k \in DOMAIN a.patch \cap DOMAIN b.patch :
           ~a.patch[k].append /\ ~b.patch[k].append =>
             r.doc[a.id].fields[k] = Written(IF Beats(b, a) THEN b ELSE a, k)

-------------------------------------------------------------------------------
(* Batching *)

\* The two pairs it accepts and should refuse: an append after a set of the
\* same field to another list forgets the set, and a remove after a re-add of an id that was
\* there forgets the remove.
SetThenAppend ==
  /\ BothPatch /\ a.id \in DOMAIN base
  /\ \E k \in DOMAIN a.patch \cap DOMAIN b.patch :
       ~a.patch[k].append /\ b.patch[k].append /\ Before(k) # a.patch[k].v
ReaddThenRemove ==
  SameTarget /\ a.type = "add" /\ b.type = "remove" /\ a.id \in DOMAIN base

\* compose merges two successive ops or refuses ("undefined if they can't be composed
\* cleanly", ot.ts:232-235).  What it returns has their joint effect, for stroke batching
\* in particular, and misses it in those two pairs and no other (ot.ts:236-281).
ComposeExceptLossy ==
  relation = "batched" /\ Done => (left.doc # right.doc <=> SetThenAppend \/ ReaddThenRemove)

===============================================================================
