------------------------------- MODULE MCOTLaws -------------------------------
(* Two clients, a drawable "d" with two scalar fields and a list, and an *)
(* unrelated drawable "e".                                               *)
EXTENDS OTLaws, TLC

Shape(id, x, points) ==
  [id |-> id, createdAt |-> 0, updatedAt |-> 0,
   fields |-> [k \in {"x", "points"} |-> IF k = "x" THEN x ELSE points]]

MCBases == {EmptyDoc,
            [i \in {"d", "e"} |-> [Shape(i, 0, <<0>>) EXCEPT !.createdAt = 1, !.updatedAt = 1]]}

\* The patches of client c: any non-empty choice of set x, set y, and append to
\* or set points; and those that append nothing, or set what is there already.
Points(v, app) == [k \in {"points"} |-> [append |-> app, v |-> v]]
Patches(c) ==
  {[k \in S |-> [append |-> k = "points" /\ app, v |-> IF k = "points" THEN <<c>> ELSE c]] :
     S \in SUBSET {"x", "y", "points"} \ {{}}, app \in BOOLEAN}
  \cup {Points(<<>>, TRUE), Points(<<0>>, FALSE)}

Ops(c, n, lamport) ==
  LET stamp(r) == r @@ [clientId |-> c, clientSeq |-> n, lamport |-> lamport, serverSeq |-> 0]
  IN  {stamp([type |-> "add", id |-> "d", shape |-> Shape("d", c, <<c>>)]),
       stamp([type |-> "remove", id |-> "d"]),
       stamp([type |-> "remove", id |-> "e"]),
       stamp([type |-> "noop"])}
      \cup {stamp([type |-> "patch", id |-> "d", patch |-> p]) : p \in Patches(10 * n + c)}

MCOpsOf == [c \in {1, 2} |-> Ops(c, 1, 2) \cup Ops(c, 1, 3) \cup Ops(c, 2, 4)]

MCFieldsOf(id) == {"x", "points"}
===============================================================================
