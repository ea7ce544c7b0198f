-------------------------------- MODULE MCRoom --------------------------------
(* Two viewers, interchangeable; ops on one stroke "d": create it, append *)
(* to it (not idempotent, so a lost or repeated op shows).                *)
EXTENDS Room, TLC

CONSTANTS c1, c2

Op(c, l) == [clientId |-> c, clientSeq |-> 1, lamport |-> l, serverSeq |-> 0]

MCClients == {c1, c2}
MCOps ==
  {Op(1, 0) @@ [type |-> "add", id |-> "d",
                shape |-> [id |-> "d", createdAt |-> 0, updatedAt |-> 0,
                           fields |-> [points |-> <<0>>]]],
   Op(2, 3) @@ [type |-> "patch", id |-> "d",
                patch |-> [points |-> [append |-> TRUE, v |-> <<1>>]]]}

Symmetry == Permutations(MCClients)
===============================================================================
