------------------------------ MODULE DurableLog ------------------------------
(***************************************************************************)
(* What a room promises its viewers, whatever crashes and restarts happen: *)
(* there is one log of ops that only ever grows, and every viewer sees a   *)
(* prefix of it that only ever grows.  Room implements this specification. *)
(***************************************************************************)
EXTENDS Naturals, Sequences

CONSTANT Clients     \* the viewers

VARIABLES log,       \* a sequence of ops
          seen       \* seen[c]: the length of the prefix viewer c has seen
vars == <<log, seen>>

Init ==
  /\ log = <<>>
  /\ seen = [c \in Clients |-> 0]

\* One more op, after the ones that are there.
Extend ==
  /\ Len(log') = Len(log) + 1
  /\ \A i \in 1 .. Len(log) : log'[i] = log[i]
  /\ UNCHANGED seen

\* A viewer moves forward, by one op or, with a fresh snapshot, by many.
Advance(c, n) ==
  /\ n >= seen[c]
  /\ seen' = [seen EXCEPT ![c] = n]
  /\ UNCHANGED log

Next == Extend \/ \E c \in Clients, n \in 1 .. Len(log) : Advance(c, n)

Spec == Init /\ [][Next]_vars
===============================================================================
