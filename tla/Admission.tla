------------------------------- MODULE Admission -------------------------------
(***************************************************************************)
(* What an op has to pass before the room takes it: the token bucket of    *)
(* server/src/rateLimit.ts and then validateOpSize, as Room.submitOp of    *)
(* server/src/room.ts calls them.                                          *)
(*                                                                         *)
(* Time is what Date.now answers, in milliseconds.  It is the wall clock,  *)
(* which an administrator or NTP may set forward or back.  Tokens are      *)
(* counted in thousandths: one millisecond is worth Rate of them.          *)
(*                                                                         *)
(* Of a drawable only its kind and the members whose size is checked       *)
(* matter here, and of those the form and the size; what ops do to         *)
(* documents in full is in OT.                                             *)
(***************************************************************************)
EXTENDS OT

CONSTANTS Conns,       \* connections, each used once
          Rate, Burst, \* config.maxOpsPerSec, config.maxBurst
          Limit,       \* MAX_STROKE_POINTS, MAX_TEXT_LEN and MAX_HREF_LEN
          MaxAppend,   \* MAX_APPEND_POINTS
          MaxFrame,    \* the most that fits into config.maxMessageBytes
          Ids, Ops,    \* drawables, and ops on them: what JSON may say
          MaxHellos,   \* bound: hellos of a connection before it has joined
          MaxClock,    \* bound: the clock stays below
          MaxBack      \* bound: how often the clock is set back

\* The members whose size is checked, and the kind of drawable they belong to.
Home == [f \in {"points", "text", "href"} |->
           CASE f = "points" -> "stroke" [] f = "text" -> "text" [] f = "href" -> "image"]
Data == DOMAIN Home

\* A value has a form and, if it is a string or a list, a length.  Same: a patch
\* without the member "kind".
Forms == {"string", "list", "other"}
Same == "same"

ASSUME RateAssumption == Rate \in Nat /\ Burst \in Nat
ASSUME SizeAssumption ==
  Limit \in [Data -> 0 .. MaxFrame] /\ MaxAppend \in Nat /\ MaxFrame \in Nat
ASSUME OpsAssumption ==
  \A op \in Ops :
    /\ op.type \in {"add", "patch", "remove"} /\ op.id \in Ids
    /\ op.type # "remove" =>
         /\ DOMAIN op.data \subseteq Data
         /\ op.data \in [DOMAIN op.data ->
                         [append : BOOLEAN, form : Forms, size : 0 .. MaxFrame]]
    /\ op.type # "remove" => \A f \in DOMAIN op.data :
         op.data[f].append => op.type = "patch" /\ op.data[f].form = "list"
ASSUME BoundAssumption == MaxHellos \in Nat /\ MaxClock \in Nat /\ MaxBack \in Nat

VARIABLES
  now,            \* Date.now()
  backs,          \* how often it was set back
  joined,         \* the connections that have a session
  waiting,        \* waiting[c]: hellos of c that wait at an await
  tokens, last,   \* the members of the bucket in the session of each
  board,          \* board[i]: the kind and the data of the drawable i
  hellos,         \* history: hellos[c] that came before c had joined
  passed, gained, \* history: ops let through, how far the clock moved forward,
  buckets,        \* and how many buckets c had, since an arbitrary moment
  lost,           \* history: how far it moved back since the bucket was made
  sentAt, paced,  \* history: the last op, and whether all kept their distance,
  refused,        \* and whether one was refused, since then too
  grown, loose    \* history: the appends since points was last set, and the
                  \* <<i, f>> of which nothing asked for the size

clock == <<now, backs>>
door == <<joined, waiting, hellos>>
bucket == <<tokens, last>>
window == <<passed, gained, buckets>>
pace == <<sentAt, paced, refused>>
drawn == <<board, grown, loose>>
vars == <<clock, door, bucket, drawn, window, lost, pace>>

Token == 1000
Capacity == Burst * Token
Never == -1

Init ==
  /\ now \in 0 .. MaxClock /\ backs = 0
  /\ joined = {}
  /\ waiting = [c \in Conns |-> 0] /\ hellos = [c \in Conns |-> 0]
  /\ tokens = [c \in Conns |-> Capacity] /\ last = [c \in Conns |-> now]
  /\ board = EmptyDoc /\ grown = [i \in Ids |-> 0] /\ loose = {}
  /\ passed = [c \in Conns |-> 0] /\ gained = [c \in Conns |-> 0]
  /\ buckets = [c \in Conns |-> 0]
  /\ lost = [c \in Conns |-> 0]
  /\ sentAt = [c \in Conns |-> Never]
  /\ paced = [c \in Conns |-> TRUE] /\ refused = [c \in Conns |-> FALSE]

-------------------------------------------------------------------------------
(* The clock *)

\* Time goes by, or the clock is set forward: the bucket cannot tell.
Forward(t) ==
  /\ t > now
  /\ now' = t
  /\ gained' = [c \in Conns |-> gained[c] + (t - now)]
  /\ UNCHANGED <<backs, door, bucket, drawn, passed, buckets, lost, pace>>

\* The clock is set back.
Back(t) ==
  /\ t < now /\ backs < MaxBack
  /\ now' = t /\ backs' = backs + 1
  /\ lost' = [c \in Conns |-> lost[c] + (now - t)]
  /\ UNCHANGED <<door, bucket, drawn, window, pace>>

-------------------------------------------------------------------------------
(* The bucket *)

\* A hello, up to its await: as long as none has come to its end, each is taken.
Hello(c) ==
  /\ c \notin joined /\ hellos[c] < MaxHellos
  /\ hellos' = [hellos EXCEPT ![c] = @ + 1] /\ waiting' = [waiting EXCEPT ![c] = @ + 1]
  /\ UNCHANGED <<clock, joined, bucket, drawn, window, lost, pace>>

\* The rest of the handler: a new bucket, full, in a new session, which takes the
\* place of the one that another hello of the connection has made.
Join(c) ==
  /\ waiting[c] > 0
  /\ waiting' = [waiting EXCEPT ![c] = @ - 1]
  /\ joined' = joined \cup {c}
  /\ tokens' = [tokens EXCEPT ![c] = Capacity] /\ last' = [last EXCEPT ![c] = now]
  /\ buckets' = [buckets EXCEPT ![c] = @ + 1]
  /\ lost' = [lost EXCEPT ![c] = 0]
  /\ sentAt' = [sentAt EXCEPT ![c] = Never]
  /\ paced' = [paced EXCEPT ![c] = TRUE] /\ refused' = [refused EXCEPT ![c] = FALSE]
  /\ UNCHANGED <<clock, hellos, drawn, passed, gained>>

Smaller(a, b) == IF a <= b THEN a ELSE b

\* Mutants: the bucket overflows; whole seconds are counted.
Refilled_NoCapacity(c) == tokens[c] + (now - last[c]) * Rate
Refilled_WholeSeconds(c) ==
  Smaller(Capacity, tokens[c] + ((now - last[c]) \div 1000) * 1000 * Rate)

\* What the bucket holds after the refill: nothing keeps it from going below zero
\* when the clock went back.
Refilled(c) == Smaller(Capacity, tokens[c] + (now - last[c]) * Rate)

\* Mutants: a refusal is charged too; it does not move "last".
Charge_Always(c) ==
  /\ tokens' = [tokens EXCEPT ![c] = Refilled(c) - Token]
  /\ last' = [last EXCEPT ![c] = now]
Charge_LastOnSuccess(c) ==
  /\ tokens' = [tokens EXCEPT ![c] = Refilled(c) - (IF Refilled(c) >= Token THEN Token ELSE 0)]
  /\ last' = [last EXCEPT ![c] = IF Refilled(c) >= Token THEN now ELSE @]

\* tryConsume(1): whatever the answer, "last" is now.
Charge(c) ==
  /\ tokens' = [tokens EXCEPT ![c] = Refilled(c) - (IF Refilled(c) >= Token THEN Token ELSE 0)]
  /\ last' = [last EXCEPT ![c] = now]

\* The history of a submission: was it far enough from the one before, and did the
\* bucket let it through.
Recorded(c, through) ==
  /\ sentAt' = [sentAt EXCEPT ![c] = now]
  /\ paced' = [paced EXCEPT ![c] = @ /\ (sentAt[c] # Never => (now - sentAt[c]) * Rate >= Token)]
  /\ refused' = [refused EXCEPT ![c] = @ \/ ~through]
  /\ passed' = [passed EXCEPT ![c] = IF through THEN @ + 1 ELSE @]

\* A window over which the ops are counted may begin at any moment.
OpenWindow(c) ==
  /\ c \in joined
  /\ passed' = [passed EXCEPT ![c] = 0] /\ gained' = [gained EXCEPT ![c] = 0]
  /\ buckets' = [buckets EXCEPT ![c] = 1]
  /\ UNCHANGED <<clock, door, bucket, drawn, lost, pace>>

-------------------------------------------------------------------------------
(* The size *)

\* Mutants: one point more; the kind of a patch is asked for, not that of its member.
TooLarge_OffByOne(op) ==
  \E f \in IF op.type = "remove" THEN {} ELSE DOMAIN op.data :
    LET v == op.data[f] IN
    IF v.append THEN f = "points" /\ v.size > MaxAppend + 1
    ELSE /\ v.form = "string" \/ (f = "points" /\ v.form = "list")
         /\ op.type = "add" => op.kind = Home[f]
         /\ op.type = "patch" => f # "points"
         /\ v.size > Limit[f]

\* The members of an op whose size validateOpSize asks for: of an add those of the
\* kind it names; of a patch all, whatever it does to the kind, but for the points
\* that are set and not appended.  The kind of what is on the board plays no part.
Asked(op) ==
  IF op.type = "remove" THEN {}
  ELSE {f \in DOMAIN op.data : IF op.type = "add" THEN op.kind = Home[f]
                                                  ELSE op.data[f].append <=> f = "points"}

\* What it takes for their size: the length of a string; of points and of an append,
\* also the length of a list.
Measured(f, v) == v.form = "string" \/ (f = "points" /\ v.form = "list")

\* validateOpSize
TooLarge(op) ==
  \E f \in Asked(op) :
    LET v == op.data[f] IN
    Measured(f, v) /\ v.size > (IF v.append THEN MaxAppend ELSE Limit[f])

\* The data of a drawable after the patch or add op: an append makes the list longer,
\* or a new one of what was none.
Written(data, op) ==
  Override(data, [f \in DOMAIN op.data |->
    LET v == op.data[f] IN
    IF v.append
      THEN [form |-> "list", size |-> v.size +
              IF f \in DOMAIN data /\ data[f].form = "list" THEN data[f].size ELSE 0]
      ELSE [form |-> v.form, size |-> v.size]])

\* The drawable d, after the op.
Patched(d, op) ==
  [kind |-> IF op.kind = Same THEN d.kind ELSE op.kind, data |-> Written(d.data, op)]

\* applyInPlace.  An add over an existing drawable merges into it, a patch needs one.
Applied(op) ==
  CASE op.type = "remove" -> Delete(board, op.id)
    [] op.id \in DOMAIN board /\ op.type # "remove" ->
         [board EXCEPT ![op.id] = Patched(@, op)]
    [] op.type = "add" /\ op.id \notin DOMAIN board ->
         Override(board, [i \in {op.id} |-> [kind |-> op.kind, data |-> Written(EmptyDoc, op)]])
    [] OTHER -> board

\* The members that the op writes, and those of them it sets.
Touched(op) ==
  IF op.type = "add" \/ (op.type = "patch" /\ op.id \in DOMAIN board) THEN DOMAIN op.data ELSE {}
Set(op) == {f \in Touched(op) : ~op.data[f].append}

Accepted(op) ==
  /\ board' = Applied(op)
  /\ loose' = (loose \ ({op.id} \X Set(op))) \cup ({op.id} \X (Set(op) \ Asked(op)))
  /\ grown' = [grown EXCEPT ![op.id] =
       IF "points" \in Set(op) THEN 0 ELSE IF "points" \in Touched(op) THEN @ + 1 ELSE @]

\* submitOp, as far as its answer goes: the bucket first, and an op that is too
\* large has been charged for by then.
Submit(c, op) ==
  /\ c \in joined
  /\ Charge(c)
  /\ Recorded(c, Refilled(c) >= Token)
  /\ IF Refilled(c) >= Token /\ ~TooLarge(op) THEN Accepted(op) ELSE UNCHANGED drawn
  /\ UNCHANGED <<clock, door, gained, buckets, lost>>

Next ==
  \/ \E t \in 0 .. MaxClock : Forward(t) \/ Back(t)
  \/ \E c \in Conns : Hello(c) \/ Join(c) \/ OpenWindow(c) \/ \E op \in Ops : Submit(c, op)

Spec == Init /\ [][Next]_vars

-------------------------------------------------------------------------------
(* Properties *)

Sized(data) ==
  DOMAIN data \subseteq Data /\ data \in [DOMAIN data -> [form : Forms, size : Nat]]

\* The types of the variables; no bucket holds more than its capacity.
TypeOK ==
  /\ now \in 0 .. MaxClock /\ backs \in 0 .. MaxBack
  /\ joined \subseteq Conns
  /\ waiting \in [Conns -> Nat] /\ hellos \in [Conns -> 0 .. MaxHellos]
  /\ tokens \in [Conns -> Int] /\ \A c \in Conns : tokens[c] <= Capacity
  /\ last \in [Conns -> 0 .. MaxClock]
  /\ DOMAIN board \subseteq Ids
  /\ \A i \in DOMAIN board : Sized(board[i].data)
  /\ grown \in [Ids -> Nat] /\ loose \subseteq Ids \X Data
  /\ passed \in [Conns -> Nat] /\ gained \in [Conns -> Nat] /\ lost \in [Conns -> Nat]
  /\ buckets \in [Conns -> Nat]
  /\ sentAt \in [Conns -> Nat \cup {Never}]
  /\ paced \in [Conns -> BOOLEAN] /\ refused \in [Conns -> BOOLEAN]

\* "200 ops/sec refill, burst 400" (ARCHITECTURE.md:185): from any moment on, a
\* connection gets no more ops through than what the clock has added since and one
\* full bucket, however the clock jumps and whatever is refused (rateLimit.ts:14-24);
\* and one more for each further hello that was at its await when the first one came
\* to its end: it has no more buckets than hellos (index.ts:162, 195-206).
RateBound ==
  \A c \in joined : /\ passed[c] * Token <= buckets[c] * Capacity + gained[c] * Rate
                    /\ buckets[c] <= hellos[c]

\* What a clock that went back takes from a bucket is no more than what it will give
\* again on its way forward: the debt never exceeds the time lost.
DebtIsBounded == \A c \in joined : Refilled(c) + lost[c] * Rate >= 0

\* A connection whose ops arrive at the rate or more slowly is never told that it
\* sends too many, unless the clock went back.
PacedIsServed ==
  \A c \in joined : paced[c] /\ lost[c] = 0 /\ Burst > 0 => ~refused[c]

\* Whatever sequence of adds, patches and removes made it, of whatever kinds and forms:
\* a text or an href that is a string is within its limit, and points are no more than
\* the limit and what the appends since may bring, unless they came in by one of the
\* two ways on which nothing asks for their size: with an add of another kind (which a
\* patch may change later), or as points that a patch sets (room.ts:169-215).  Then
\* the frame is the limit.  A text that has become a list has none.
SizesAreLimited ==
  \A i \in DOMAIN board : \A f \in DOMAIN board[i].data :
    LET v    == board[i].data[f]
        most == IF <<i, f>> \in loose THEN MaxFrame ELSE Limit[f]
    IN  /\ v.form = "string" => v.size <= most
        /\ f = "points" /\ v.form = "list" => v.size <= most + grown[i] * MaxAppend

===============================================================================
