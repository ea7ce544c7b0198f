--------------------------- MODULE Admission_proofs ---------------------------
(***************************************************************************)
(* The theorems about Admission, for every rate, capacity and limit and    *)
(* every movement of the clock.  The bound on what a window lets through   *)
(* is not inductive: what the bucket still holds has to be counted in.     *)
(***************************************************************************)
EXTENDS Admission, TLAPS

\* Ops let through and tokens at hand, together, are paid for by the full buckets
\* and the clock.
WindowInv ==
  \A c \in joined : passed[c] * Token + Refilled(c) <= buckets[c] * Capacity + gained[c] * Rate

\* A bucket is made by a hello that came before the connection had joined.
HelloInv ==
  \A c \in Conns :
    /\ buckets[c] + waiting[c] <= hellos[c]
    /\ c \in joined => buckets[c] >= 1

\* The bucket knows the last op; it was full when there was none.
PaceInv ==
  \A c \in joined :
    /\ last[c] - now <= lost[c]
    /\ sentAt[c] # Never => last[c] = sentAt[c] /\ (lost[c] = 0 => tokens[c] >= 0)
    /\ sentAt[c] = Never => tokens[c] = Capacity

\* A connection that has not joined has not sent anything and has no bucket.
FreshInv == \A c \in Conns \ joined : passed[c] = 0 /\ buckets[c] = 0

IInv ==
  /\ TypeOK /\ RateBound /\ DebtIsBounded /\ PacedIsServed /\ SizesAreLimited
  /\ WindowInv /\ HelloInv /\ PaceInv /\ FreshInv

-------------------------------------------------------------------------------
(* Arithmetic *)

LEMMA Distributes ==
  ASSUME NEW a \in Int, NEW b \in Int, NEW r \in Int
  PROVE  (a + b) * r = a * r + b * r /\ (a - b) * r = a * r - b * r
OBVIOUS

LEMMA ProductIsNat ==
  ASSUME NEW a \in Nat, NEW r \in Nat
  PROVE  a * r \in Nat
OBVIOUS

\* Moving the clock by d moves what the bucket holds by at most d * Rate.
LEMMA RefillMoves ==
  ASSUME NEW t \in Int, NEW l \in Int, NEW n \in Int, NEW d \in Nat
  PROVE  /\ Smaller(Capacity, t + ((n + d) - l) * Rate)
              <= Smaller(Capacity, t + (n - l) * Rate) + d * Rate
         /\ Smaller(Capacity, t + (n - l) * Rate)
              <= Smaller(Capacity, t + ((n + d) - l) * Rate)
         /\ Smaller(Capacity, t + (n - l) * Rate) \in Int
         /\ Smaller(Capacity, t + (n - l) * Rate) <= Capacity
<1> DEFINE u == t + (n - l) * Rate
           e == d * Rate
<1>1. Capacity \in Nat /\ u \in Int
  BY RateAssumption DEF Capacity, Token
<1>2. e \in Nat
  BY ProductIsNat, RateAssumption
<1>3. t + ((n + d) - l) * Rate = u + e
  <2>1. (n + d) - l = (n - l) + d
    OBVIOUS
  <2>2. ((n - l) + d) * Rate = (n - l) * Rate + d * Rate
    BY Distributes, RateAssumption
  <2> QED BY <2>1, <2>2, RateAssumption
<1> HIDE DEF u, e
<1>4. /\ Smaller(Capacity, u + e) <= Smaller(Capacity, u) + e
      /\ Smaller(Capacity, u) <= Smaller(Capacity, u + e)
      /\ Smaller(Capacity, u) \in Int /\ Smaller(Capacity, u) <= Capacity
  BY <1>1, <1>2 DEF Smaller
<1> QED BY <1>3, <1>4 DEF u, e

\* The same for the bucket of a connection.
LEMMA RefilledFacts ==
  ASSUME TypeOK, NEW c \in Conns
  PROVE  Refilled(c) \in Int /\ Refilled(c) <= Capacity /\ Capacity \in Nat
<1>1. tokens[c] \in Int /\ last[c] \in Int /\ now \in Int /\ 0 \in Nat
  BY DEF TypeOK
<1>2. now + 0 = now
  BY <1>1
<1>3. Capacity \in Nat
  BY RateAssumption DEF Capacity, Token
<1> QED BY <1>1, <1>2, <1>3, RefillMoves DEF Refilled

\* A bucket charged at this very moment holds what the charge left in it.
LEMMA ChargeFacts ==
  ASSUME TypeOK, NEW c \in Conns, now' = now, Charge(c)
  PROVE  /\ Refilled(c)' = tokens'[c] /\ last'[c] = now
         /\ tokens'[c] \in Int /\ tokens'[c] <= Capacity
         /\ tokens'[c] = Refilled(c) - (IF Refilled(c) >= Token THEN Token ELSE 0)
         /\ \A d \in Conns \ {c} : tokens'[d] = tokens[d] /\ last'[d] = last[d]
<1>1. /\ tokens'[c] = Refilled(c) - (IF Refilled(c) >= Token THEN Token ELSE 0)
      /\ last'[c] = now
      /\ \A d \in Conns \ {c} : tokens'[d] = tokens[d] /\ last'[d] = last[d]
  BY DEF Charge, TypeOK
<1>2. tokens'[c] \in Int /\ tokens'[c] <= Capacity
  BY <1>1, RefilledFacts DEF Token
<1>3. (now' - last'[c]) * Rate = 0
  BY <1>1, RateAssumption DEF TypeOK
<1>4. tokens'[c] + (now' - last'[c]) * Rate = tokens'[c]
  BY <1>2, <1>3
<1>5. Refilled(c)' = Smaller(Capacity, tokens'[c])
  BY <1>4 DEF Refilled, Capacity
<1>6. Refilled(c)' = tokens'[c]
  BY <1>2, <1>5, RefilledFacts DEF Smaller
<1> QED BY <1>1, <1>2, <1>6

-------------------------------------------------------------------------------
(* The steps *)

LEMMA InitIInv == Init => IInv
<1> SUFFICES ASSUME Init PROVE IInv
  OBVIOUS
<1>1. Capacity \in Int
  BY RateAssumption DEF Capacity, Token
<1>2. DOMAIN board = {}
  BY DEF Init, EmptyDoc
<1>3. 0 \in 0 .. MaxBack /\ now \in 0 .. MaxClock /\ 0 \in 0 .. MaxHellos
  BY BoundAssumption DEF Init
<1>4. TypeOK
  <2>1. /\ now \in 0 .. MaxClock /\ backs \in 0 .. MaxBack /\ joined \subseteq Conns
        /\ last \in [Conns -> 0 .. MaxClock]
        /\ waiting \in [Conns -> Nat] /\ hellos \in [Conns -> 0 .. MaxHellos]
    BY <1>3 DEF Init
  <2>2. tokens \in [Conns -> Int] /\ \A c \in Conns : tokens[c] <= Capacity
    BY <1>1 DEF Init
  <2>3. /\ grown \in [Ids -> Nat] /\ loose \subseteq Ids \X Data
        /\ passed \in [Conns -> Nat] /\ gained \in [Conns -> Nat] /\ lost \in [Conns -> Nat]
        /\ buckets \in [Conns -> Nat]
        /\ sentAt \in [Conns -> Nat \cup {Never}]
        /\ paced \in [Conns -> BOOLEAN] /\ refused \in [Conns -> BOOLEAN]
    BY DEF Init
  <2> QED BY <1>2, <2>1, <2>2, <2>3 DEF TypeOK
<1>5. HelloInv /\ FreshInv
  BY DEF Init, HelloInv, FreshInv
<1> QED
  BY <1>2, <1>4, <1>5 DEF Init, IInv, RateBound, DebtIsBounded, PacedIsServed, SizesAreLimited,
              WindowInv, PaceInv

LEMMA ForwardStep ==
  ASSUME IInv, NEW t \in 0 .. MaxClock, Forward(t)
  PROVE  IInv'
<1> DEFINE d == t - now
<1>1. /\ d \in Nat /\ now \in Int /\ now' = now + d
      /\ UNCHANGED <<backs, joined, waiting, hellos, tokens, last, board, grown, loose,
                     passed, buckets, lost, sentAt, paced, refused>>
      /\ \A c \in Conns : gained[c] \in Nat /\ gained'[c] = gained[c] + d
  BY BoundAssumption DEF IInv, TypeOK, Forward, door, bucket, drawn, pace
<1>2. TypeOK'
  BY <1>1, BoundAssumption DEF IInv, TypeOK, Forward
<1> HIDE DEF d
<1>3. ASSUME NEW c \in joined
      PROVE  /\ Refilled(c) <= Refilled(c)' /\ Refilled(c)' <= Refilled(c) + d * Rate
             /\ Refilled(c)' \in Int /\ Refilled(c) \in Int
             /\ gained'[c] * Rate = gained[c] * Rate + d * Rate
             /\ gained[c] * Rate \in Nat /\ d * Rate \in Nat
             /\ passed[c] \in Nat /\ lost[c] * Rate \in Nat
             /\ buckets[c] * Capacity \in Nat
  <2>1. c \in Conns /\ c \in joined'
    BY <1>1 DEF IInv, TypeOK
  <2>2. tokens[c] \in Int /\ last[c] \in Int /\ gained[c] \in Nat /\ passed[c] \in Nat
        /\ lost[c] \in Nat /\ buckets[c] \in Nat
    BY <2>1 DEF IInv, TypeOK
  <2>3. Refilled(c) \in Int /\ buckets[c] * Capacity \in Nat
    BY <2>1, <2>2, RefilledFacts, ProductIsNat DEF IInv
  <2>4. Refilled(c)' = Smaller(Capacity, tokens[c] + ((now + d) - last[c]) * Rate)
    BY <1>1 DEF Refilled, Capacity
  <2>5. gained'[c] * Rate = gained[c] * Rate + d * Rate
    BY <1>1, <2>1, <2>2, Distributes, RateAssumption
  <2>6. gained[c] * Rate \in Nat /\ d * Rate \in Nat /\ lost[c] * Rate \in Nat
    BY <1>1, <2>2, ProductIsNat, RateAssumption
  <2>7. /\ Refilled(c) <= Refilled(c)' /\ Refilled(c)' <= Refilled(c) + d * Rate
        /\ Refilled(c)' \in Int
    <3>1. /\ Smaller(Capacity, tokens[c] + ((now + d) - last[c]) * Rate)
                <= Refilled(c) + d * Rate
          /\ Refilled(c) <= Smaller(Capacity, tokens[c] + ((now + d) - last[c]) * Rate)
      BY <1>1, <2>2, RefillMoves DEF Refilled
    <3>2. Smaller(Capacity, tokens[c] + ((now + d) - last[c]) * Rate) \in Int
      BY <1>1, <2>1, <1>2, RefilledFacts, <2>2, <2>4, RefillMoves
    <3> QED BY <2>4, <3>1, <3>2
  <2> QED BY <2>2, <2>3, <2>5, <2>6, <2>7
<1>4. RateBound'
  <2> SUFFICES ASSUME NEW c \in joined'
               PROVE  /\ passed'[c] * Token <= buckets'[c] * Capacity + gained'[c] * Rate
                      /\ buckets'[c] <= hellos'[c]
    BY DEF RateBound, Capacity, Token
  <2>1. c \in joined /\ passed'[c] * Token = passed[c] * Token
    BY <1>1
  <2>2. passed[c] * Token <= buckets[c] * Capacity + gained[c] * Rate /\ buckets[c] <= hellos[c]
    BY <2>1 DEF IInv, RateBound
  <2> QED BY <1>1, <1>3, <2>1, <2>2 DEF Token
<1>5. DebtIsBounded'
  BY <1>1, <1>3 DEF IInv, DebtIsBounded
<1>6. WindowInv'
  <2> SUFFICES ASSUME NEW c \in joined'
               PROVE  passed'[c] * Token + Refilled(c)' <= buckets'[c] * Capacity + gained'[c] * Rate
    BY DEF WindowInv, Capacity, Token
  <2>1. c \in joined /\ passed'[c] = passed[c]
    BY <1>1
  <2>2. passed[c] * Token + Refilled(c) <= buckets[c] * Capacity + gained[c] * Rate
    BY <2>1 DEF IInv, WindowInv
  <2> QED BY <1>1, <1>3, <2>1, <2>2 DEF Token
<1>7. PacedIsServed' /\ SizesAreLimited' /\ FreshInv' /\ HelloInv'
  BY <1>1 DEF IInv, PacedIsServed, SizesAreLimited, FreshInv, HelloInv
<1>8. PaceInv'
  BY <1>1 DEF IInv, TypeOK, PaceInv, Capacity
<1> QED BY <1>2, <1>4, <1>5, <1>6, <1>7, <1>8 DEF IInv

LEMMA BackStep ==
  ASSUME IInv, NEW t \in 0 .. MaxClock, Back(t)
  PROVE  IInv'
<1> DEFINE d == now - t
<1>1. /\ d \in Nat /\ t \in Int /\ now = t + d /\ now' = t
      /\ backs' = backs + 1 /\ backs < MaxBack
      /\ UNCHANGED <<joined, waiting, hellos, tokens, last, board, grown, loose, passed,
                     gained, buckets, sentAt, paced, refused>>
      /\ \A c \in Conns : lost[c] \in Nat /\ lost'[c] = lost[c] + d
      /\ lost' \in [Conns -> Nat]
  BY BoundAssumption DEF IInv, TypeOK, Back, door, bucket, drawn, window, pace
<1>2. TypeOK'
  BY <1>1, BoundAssumption DEF IInv, TypeOK, Capacity
<1> HIDE DEF d
<1>3. ASSUME NEW c \in joined
      PROVE  /\ Refilled(c)' <= Refilled(c) /\ Refilled(c) <= Refilled(c)' + d * Rate
             /\ Refilled(c)' \in Int /\ Refilled(c) \in Int
             /\ lost'[c] * Rate = lost[c] * Rate + d * Rate
             /\ lost[c] * Rate \in Nat /\ d * Rate \in Nat /\ gained[c] * Rate \in Nat
             /\ passed[c] \in Nat /\ buckets[c] * Capacity \in Nat
  <2>1. c \in Conns /\ c \in joined'
    BY <1>1 DEF IInv, TypeOK
  <2>2. tokens[c] \in Int /\ last[c] \in Int /\ gained[c] \in Nat /\ passed[c] \in Nat
        /\ lost[c] \in Nat /\ buckets[c] \in Nat
    BY <2>1 DEF IInv, TypeOK
  <2>3. Refilled(c) \in Int /\ buckets[c] * Capacity \in Nat
    BY <2>1, <2>2, RefilledFacts, ProductIsNat DEF IInv
  <2>4. Refilled(c)' = Smaller(Capacity, tokens[c] + (t - last[c]) * Rate)
    BY <1>1 DEF Refilled, Capacity
  <2>5. lost'[c] * Rate = lost[c] * Rate + d * Rate
    BY <1>1, <2>1, <2>2, Distributes, RateAssumption
  <2>6. gained[c] * Rate \in Nat /\ d * Rate \in Nat /\ lost[c] * Rate \in Nat
    BY <1>1, <2>2, ProductIsNat, RateAssumption
  <2>7. Refilled(c) = Smaller(Capacity, tokens[c] + ((t + d) - last[c]) * Rate)
    BY <1>1 DEF Refilled
  <2>8. /\ Refilled(c) <= Refilled(c)' + d * Rate
        /\ Refilled(c)' <= Refilled(c) /\ Refilled(c)' \in Int
    BY <1>1, <2>2, <2>4, <2>7, RefillMoves
  <2> QED BY <2>2, <2>3, <2>5, <2>6, <2>8
<1>4. RateBound' /\ FreshInv' /\ HelloInv' /\ SizesAreLimited'
  BY <1>1 DEF IInv, RateBound, FreshInv, HelloInv, SizesAreLimited, Capacity
<1>5. DebtIsBounded'
  BY <1>1, <1>3 DEF IInv, DebtIsBounded
<1>6. WindowInv'
  <2> SUFFICES ASSUME NEW c \in joined'
               PROVE  passed'[c] * Token + Refilled(c)' <= buckets'[c] * Capacity + gained'[c] * Rate
    BY DEF WindowInv, Capacity, Token
  <2>1. c \in joined /\ passed'[c] = passed[c] /\ gained'[c] = gained[c]
    BY <1>1
  <2>2. passed[c] * Token + Refilled(c) <= buckets[c] * Capacity + gained[c] * Rate
    BY <2>1 DEF IInv, WindowInv
  <2> QED BY <1>1, <1>3, <2>1, <2>2 DEF Token
<1>7. ASSUME NEW c \in joined' PROVE lost'[c] = 0 => lost[c] = 0 /\ d = 0
  BY <1>1 DEF IInv, TypeOK
<1>8. PacedIsServed'
  BY <1>1, <1>7 DEF IInv, PacedIsServed
<1>9. PaceInv'
  <2> SUFFICES ASSUME NEW c \in joined'
               PROVE  /\ last[c] - t <= lost'[c]
                      /\ sentAt[c] # Never => last[c] = sentAt[c] /\ (lost'[c] = 0 => tokens[c] >= 0)
                      /\ sentAt[c] = Never => tokens[c] = Capacity
    BY <1>1 DEF PaceInv, Capacity, Never
  <2>1. c \in joined /\ last[c] \in Int /\ lost[c] \in Nat /\ lost'[c] = lost[c] + d
    BY <1>1 DEF IInv, TypeOK
  <2>2. last[c] - now <= lost[c]
    BY <2>1 DEF IInv, PaceInv
  <2>3. last[c] - t <= lost'[c]
    BY <1>1, <2>1, <2>2
  <2> QED BY <1>7, <2>1, <2>3 DEF IInv, PaceInv
<1> QED BY <1>2, <1>4, <1>5, <1>6, <1>8, <1>9 DEF IInv

LEMMA OpenWindowStep ==
  ASSUME IInv, NEW c \in Conns, OpenWindow(c)
  PROVE  IInv'
<1>1. /\ UNCHANGED <<now, backs, joined, waiting, hellos, tokens, last, board, grown, loose,
                     lost, sentAt, paced, refused>>
      /\ c \in joined /\ passed'[c] = 0 /\ gained'[c] = 0 /\ buckets'[c] = 1
      /\ \A d \in Conns \ {c} :
           passed'[d] = passed[d] /\ gained'[d] = gained[d] /\ buckets'[d] = buckets[d]
      /\ passed' \in [Conns -> Nat] /\ gained' \in [Conns -> Nat]
      /\ buckets' \in [Conns -> Nat]
  BY DEF IInv, TypeOK, OpenWindow, clock, door, bucket, drawn, pace
<1>2. TypeOK'
  BY <1>1 DEF IInv, TypeOK, Capacity
<1>3. \A d \in Conns : Refilled(d)' = Refilled(d) /\ Refilled(d) <= Capacity /\ Capacity \in Nat
                        /\ Refilled(d) \in Int
  BY <1>1, RefilledFacts DEF IInv, Refilled, Capacity
<1>4. gained'[c] * Rate = 0 /\ passed'[c] * Token = 0 /\ buckets'[c] * Capacity = Capacity
  BY <1>1, <1>3, RateAssumption DEF Token
<1>5. HelloInv'
  BY <1>1 DEF IInv, TypeOK, HelloInv
<1>6. RateBound' /\ WindowInv'
  <2> SUFFICES ASSUME NEW d \in joined'
               PROVE  /\ passed'[d] * Token <= buckets'[d] * Capacity + gained'[d] * Rate
                      /\ buckets'[d] <= hellos'[d]
                      /\ passed'[d] * Token + Refilled(d)'
                           <= buckets'[d] * Capacity + gained'[d] * Rate
    BY DEF WindowInv, RateBound, Capacity, Token
  <2>1. d \in joined /\ d \in Conns
    BY <1>1 DEF IInv, TypeOK
  <2>2. CASE d = c
    <3>1. buckets'[c] <= hellos'[c]
      BY <1>1 DEF IInv, TypeOK, HelloInv
    <3> QED BY <1>3, <1>4, <2>1, <2>2, <3>1
  <2>3. CASE d # c
    BY <1>1, <1>3, <2>1, <2>3 DEF IInv, RateBound, WindowInv
  <2> QED BY <2>2, <2>3
<1>7. DebtIsBounded' /\ PacedIsServed' /\ SizesAreLimited' /\ PaceInv' /\ FreshInv'
  <2>1. DebtIsBounded'
    BY <1>1, <1>3 DEF IInv, TypeOK, DebtIsBounded
  <2> QED BY <1>1, <2>1 DEF IInv, PacedIsServed, SizesAreLimited, PaceInv, FreshInv, Capacity
<1> QED BY <1>2, <1>5, <1>6, <1>7 DEF IInv

LEMMA HelloStep ==
  ASSUME IInv, NEW c \in Conns, Hello(c)
  PROVE  IInv'
<1>1. /\ UNCHANGED <<now, backs, joined, tokens, last, board, grown, loose,
                     passed, gained, buckets, lost, sentAt, paced, refused>>
      /\ c \notin joined /\ hellos[c] < MaxHellos
      /\ hellos' = [hellos EXCEPT ![c] = @ + 1] /\ waiting' = [waiting EXCEPT ![c] = @ + 1]
  BY DEF Hello, clock, bucket, drawn, window, pace
<1>2. TypeOK'
  <2>1. hellos' \in [Conns -> 0 .. MaxHellos] /\ waiting' \in [Conns -> Nat]
    BY <1>1, BoundAssumption DEF IInv, TypeOK
  <2> QED BY <1>1, <2>1 DEF IInv, TypeOK, Capacity
<1>3. HelloInv'
  BY <1>1, BoundAssumption DEF IInv, TypeOK, HelloInv
<1>4. \A d \in Conns : Refilled(d)' = Refilled(d)
  BY <1>1 DEF Refilled, Capacity
<1>5. \A d \in joined : d \in Conns /\ d # c /\ hellos'[d] = hellos[d]
  BY <1>1 DEF IInv, TypeOK
<1>6. RateBound' /\ WindowInv' /\ DebtIsBounded'
  BY <1>1, <1>4, <1>5 DEF IInv, RateBound, WindowInv, DebtIsBounded, Capacity
<1>7. PacedIsServed' /\ SizesAreLimited' /\ PaceInv' /\ FreshInv'
  BY <1>1 DEF IInv, PacedIsServed, SizesAreLimited, PaceInv, FreshInv, Capacity
<1> QED BY <1>2, <1>3, <1>6, <1>7 DEF IInv

LEMMA JoinStep ==
  ASSUME IInv, NEW c \in Conns, Join(c)
  PROVE  IInv'
<1>1. /\ UNCHANGED <<now, backs, hellos, board, grown, loose, passed, gained>>
      /\ waiting[c] > 0 /\ joined' = joined \cup {c}
      /\ tokens'[c] = Capacity /\ last'[c] = now /\ buckets'[c] = buckets[c] + 1
      /\ lost'[c] = 0 /\ sentAt'[c] = Never /\ ~refused'[c] /\ waiting'[c] = waiting[c] - 1
      /\ \A d \in Conns \ {c} :
           /\ tokens'[d] = tokens[d] /\ last'[d] = last[d] /\ buckets'[d] = buckets[d]
           /\ lost'[d] = lost[d] /\ sentAt'[d] = sentAt[d] /\ waiting'[d] = waiting[d]
           /\ paced'[d] = paced[d] /\ refused'[d] = refused[d]
  BY DEF IInv, TypeOK, Join, clock, drawn
<1>2. Capacity \in Nat
  BY RateAssumption DEF Capacity, Token
<1>3. TypeOK'
  <2>1. tokens' \in [Conns -> Int] /\ \A d \in Conns : tokens'[d] <= Capacity
    BY <1>1, <1>2 DEF IInv, TypeOK, Join
  <2>2. /\ last' \in [Conns -> 0 .. MaxClock] /\ buckets' \in [Conns -> Nat]
        /\ lost' \in [Conns -> Nat] /\ waiting' \in [Conns -> Nat]
        /\ sentAt' \in [Conns -> Nat \cup {Never}]
        /\ paced' \in [Conns -> BOOLEAN] /\ refused' \in [Conns -> BOOLEAN]
    BY DEF IInv, TypeOK, Join
  <2> QED BY <1>1, <2>1, <2>2 DEF IInv, TypeOK, Capacity
<1>4. /\ Refilled(c)' = Capacity /\ lost'[c] * Rate = 0
      /\ buckets'[c] * Capacity = buckets[c] * Capacity + Capacity
      /\ buckets[c] * Capacity \in Nat /\ gained[c] * Rate \in Nat /\ passed[c] \in Nat
  <2>1. (now' - last'[c]) * Rate = 0
    BY <1>1, RateAssumption DEF IInv, TypeOK
  <2>2. tokens'[c] + (now' - last'[c]) * Rate = Capacity
    BY <1>1, <1>2, <2>1
  <2>3. buckets[c] \in Nat /\ gained[c] \in Nat /\ passed[c] \in Nat
    BY DEF IInv, TypeOK
  <2>4. (buckets[c] + 1) * Capacity = buckets[c] * Capacity + 1 * Capacity
    BY <1>2, <2>3, Distributes
  <2> QED BY <1>1, <1>2, <2>2, <2>3, <2>4, ProductIsNat, RateAssumption
          DEF Refilled, Smaller, Capacity, Token
<1>5. \A d \in joined \ {c} : d \in Conns /\ Refilled(d)' = Refilled(d)
  BY <1>1 DEF IInv, TypeOK, Refilled, Capacity
<1>6. HelloInv'
  BY <1>1 DEF IInv, TypeOK, HelloInv
<1>7. passed[c] * Token <= buckets[c] * Capacity + gained[c] * Rate
  <2>1. CASE c \in joined
    BY <2>1 DEF IInv, RateBound
  <2>2. CASE c \notin joined
    <3>1. passed[c] = 0
      BY <2>2 DEF IInv, FreshInv
    <3> QED BY <1>4, <3>1 DEF Token
  <2> QED BY <2>1, <2>2
<1>8. buckets'[c] <= hellos'[c]
  BY <1>1, <1>6 DEF IInv, TypeOK, HelloInv
<1>9. RateBound' /\ WindowInv' /\ DebtIsBounded'
  <2> SUFFICES ASSUME NEW d \in joined'
               PROVE  /\ passed'[d] * Token <= buckets'[d] * Capacity + gained'[d] * Rate
                      /\ buckets'[d] <= hellos'[d]
                      /\ passed'[d] * Token + Refilled(d)'
                           <= buckets'[d] * Capacity + gained'[d] * Rate
                      /\ Refilled(d)' + lost'[d] * Rate >= 0
    BY DEF WindowInv, RateBound, DebtIsBounded, Capacity, Token
  <2>1. CASE d = c
    BY <1>1, <1>2, <1>4, <1>7, <1>8, <2>1 DEF Token
  <2>2. CASE d \in joined \ {c}
    BY <1>1, <1>5, <2>2 DEF IInv, RateBound, WindowInv, DebtIsBounded
  <2> QED BY <1>1, <2>1, <2>2
<1>10. PacedIsServed' /\ SizesAreLimited' /\ FreshInv'
  BY <1>1, <1>5 DEF IInv, PacedIsServed, SizesAreLimited, FreshInv
<1>11. PaceInv'
  <2> SUFFICES ASSUME NEW d \in joined'
               PROVE  /\ last'[d] - now' <= lost'[d]
                      /\ sentAt'[d] # Never =>
                           last'[d] = sentAt'[d] /\ (lost'[d] = 0 => tokens'[d] >= 0)
                      /\ sentAt'[d] = Never => tokens'[d] = Capacity
    BY DEF PaceInv, Capacity, Never
  <2>1. CASE d = c
    BY <1>1, <1>2, <2>1 DEF IInv, TypeOK
  <2>2. CASE d \in joined \ {c}
    BY <1>1, <1>5, <2>2 DEF IInv, PaceInv
  <2> QED BY <1>1, <2>1, <2>2
<1> QED BY <1>3, <1>6, <1>9, <1>10, <1>11 DEF IInv

\* What an op may carry.
LEMMA OpFacts ==
  ASSUME NEW op \in Ops
  PROVE  /\ op.type \in {"add", "patch", "remove"} /\ op.id \in Ids
         /\ op.type # "remove" =>
              /\ DOMAIN op.data \subseteq Data
              /\ \A f \in DOMAIN op.data :
                   /\ op.data[f].append \in BOOLEAN /\ op.data[f].form \in Forms
                   /\ op.data[f].size \in Nat /\ op.data[f].size <= MaxFrame
                   /\ op.data[f].append => op.type = "patch" /\ op.data[f].form = "list"
<1>1. /\ op.type \in {"add", "patch", "remove"} /\ op.id \in Ids
      /\ op.type # "remove" =>
           /\ DOMAIN op.data \subseteq Data
           /\ op.data \in [DOMAIN op.data ->
                           [append : BOOLEAN, form : Forms, size : 0 .. MaxFrame]]
           /\ \A f \in DOMAIN op.data :
                op.data[f].append => op.type = "patch" /\ op.data[f].form = "list"
  BY OpsAssumption
<1>2. MaxFrame \in Nat
  BY SizeAssumption
<1>3. ASSUME op.type # "remove", NEW f \in DOMAIN op.data
      PROVE  op.data[f] \in [append : BOOLEAN, form : Forms, size : 0 .. MaxFrame]
  BY <1>1, <1>3
<1> QED BY <1>1, <1>2, <1>3

\* w is data with what op writes over it.
IsWritten(w, data, op) ==
  /\ DOMAIN w = DOMAIN data \cup DOMAIN op.data
  /\ \A f \in DOMAIN w :
       /\ f \notin DOMAIN op.data => w[f] = data[f]
       /\ f \in DOMAIN op.data /\ ~op.data[f].append =>
            w[f].form = op.data[f].form /\ w[f].size = op.data[f].size
       /\ f \in DOMAIN op.data /\ op.data[f].append =>
            /\ w[f].form = "list"
            /\ \/ w[f].size = op.data[f].size
               \/ /\ f \in DOMAIN data /\ data[f].form = "list"
                  /\ w[f].size = op.data[f].size + data[f].size

\* The data of a drawable after an op: what the op does not name stays.
LEMMA WrittenFacts ==
  ASSUME NEW data, Sized(data), NEW op \in Ops, op.type # "remove"
  PROVE  Sized(Written(data, op)) /\ IsWritten(Written(data, op), data, op)
<1> DEFINE new(f) ==
             IF op.data[f].append
               THEN [form |-> "list", size |-> op.data[f].size +
                       IF f \in DOMAIN data /\ data[f].form = "list" THEN data[f].size ELSE 0]
               ELSE [form |-> op.data[f].form, size |-> op.data[f].size]
           w == Written(data, op)
<1>1. w = [f \in DOMAIN data \cup DOMAIN op.data |->
            IF f \in DOMAIN op.data THEN new(f) ELSE data[f]]
  BY DEF Written, Override
<1>2. \A f \in DOMAIN data : data[f].form \in Forms /\ data[f].size \in Nat
                            /\ data[f] \in [form : Forms, size : Nat]
  BY DEF Sized
<1>3. ASSUME NEW f \in DOMAIN op.data
      PROVE  /\ new(f) \in [form : Forms, size : Nat]
             /\ ~op.data[f].append =>
                   new(f).form = op.data[f].form /\ new(f).size = op.data[f].size
             /\ op.data[f].append =>
                   /\ new(f).form = "list"
                   /\ \/ new(f).size = op.data[f].size
                      \/ /\ f \in DOMAIN data /\ data[f].form = "list"
                         /\ new(f).size = op.data[f].size + data[f].size
  <2>1. op.data[f].form \in Forms /\ op.data[f].size \in Nat /\ "list" \in Forms
    BY OpFacts DEF Forms
  <2>2. CASE ~op.data[f].append
    BY <2>1, <2>2
  <2>3. CASE op.data[f].append
    BY <1>2, <2>1, <2>3
  <2> QED BY <2>2, <2>3
<1>4. DOMAIN w = DOMAIN data \cup DOMAIN op.data /\ DOMAIN w \subseteq Data
  BY <1>1, OpFacts DEF Sized
<1> HIDE DEF new
<1>5. \A f \in DOMAIN w : w[f] = IF f \in DOMAIN op.data THEN new(f) ELSE data[f]
  BY <1>1
<1>6. w \in [DOMAIN w -> [form : Forms, size : Nat]]
  BY <1>1, <1>2, <1>3, <1>4
<1> HIDE DEF w
<1>7. Sized(w) /\ IsWritten(w, data, op)
  BY <1>3, <1>4, <1>5, <1>6 DEF Sized, IsWritten
<1> QED BY <1>7 DEF w

\* The board after an op: the other drawables stay; the op's own, if it is there, is
\* what it was or nothing, with what the op writes.
LEMMA AppliedFacts ==
  ASSUME TypeOK, NEW op \in Ops, Accepted(op)
  PROVE  /\ DOMAIN board' \subseteq Ids
         /\ \A i \in DOMAIN board' :
              \/ i \in DOMAIN board /\ board'[i] = board[i]
                 /\ (i = op.id => op.type # "add" /\ op.type # "patch")
              \/ /\ i = op.id /\ op.type # "remove" /\ Touched(op) = DOMAIN op.data
                 /\ \E data : /\ \/ data = EmptyDoc
                                 \/ i \in DOMAIN board /\ data = board[i].data
                              /\ board'[i].data = Written(data, op)
<1>1. /\ op.type \in {"add", "patch", "remove"} /\ op.id \in Ids
      /\ DOMAIN board \subseteq Ids /\ board' = Applied(op)
  BY OpFacts DEF TypeOK, Accepted
<1>2. CASE op.type = "remove"
  <2>1. board' = [i \in DOMAIN board \cap (DOMAIN board \ {op.id}) |-> board[i]]
    BY <1>1, <1>2 DEF Applied, Delete, Restrict
  <2> QED BY <1>1, <1>2, <2>1
<1>3. CASE op.type # "remove" /\ op.id \in DOMAIN board
  <2>1. board' = [i \in DOMAIN board |-> IF i = op.id THEN Patched(board[i], op) ELSE board[i]]
    BY <1>1, <1>3 DEF Applied
  <2>2. Touched(op) = DOMAIN op.data
    BY <1>1, <1>3 DEF Touched
  <2>3. \A i \in DOMAIN board : Patched(board[i], op).data = Written(board[i].data, op)
    BY DEF Patched
  <2> QED BY <1>1, <1>3, <2>1, <2>2, <2>3
<1>4. CASE op.type = "add" /\ op.id \notin DOMAIN board
  <2>1. board' = Override(board, [i \in {op.id} |->
                                   [kind |-> op.kind, data |-> Written(EmptyDoc, op)]])
    BY <1>1, <1>4 DEF Applied
  <2>2. Touched(op) = DOMAIN op.data
    BY <1>4 DEF Touched
  <2> QED BY <1>1, <1>4, <2>1, <2>2 DEF Override
<1>5. CASE op.type = "patch" /\ op.id \notin DOMAIN board
  BY <1>1, <1>5 DEF Applied
<1> QED BY <1>1, <1>2, <1>3, <1>4, <1>5

\* The board after an op that passed validateOpSize.
LEMMA AcceptedSizes ==
  ASSUME TypeOK, SizesAreLimited, NEW op \in Ops, ~TooLarge(op), Accepted(op)
  PROVE  /\ DOMAIN board' \subseteq Ids
         /\ \A i \in DOMAIN board' : Sized(board'[i].data)
         /\ grown' \in [Ids -> Nat] /\ loose' \subseteq Ids \X Data /\ SizesAreLimited'
<1> DEFINE most(i, f) == IF <<i, f>> \in loose THEN MaxFrame ELSE Limit[f]
           fits(v, f, m, g) ==
             /\ v.form = "string" => v.size <= m
             /\ f = "points" /\ v.form = "list" => v.size <= m + g * MaxAppend
<1>1. /\ op.type \in {"add", "patch", "remove"} /\ op.id \in Ids
      /\ grown \in [Ids -> Nat] /\ loose \subseteq Ids \X Data
      /\ MaxAppend \in Nat /\ MaxFrame \in Nat
  BY OpFacts, SizeAssumption DEF TypeOK
<1>2. /\ loose' = (loose \ ({op.id} \X Set(op))) \cup ({op.id} \X (Set(op) \ Asked(op)))
      /\ grown' = [grown EXCEPT ![op.id] =
           IF "points" \in Set(op) THEN 0 ELSE IF "points" \in Touched(op) THEN @ + 1 ELSE @]
  BY DEF Accepted
<1>3. Touched(op) \subseteq Data /\ Set(op) \subseteq Data
  BY OpFacts DEF Touched, Set
<1>4. grown' \in [Ids -> Nat] /\ loose' \subseteq Ids \X Data
  BY <1>1, <1>2, <1>3
<1>5. \A f \in Data : Limit[f] \in Nat /\ Limit[f] <= MaxFrame
  BY SizeAssumption
<1>6. ASSUME NEW i \in DOMAIN board
      PROVE  /\ Sized(board[i].data)
             /\ \A f \in DOMAIN board[i].data :
                  fits(board[i].data[f], f, most(i, f), grown[i])
  BY DEF TypeOK, SizesAreLimited
<1>7. ASSUME NEW i \in DOMAIN board'
      PROVE  /\ Sized(board'[i].data)
             /\ \A f \in DOMAIN board'[i].data :
                  fits(board'[i].data[f], f,
                       IF <<i, f>> \in loose' THEN MaxFrame ELSE Limit[f], grown'[i])
  <2>1. CASE i \in DOMAIN board /\ board'[i] = board[i]
              /\ (i = op.id => op.type # "add" /\ op.type # "patch")
    <3>1. grown'[i] = grown[i] /\ \A f \in Data : <<i, f>> \in loose' <=> <<i, f>> \in loose
      <4>1. CASE i = op.id
        <5>1. Touched(op) = {} /\ Set(op) = {}
          BY <2>1, <4>1 DEF Touched, Set
        <5> QED BY <1>1, <1>2, <4>1, <5>1
      <4>2. CASE i # op.id
        BY <1>1, <1>2, <4>2, AppliedFacts
      <4> QED BY <4>1, <4>2
    <3>2. \A f \in DOMAIN board[i].data : f \in Data
      BY <1>6, <2>1 DEF Sized
    <3> QED BY <1>6, <2>1, <3>1, <3>2
  <2>2. CASE /\ i = op.id /\ op.type # "remove" /\ Touched(op) = DOMAIN op.data
             /\ \E data : /\ \/ data = EmptyDoc
                             \/ i \in DOMAIN board /\ data = board[i].data
                          /\ board'[i].data = Written(data, op)
    <3>1. PICK data : /\ \/ data = EmptyDoc
                         \/ i \in DOMAIN board /\ data = board[i].data
                      /\ board'[i].data = Written(data, op)
      BY <2>2
    <3>2. /\ Sized(data)
          /\ \A f \in DOMAIN data : /\ data[f].size \in Nat
                                    /\ fits(data[f], f, most(i, f), grown[i])
      <4>1. CASE data = EmptyDoc
        BY <4>1 DEF EmptyDoc, Sized
      <4>2. CASE i \in DOMAIN board /\ data = board[i].data
        BY <1>6, <4>2 DEF Sized
      <4> QED BY <3>1, <4>1, <4>2
    <3> HIDE DEF fits, most
    <3>3. Sized(board'[i].data) /\ IsWritten(board'[i].data, data, op)
      BY <2>2, <3>1, <3>2, WrittenFacts
    <3>4. ASSUME NEW f \in DOMAIN board'[i].data
          PROVE  fits(board'[i].data[f], f,
                      IF <<i, f>> \in loose' THEN MaxFrame ELSE Limit[f], grown'[i])
      <4>1. f \in Data /\ Limit[f] \in Nat /\ Limit[f] <= MaxFrame
        BY <1>5, <3>3 DEF Sized
      <4>2. f \in DOMAIN op.data <=> f \in Touched(op)
        BY <2>2
      <4>3. grown[i] \in Nat /\ grown[i] * MaxAppend \in Nat
            /\ (grown[i] + 1) * MaxAppend = grown[i] * MaxAppend + MaxAppend
        <5>1. grown[i] \in Nat /\ 1 * MaxAppend = MaxAppend
          BY <1>1, <2>2
        <5>2. (grown[i] + 1) * MaxAppend = grown[i] * MaxAppend + 1 * MaxAppend
          BY <1>1, <5>1, Distributes
        <5> QED BY <1>1, <5>1, <5>2, ProductIsNat
      <4>4. CASE f \notin DOMAIN op.data
        <5>1. <<i, f>> \in loose' <=> <<i, f>> \in loose
          BY <1>2, <4>2, <4>4 DEF Set
        <5>2. f = "points" => grown'[i] = grown[i]
          BY <1>1, <1>2, <2>2, <4>2, <4>4 DEF Set
        <5>3. board'[i].data[f] = data[f] /\ f \in DOMAIN data
          BY <3>3, <4>4 DEF IsWritten
        <5>4. fits(data[f], f, most(i, f), grown[i])
          BY <3>2, <5>3
        <5> QED BY <5>1, <5>2, <5>3, <5>4 DEF fits, most
      <4>5. CASE f \in DOMAIN op.data /\ op.data[f].append
        <5>1. f \notin Set(op) /\ f \in Touched(op)
          BY <4>2, <4>5 DEF Set
        <5>2. <<i, f>> \in loose' <=> <<i, f>> \in loose
          BY <1>2, <5>1
        <5>3. f = "points" => grown'[i] = grown[i] + 1
          BY <1>1, <1>2, <2>2, <5>1
        <5>4. f = "points" => op.data[f].size <= MaxAppend
          BY <1>1, <2>2, <4>5, OpFacts DEF TooLarge, Asked, Measured
        <5>5. op.data[f].size \in Nat /\ board'[i].data[f].form = "list"
          BY <2>2, <3>3, <4>5, OpFacts DEF IsWritten
        <5>6. most(i, f) \in Nat
          BY <1>1, <4>1 DEF most
        <5>7. f = "points" => board'[i].data[f].size <= most(i, f) + grown'[i] * MaxAppend
          <6> SUFFICES ASSUME f = "points"
                       PROVE  board'[i].data[f].size <= most(i, f) + grown'[i] * MaxAppend
            OBVIOUS
          <6>1. grown'[i] * MaxAppend = grown[i] * MaxAppend + MaxAppend
            BY <4>3, <5>3
          <6>2. CASE board'[i].data[f].size = op.data[f].size
            BY <1>1, <4>3, <5>4, <5>5, <5>6, <6>1, <6>2
          <6>3. CASE /\ f \in DOMAIN data /\ data[f].form = "list"
                     /\ board'[i].data[f].size = op.data[f].size + data[f].size
            <7>1. data[f].size <= most(i, f) + grown[i] * MaxAppend /\ data[f].size \in Nat
              BY <3>2, <6>3 DEF fits
            <7> QED BY <1>1, <4>3, <5>4, <5>5, <5>6, <6>1, <6>3, <7>1
          <6> QED BY <3>3, <4>5, <6>2, <6>3 DEF IsWritten
        <5> QED BY <5>2, <5>5, <5>7 DEF fits, most
      <4>6. CASE f \in DOMAIN op.data /\ ~op.data[f].append
        <5>1. f \in Set(op)
          BY <4>2, <4>6 DEF Set
        <5>2. <<i, f>> \in loose' <=> f \notin Asked(op)
          BY <1>2, <2>2, <5>1
        <5>3. f = "points" => grown'[i] = 0
          BY <1>1, <1>2, <2>2, <5>1
        <5>4. /\ board'[i].data[f].form = op.data[f].form
              /\ board'[i].data[f].size = op.data[f].size
          BY <3>3, <4>6 DEF IsWritten
        <5>5. op.data[f].size \in Nat /\ op.data[f].size <= MaxFrame
          BY <2>2, <4>6, OpFacts
        <5>6. CASE f \in Asked(op)
          <6>1. Measured(f, op.data[f]) => op.data[f].size <= Limit[f]
            BY <4>1, <4>6, <5>5, <5>6 DEF TooLarge
          <6> QED BY <1>1, <4>1, <5>2, <5>3, <5>4, <5>5, <5>6, <6>1 DEF fits, Measured
        <5>7. CASE f \notin Asked(op)
          BY <1>1, <5>2, <5>3, <5>4, <5>5, <5>7 DEF fits
        <5> QED BY <5>6, <5>7
      <4> QED BY <4>4, <4>5, <4>6
    <3> QED BY <3>3, <3>4
  <2> QED BY <2>1, <2>2, AppliedFacts
<1>8. SizesAreLimited'
  BY <1>7 DEF SizesAreLimited
<1> QED BY <1>4, <1>7, <1>8, AppliedFacts

LEMMA SubmitStep ==
  ASSUME IInv, NEW c \in Conns, NEW op \in Ops, Submit(c, op)
  PROVE  IInv'
<1> DEFINE through == Refilled(c) >= Token
           apart == sentAt[c] # Never => (now - sentAt[c]) * Rate >= Token
<1>1. /\ UNCHANGED <<now, backs, joined, waiting, hellos, gained, buckets, lost>>
      /\ c \in joined /\ Charge(c) /\ Recorded(c, through)
      /\ IF through /\ ~TooLarge(op) THEN Accepted(op) ELSE UNCHANGED <<board, grown, loose>>
  BY DEF Submit, clock, door, drawn
<1>2. TypeOK /\ now \in Nat /\ tokens[c] \in Int /\ last[c] \in Int
      /\ passed[c] \in Nat /\ gained[c] \in Nat /\ lost[c] \in Nat /\ buckets[c] \in Nat
  BY DEF IInv, TypeOK
<1>3. /\ Refilled(c)' = tokens'[c] /\ last'[c] = now
      /\ tokens'[c] \in Int /\ tokens'[c] <= Capacity
      /\ tokens'[c] = Refilled(c) - (IF through THEN Token ELSE 0)
      /\ \A d \in Conns \ {c} : tokens'[d] = tokens[d] /\ last'[d] = last[d]
  BY <1>1, <1>2, ChargeFacts
<1>4. /\ sentAt'[c] = now /\ paced'[c] = (paced[c] /\ apart)
      /\ refused'[c] = (refused[c] \/ ~through)
      /\ passed'[c] = IF through THEN passed[c] + 1 ELSE passed[c]
      /\ \A d \in Conns \ {c} :
           /\ sentAt'[d] = sentAt[d] /\ paced'[d] = paced[d]
           /\ refused'[d] = refused[d] /\ passed'[d] = passed[d]
  BY <1>1, <1>2 DEF Recorded, TypeOK
<1>5. /\ DOMAIN board' \subseteq Ids
      /\ \A i \in DOMAIN board' : Sized(board'[i].data)
      /\ grown' \in [Ids -> Nat] /\ loose' \subseteq Ids \X Data /\ SizesAreLimited'
  <2>1. CASE through /\ ~TooLarge(op)
    BY <1>1, <2>1, AcceptedSizes DEF IInv
  <2>2. CASE ~(through /\ ~TooLarge(op))
    BY <1>1, <2>2 DEF IInv, TypeOK, SizesAreLimited
  <2> QED BY <2>1, <2>2
<1>6. TypeOK'
  <2>1. tokens' \in [Conns -> Int] /\ last' \in [Conns -> 0 .. MaxClock]
    BY <1>1, <1>2, RefilledFacts DEF TypeOK, Charge, Token
  <2>2. \A d \in Conns : tokens'[d] <= Capacity
    BY <1>2, <1>3 DEF TypeOK
  <2>3. /\ passed' \in [Conns -> Nat] /\ sentAt' \in [Conns -> Nat \cup {Never}]
        /\ paced' \in [Conns -> BOOLEAN] /\ refused' \in [Conns -> BOOLEAN]
    BY <1>1, <1>2 DEF TypeOK, Recorded
  <2> QED BY <1>1, <1>2, <1>5, <2>1, <2>2, <2>3 DEF TypeOK, Capacity
<1>7. \A d \in joined \ {c} : d \in Conns /\ Refilled(d)' = Refilled(d)
  BY <1>1, <1>2, <1>3 DEF TypeOK, Refilled, Capacity
<1>8. Refilled(c) \in Int /\ Refilled(c) <= Capacity /\ Capacity \in Nat
      /\ gained[c] * Rate \in Nat /\ lost[c] * Rate \in Nat /\ Token = 1000
      /\ buckets[c] * Capacity \in Nat
  BY <1>2, RefilledFacts, ProductIsNat, RateAssumption DEF Token
<1>9. /\ passed[c] * Token + Refilled(c) <= buckets[c] * Capacity + gained[c] * Rate
      /\ passed[c] * Token <= buckets[c] * Capacity + gained[c] * Rate
      /\ Refilled(c) + lost[c] * Rate >= 0 /\ buckets[c] <= hellos[c]
  BY <1>1 DEF IInv, WindowInv, RateBound, DebtIsBounded
<1> HIDE DEF through, apart
<1>10. RateBound' /\ WindowInv' /\ DebtIsBounded'
  <2> SUFFICES ASSUME NEW d \in joined'
               PROVE  /\ passed'[d] * Token <= buckets'[d] * Capacity + gained'[d] * Rate
                      /\ buckets'[d] <= hellos'[d]
                      /\ passed'[d] * Token + Refilled(d)'
                           <= buckets'[d] * Capacity + gained'[d] * Rate
                      /\ Refilled(d)' + lost'[d] * Rate >= 0
    BY DEF WindowInv, RateBound, DebtIsBounded, Capacity, Token
  <2>1. CASE d # c
    BY <1>1, <1>4, <1>7, <2>1 DEF IInv, RateBound, WindowInv, DebtIsBounded
  <2>2. CASE d = c /\ through
    BY <1>1, <1>2, <1>3, <1>4, <1>8, <1>9, <2>2 DEF through
  <2>3. CASE d = c /\ ~through
    BY <1>1, <1>2, <1>3, <1>4, <1>8, <1>9, <2>3
  <2> QED BY <2>1, <2>2, <2>3
<1>11. ASSUME paced[c] /\ apart, lost[c] = 0, Burst > 0
       PROVE  through /\ ~refused[c]
  <2>1. Capacity >= Token /\ lost[c] * Rate = 0
    BY <1>11, RateAssumption DEF Capacity, Token
  <2>2. tokens[c] + (now - last[c]) * Rate >= Token
    <3>1. CASE sentAt[c] = Never
      <4>1. tokens[c] = Capacity /\ last[c] - now <= 0
        BY <1>1, <1>11, <3>1 DEF IInv, PaceInv
      <4>2. (now - last[c]) * Rate \in Nat
        BY <1>2, <4>1, ProductIsNat, RateAssumption
      <4> QED BY <1>8, <2>1, <4>1, <4>2
    <3>2. CASE sentAt[c] # Never
      <4>1. last[c] = sentAt[c] /\ tokens[c] >= 0
        BY <1>1, <1>11, <3>2 DEF IInv, PaceInv
      <4>2. (now - last[c]) * Rate >= Token
        BY <1>11, <3>2, <4>1 DEF apart
      <4>3. (now - last[c]) * Rate \in Int
        BY <1>2, RateAssumption
      <4> QED BY <1>2, <1>8, <4>1, <4>2, <4>3
    <3> QED BY <3>1, <3>2
  <2>3. Refilled(c) >= Token
    BY <2>1, <2>2 DEF Refilled, Smaller
  <2>4. ~refused[c]
    BY <1>1, <1>11 DEF IInv, PacedIsServed
  <2> QED BY <2>3, <2>4 DEF through
<1>12. PacedIsServed'
  <2> SUFFICES ASSUME NEW d \in joined', paced'[d], lost'[d] = 0, Burst > 0
               PROVE  ~refused'[d]
    BY DEF PacedIsServed
  <2>1. CASE d # c
    BY <1>1, <1>4, <1>7, <2>1 DEF IInv, PacedIsServed
  <2>2. CASE d = c
    BY <1>1, <1>4, <1>11, <2>2
  <2> QED BY <2>1, <2>2
<1>13. PaceInv'
  <2> SUFFICES ASSUME NEW d \in joined'
               PROVE  /\ last'[d] - now <= lost[d]
                      /\ sentAt'[d] # Never =>
                           last'[d] = sentAt'[d] /\ (lost[d] = 0 => tokens'[d] >= 0)
                      /\ sentAt'[d] = Never => tokens'[d] = Capacity
    BY <1>1 DEF PaceInv, Capacity, Never
  <2>1. CASE d # c
    BY <1>1, <1>3, <1>4, <1>7, <2>1 DEF IInv, PaceInv
  <2>2. CASE d = c
    <3>1. lost[c] = 0 => tokens'[c] >= 0
      <4>1. lost[c] = 0 => lost[c] * Rate = 0
        BY RateAssumption
      <4> QED BY <1>3, <1>8, <1>9, <4>1 DEF through
    <3>2. now # Never /\ now - now <= lost[c]
      BY <1>2 DEF Never
    <3> QED BY <1>3, <1>4, <2>2, <3>1, <3>2
  <2> QED BY <2>1, <2>2
<1>14. FreshInv' /\ HelloInv'
  BY <1>1, <1>4 DEF IInv, FreshInv, HelloInv, TypeOK
<1> QED BY <1>5, <1>6, <1>10, <1>12, <1>13, <1>14 DEF IInv

LEMMA StepIInv == IInv /\ [Next]_vars => IInv'
<1> SUFFICES ASSUME IInv, [Next]_vars PROVE IInv'
  OBVIOUS
<1>1. CASE Next
  BY <1>1, ForwardStep, BackStep, HelloStep, JoinStep, OpenWindowStep, SubmitStep DEF Next
<1>2. CASE UNCHANGED vars
  BY <1>2 DEF vars, clock, door, bucket, drawn, window, pace, IInv, TypeOK, RateBound,
              DebtIsBounded, PacedIsServed, SizesAreLimited, WindowInv, HelloInv, PaceInv,
              FreshInv, Refilled, Capacity
<1> QED BY <1>1, <1>2

\* IInv is inductive.
THEOREM Invariance == Spec => []IInv
BY InitIInv, StepIInv, PTL DEF Spec

\* No window of a connection lets more ops through than what the clock added and one
\* full bucket, and one more for each hello that came before the first had come to its
\* end, for every rate, capacity, number of hellos and movement of the clock.
THEOREM RateIsBounded == Spec => []RateBound
<1>1. IInv => RateBound
  BY DEF IInv
<1> QED BY <1>1, Invariance, PTL

\* A clock that goes back costs a bucket at most the time it went back.
THEOREM DebtBound == Spec => []DebtIsBounded
<1>1. IInv => DebtIsBounded
  BY DEF IInv
<1> QED BY <1>1, Invariance, PTL

\* Who keeps to the rate is served, as long as the clock does not go back.
THEOREM PacedService == Spec => []PacedIsServed
<1>1. IInv => PacedIsServed
  BY DEF IInv
<1> QED BY <1>1, Invariance, PTL

\* What validateOpSize keeps limited of what is on the board, whatever kinds and forms
\* the ops give to it, and on which ways in there is no limit but the frame's.
THEOREM SizeLimits == Spec => []SizesAreLimited
<1>1. IInv => SizesAreLimited
  BY DEF IInv
<1> QED BY <1>1, Invariance, PTL

\* The types, and no bucket above its capacity.
THEOREM TypeCorrect == Spec => []TypeOK
<1>1. IInv => TypeOK
  BY DEF IInv
<1> QED BY <1>1, Invariance, PTL

===============================================================================
