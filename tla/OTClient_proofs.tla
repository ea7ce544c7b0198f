----------------------------- MODULE OTClient_proofs -----------------------------
(***************************************************************************)
(* Lemmas about the folds of OTClient: the documents that a list of ops    *)
(* goes through, the forms that a remote op takes on its walk over pending *)
(* and what an echo leaves of pending.                                     *)
(***************************************************************************)
EXTENDS OTClient, OT_proofs, WellFoundedInduction

-------------------------------------------------------------------------------
(* Induction *)

\* The natural numbers are well ordered, and what holds of 0 and of the successor of each
\* number it holds of, holds of them all.
LEMMA LeastNumber ==
  ASSUME NEW T \in SUBSET Nat, T # {}
  PROVE  \E x \in T : \A y \in T : x <= y
<1> DEFINE R == OpToRel(<, Nat)
<1>1. IsWellFoundedOn(R, Nat)
  BY NatLessThanWellFounded
<1>2. PICK x \in T : \A y \in T : ~(<<y, x>> \in R)
  BY <1>1, WFMin
<1>3. ASSUME NEW y \in T
      PROVE  x <= y
  <2>1. ~(y < x)
    <3>1. y < x => <<y, x>> \in Nat \X Nat /\ <<y, x>>[1] < <<y, x>>[2]
      OBVIOUS
    <3> QED BY <1>2, <3>1 DEF OpToRel
  <2> QED BY <2>1
<1> QED BY <1>3

LEMMA Induction ==
  ASSUME NEW S, 0 \in S, \A n \in Nat : n \in S => n + 1 \in S
  PROVE  Nat \subseteq S
<1> SUFFICES ASSUME Nat \ S # {}
             PROVE  FALSE
  OBVIOUS
<1>1. PICK x \in Nat \ S : \A y \in Nat \ S : x <= y
  BY LeastNumber
<1>2. x # 0 /\ x - 1 \in Nat /\ x - 1 \notin Nat \ S
  BY <1>1
<1> QED BY <1>1, <1>2

LEMMA MaxFacts ==
  ASSUME NEW n \in Nat, NEW s \in SUBSET (1 .. n + 1)
  PROVE  /\ n + 1 \in s => Max(s) = n + 1
         /\ n + 1 \notin s => s \in SUBSET (1 .. n)
<1>1. n + 1 \in s => Max(s) = n + 1
  <2> SUFFICES ASSUME n + 1 \in s PROVE Max(s) = n + 1
    OBVIOUS
  <2>1. \A y \in s : n + 1 >= y
    OBVIOUS
  <2>2. \A x \in s : (\A y \in s : x >= y) => x = n + 1
    BY <2>1
  <2> DEFINE m == CHOOSE x \in s : \A y \in s : x >= y
  <2>3. m \in s /\ \A y \in s : m >= y
    BY <2>1
  <2> HIDE DEF m
  <2>4. m = n + 1
    BY <2>2, <2>3
  <2> QED BY <2>4, Zenon DEF Max, m
<1> QED BY <1>1

LEMMA MaxIn ==
  ASSUME NEW n \in Nat, NEW s \in SUBSET (1 .. n), s # {}
  PROVE  Max(s) \in s
<1> DEFINE T == {k \in Nat : \A y \in s : y <= k}
<1>1. n \in T
  OBVIOUS
<1>2. T \in SUBSET Nat /\ T # {}
  BY <1>1
<1>3. PICK k \in T : \A y \in T : k <= y
  BY <1>2, LeastNumber
<1>4. k \in s
  <2> SUFFICES ASSUME k \notin s PROVE FALSE
    OBVIOUS
  <2>1. PICK y \in s : TRUE
    OBVIOUS
  <2>2. k \in Nat /\ y \in 1 .. n /\ \A z \in s : z <= k
    BY <1>3, <2>1
  <2>3. k - 1 \in Nat /\ \A z \in s : z <= k - 1
    <3>1. \A z \in s : z \in 1 .. n /\ z # k
      OBVIOUS
    <3>2. k >= 1
      BY <2>1, <2>2
    <3> QED BY <2>2, <3>1, <3>2
  <2>4. k - 1 \in T
    BY <2>3
  <2> QED BY <2>2, <2>4, <1>3
<1>5. \E x \in s : \A y \in s : x >= y
  BY <1>4
<1> QED BY <1>5, Zenon DEF Max

-------------------------------------------------------------------------------
(* Folds, step by step.  A fold of a list with n elements is the value at 1 .. n of a    *)
(* function on the sets of indices; it exists for every n, and its values at 1 .. k, for *)
(* k = 0 .. n, are the results the fold goes through.                                    *)

IsApplyFold(f, doc, ops, n) ==
  f = [s \in SUBSET (1 .. n) |-> IF s = {} THEN doc ELSE Apply(f[s \ {Max(s)}], ops[Max(s)])]

LEMMA ApplyFoldExists ==
  ASSUME NEW doc, NEW ops
  PROVE  \A n \in Nat : \E f : IsApplyFold(f, doc, ops, n)
<1> DEFINE N == {n \in Nat : \E f : IsApplyFold(f, doc, ops, n)}
<1>1. 0 \in N
  <2> DEFINE f == [s \in SUBSET (1 .. 0) |-> doc]
  <2>1. \A s \in SUBSET (1 .. 0) : s = {}
    OBVIOUS
  <2>2. IsApplyFold(f, doc, ops, 0)
    BY <2>1 DEF IsApplyFold
  <2> QED BY <2>2
<1>2. ASSUME NEW n \in Nat, n \in N
      PROVE  n + 1 \in N
  <2>1. PICK g : IsApplyFold(g, doc, ops, n)
    BY <1>2
  <2> DEFINE f == [s \in SUBSET (1 .. n + 1) |->
               IF n + 1 \in s THEN Apply(g[s \ {n + 1}], ops[n + 1]) ELSE g[s]]
             step(s) == IF s = {} THEN doc ELSE Apply(f[s \ {Max(s)}], ops[Max(s)])
  <2>2. ASSUME NEW s \in SUBSET (1 .. n)
        PROVE  f[s] = g[s]
    OBVIOUS
  <2>3. ASSUME NEW s \in SUBSET (1 .. n + 1)
        PROVE  f[s] = step(s)
    <3>1. CASE n + 1 \in s
      <4>1. Max(s) = n + 1 /\ s # {} /\ s \ {n + 1} \in SUBSET (1 .. n)
        BY <3>1, MaxFacts
      <4>2. f[s] = Apply(g[s \ {n + 1}], ops[n + 1]) /\ f[s \ {n + 1}] = g[s \ {n + 1}]
        BY <3>1, <4>1, <2>2
      <4> HIDE DEF f
      <4> QED BY <4>1, <4>2, Zenon
    <3>2. CASE n + 1 \notin s /\ s # {}
      <4>1. s \in SUBSET (1 .. n)
        BY <3>2, MaxFacts
      <4>3. Max(s) \in s
        BY <4>1, <3>2, MaxIn
      <4>2. s \ {Max(s)} \in SUBSET (1 .. n) 
        BY <4>1
      <4>4. f[s] = g[s] /\ f[s \ {Max(s)}] = g[s \ {Max(s)}]
        BY <4>1, <4>2, <2>2
      <4>5. g[s] = Apply(g[s \ {Max(s)}], ops[Max(s)])
        BY <2>1, <4>1, <3>2, Zenon DEF IsApplyFold
      <4> HIDE DEF f
      <4> QED BY <4>4, <4>5, <3>2, Zenon
    <3>3. CASE s = {}
      <4>1. g[{}] = doc
        <5>1. {} \in SUBSET (1 .. n)
          OBVIOUS
        <5> QED BY <2>1, <5>1, Zenon DEF IsApplyFold
      <4> QED BY <4>1, <3>3, <2>2
    <3> QED BY <3>1, <3>2, <3>3
  <2>4. f = [s \in SUBSET (1 .. n + 1) |-> step(s)]
    <3> HIDE DEF step
    <3> QED BY <2>3
  <2>5. IsApplyFold(f, doc, ops, n + 1)
    BY <2>4, Zenon DEF IsApplyFold
  <2> QED BY <2>5
<1> HIDE DEF N
<1>3. Nat \subseteq N
  BY <1>1, <1>2, Induction
<1> QED BY <1>3 DEF N

LEMMA ApplyAllTrace ==
  ASSUME NEW doc, NEW ops, IsSequence(ops)
  PROVE  \E h : /\ h[0] = doc /\ ApplyAll(doc, ops) = h[Len(ops)]
                /\ \A k \in 1 .. Len(ops) : h[k] = Apply(h[k - 1], ops[k])
<1> DEFINE n == Len(ops)
           P(f) == f = [s \in SUBSET DOMAIN ops |->
                          IF s = {} THEN doc ELSE Apply(f[s \ {Max(s)}], ops[Max(s)])]
           F == CHOOSE f : P(f)
<1>1. ApplyAll(doc, ops) = F[DOMAIN ops]
  BY DEF ApplyAll, FoldLeft, MapThenFoldSet
<1>2. n \in Nat /\ DOMAIN ops = 1 .. n
  BY DEF IsSequence
<1>3. \E f : P(f)
  <2>1. \E f : IsApplyFold(f, doc, ops, n)
    BY <1>2, ApplyFoldExists
  <2>2. \A f : IsApplyFold(f, doc, ops, n) => P(f)
    BY <1>2, Zenon DEF IsApplyFold
  <2> QED BY <2>1, <2>2, Zenon
<1>4. P(F)
  <2> HIDE DEF P
  <2> QED BY <1>3, Zenon
<1> DEFINE h == [k \in 0 .. n |-> F[1 .. k]]
<1> HIDE DEF F
<1>5. h[0] = doc
  <2>1. 1 .. 0 = {} /\ {} \in SUBSET DOMAIN ops
    OBVIOUS
  <2>2. F[{}] = doc
    BY <2>1, <1>4, Zenon
  <2> QED BY <2>1, <2>2, <1>2
<1>6. ASSUME NEW k \in 1 .. n
      PROVE  h[k] = Apply(h[k - 1], ops[k])
  <2>1. k \in Nat /\ k - 1 \in Nat /\ (k - 1) + 1 = k /\ k \in 1 .. k
    BY <1>2
  <2>2. Max(1 .. k) = k
    BY <2>1, MaxFacts
  <2>3. (1 .. k) \ {k} = 1 .. k - 1 /\ 1 .. k # {} /\ 1 .. k \in SUBSET DOMAIN ops
    BY <1>2, <2>1
  <2>4. F[1 .. k] = Apply(F[(1 .. k) \ {Max(1 .. k)}], ops[Max(1 .. k)])
    BY <1>4, <2>3, Zenon
  <2>5. F[1 .. k] = Apply(F[1 .. k - 1], ops[k])
    BY <2>2, <2>3, <2>4, Zenon
  <2>6. h[k] = F[1 .. k] /\ h[k - 1] = F[1 .. k - 1]
    BY <1>2, <2>1
  <2> HIDE DEF h
  <2> QED BY <2>5, <2>6, Zenon
<1>7. h[n] = F[DOMAIN ops]
  BY <1>2
<1> HIDE DEF h
<1> QED BY <1>1, <1>5, <1>6, <1>7, Zenon

IsRebaseFold(f, op, ops, n) ==
  f = [s \in SUBSET (1 .. n) |-> IF s = {} THEN [remote |-> op, rebased |-> <<>>] ELSE RebaseOver(f[s \ {Max(s)}], ops[Max(s)])]

LEMMA RebaseFoldExists ==
  ASSUME NEW op, NEW ops
  PROVE  \A n \in Nat : \E f : IsRebaseFold(f, op, ops, n)
<1> DEFINE N == {n \in Nat : \E f : IsRebaseFold(f, op, ops, n)}
<1>1. 0 \in N
  <2> DEFINE f == [s \in SUBSET (1 .. 0) |-> [remote |-> op, rebased |-> <<>>]]
  <2>1. \A s \in SUBSET (1 .. 0) : s = {}
    OBVIOUS
  <2>2. IsRebaseFold(f, op, ops, 0)
    BY <2>1 DEF IsRebaseFold
  <2> QED BY <2>2
<1>2. ASSUME NEW n \in Nat, n \in N
      PROVE  n + 1 \in N
  <2>1. PICK g : IsRebaseFold(g, op, ops, n)
    BY <1>2
  <2> DEFINE f == [s \in SUBSET (1 .. n + 1) |->
               IF n + 1 \in s THEN RebaseOver(g[s \ {n + 1}], ops[n + 1]) ELSE g[s]]
             step(s) == IF s = {} THEN [remote |-> op, rebased |-> <<>>] ELSE RebaseOver(f[s \ {Max(s)}], ops[Max(s)])
  <2>2. ASSUME NEW s \in SUBSET (1 .. n)
        PROVE  f[s] = g[s]
    OBVIOUS
  <2>3. ASSUME NEW s \in SUBSET (1 .. n + 1)
        PROVE  f[s] = step(s)
    <3>1. CASE n + 1 \in s
      <4>1. Max(s) = n + 1 /\ s # {} /\ s \ {n + 1} \in SUBSET (1 .. n)
        BY <3>1, MaxFacts
      <4>2. f[s] = RebaseOver(g[s \ {n + 1}], ops[n + 1]) /\ f[s \ {n + 1}] = g[s \ {n + 1}]
        BY <3>1, <4>1, <2>2
      <4> HIDE DEF f
      <4> QED BY <4>1, <4>2, Zenon
    <3>2. CASE n + 1 \notin s /\ s # {}
      <4>1. s \in SUBSET (1 .. n)
        BY <3>2, MaxFacts
      <4>3. Max(s) \in s
        BY <4>1, <3>2, MaxIn
      <4>2. s \ {Max(s)} \in SUBSET (1 .. n) 
        BY <4>1
      <4>4. f[s] = g[s] /\ f[s \ {Max(s)}] = g[s \ {Max(s)}]
        BY <4>1, <4>2, <2>2
      <4>5. g[s] = RebaseOver(g[s \ {Max(s)}], ops[Max(s)])
        BY <2>1, <4>1, <3>2, Zenon DEF IsRebaseFold
      <4> HIDE DEF f
      <4> QED BY <4>4, <4>5, <3>2, Zenon
    <3>3. CASE s = {}
      <4>1. g[{}] = [remote |-> op, rebased |-> <<>>]
        <5>1. {} \in SUBSET (1 .. n)
          OBVIOUS
        <5> QED BY <2>1, <5>1, Zenon DEF IsRebaseFold
      <4> QED BY <4>1, <3>3, <2>2
    <3> QED BY <3>1, <3>2, <3>3
  <2>4. f = [s \in SUBSET (1 .. n + 1) |-> step(s)]
    <3> HIDE DEF step
    <3> QED BY <2>3
  <2>5. IsRebaseFold(f, op, ops, n + 1)
    BY <2>4, Zenon DEF IsRebaseFold
  <2> QED BY <2>5
<1> HIDE DEF N
<1>3. Nat \subseteq N
  BY <1>1, <1>2, Induction
<1> QED BY <1>3 DEF N

LEMMA RebaseTrace ==
  ASSUME NEW op, NEW ops, IsSequence(ops)
  PROVE  \E h : /\ h[0] = [remote |-> op, rebased |-> <<>>] /\ Rebase(ops, op) = h[Len(ops)]
                /\ \A k \in 1 .. Len(ops) : h[k] = RebaseOver(h[k - 1], ops[k])
<1> DEFINE n == Len(ops)
           P(f) == f = [s \in SUBSET DOMAIN ops |->
                          IF s = {} THEN [remote |-> op, rebased |-> <<>>] ELSE RebaseOver(f[s \ {Max(s)}], ops[Max(s)])]
           F == CHOOSE f : P(f)
<1>1. Rebase(ops, op) = F[DOMAIN ops]
  BY DEF Rebase, FoldLeft, MapThenFoldSet
<1>2. n \in Nat /\ DOMAIN ops = 1 .. n
  BY DEF IsSequence
<1>3. \E f : P(f)
  <2>1. \E f : IsRebaseFold(f, op, ops, n)
    BY <1>2, RebaseFoldExists
  <2>2. \A f : IsRebaseFold(f, op, ops, n) => P(f)
    BY <1>2, Zenon DEF IsRebaseFold
  <2> QED BY <2>1, <2>2, Zenon
<1>4. P(F)
  <2> HIDE DEF P
  <2> QED BY <1>3, Zenon
<1> DEFINE h == [k \in 0 .. n |-> F[1 .. k]]
<1> HIDE DEF F
<1>5. h[0] = [remote |-> op, rebased |-> <<>>]
  <2>1. 1 .. 0 = {} /\ {} \in SUBSET DOMAIN ops
    OBVIOUS
  <2>2. F[{}] = [remote |-> op, rebased |-> <<>>]
    BY <2>1, <1>4, Zenon
  <2> QED BY <2>1, <2>2, <1>2
<1>6. ASSUME NEW k \in 1 .. n
      PROVE  h[k] = RebaseOver(h[k - 1], ops[k])
  <2>1. k \in Nat /\ k - 1 \in Nat /\ (k - 1) + 1 = k /\ k \in 1 .. k
    BY <1>2
  <2>2. Max(1 .. k) = k
    BY <2>1, MaxFacts
  <2>3. (1 .. k) \ {k} = 1 .. k - 1 /\ 1 .. k # {} /\ 1 .. k \in SUBSET DOMAIN ops
    BY <1>2, <2>1
  <2>4. F[1 .. k] = RebaseOver(F[(1 .. k) \ {Max(1 .. k)}], ops[Max(1 .. k)])
    BY <1>4, <2>3, Zenon
  <2>5. F[1 .. k] = RebaseOver(F[1 .. k - 1], ops[k])
    BY <2>2, <2>3, <2>4, Zenon
  <2>6. h[k] = F[1 .. k] /\ h[k - 1] = F[1 .. k - 1]
    BY <1>2, <2>1
  <2> HIDE DEF h
  <2> QED BY <2>5, <2>6, Zenon
<1>7. h[n] = F[DOMAIN ops]
  BY <1>2
<1> HIDE DEF h
<1> QED BY <1>1, <1>5, <1>6, <1>7, Zenon

\* One step of After.
Keep(kept, p, m) == IF p.clientSeq > m THEN Append(kept, p) ELSE kept

IsAfterFold(f, m, ops, n) ==
  f = [s \in SUBSET (1 .. n) |-> IF s = {} THEN <<>> ELSE Keep(f[s \ {Max(s)}], ops[Max(s)], m)]

LEMMA AfterFoldExists ==
  ASSUME NEW m, NEW ops
  PROVE  \A n \in Nat : \E f : IsAfterFold(f, m, ops, n)
<1> DEFINE N == {n \in Nat : \E f : IsAfterFold(f, m, ops, n)}
<1>1. 0 \in N
  <2> DEFINE f == [s \in SUBSET (1 .. 0) |-> <<>>]
  <2>1. \A s \in SUBSET (1 .. 0) : s = {}
    OBVIOUS
  <2>2. IsAfterFold(f, m, ops, 0)
    BY <2>1 DEF IsAfterFold
  <2> QED BY <2>2
<1>2. ASSUME NEW n \in Nat, n \in N
      PROVE  n + 1 \in N
  <2>1. PICK g : IsAfterFold(g, m, ops, n)
    BY <1>2
  <2> DEFINE f == [s \in SUBSET (1 .. n + 1) |->
               IF n + 1 \in s THEN Keep(g[s \ {n + 1}], ops[n + 1], m) ELSE g[s]]
             step(s) == IF s = {} THEN <<>> ELSE Keep(f[s \ {Max(s)}], ops[Max(s)], m)
  <2>2. ASSUME NEW s \in SUBSET (1 .. n)
        PROVE  f[s] = g[s]
    OBVIOUS
  <2>3. ASSUME NEW s \in SUBSET (1 .. n + 1)
        PROVE  f[s] = step(s)
    <3>1. CASE n + 1 \in s
      <4>1. Max(s) = n + 1 /\ s # {} /\ s \ {n + 1} \in SUBSET (1 .. n)
        BY <3>1, MaxFacts
      <4>2. f[s] = Keep(g[s \ {n + 1}], ops[n + 1], m) /\ f[s \ {n + 1}] = g[s \ {n + 1}]
        BY <3>1, <4>1, <2>2
      <4> HIDE DEF f
      <4> QED BY <4>1, <4>2, Zenon
    <3>2. CASE n + 1 \notin s /\ s # {}
      <4>1. s \in SUBSET (1 .. n)
        BY <3>2, MaxFacts
      <4>3. Max(s) \in s
        BY <4>1, <3>2, MaxIn
      <4>2. s \ {Max(s)} \in SUBSET (1 .. n) 
        BY <4>1
      <4>4. f[s] = g[s] /\ f[s \ {Max(s)}] = g[s \ {Max(s)}]
        BY <4>1, <4>2, <2>2
      <4>5. g[s] = Keep(g[s \ {Max(s)}], ops[Max(s)], m)
        BY <2>1, <4>1, <3>2, Zenon DEF IsAfterFold
      <4> HIDE DEF f
      <4> QED BY <4>4, <4>5, <3>2, Zenon
    <3>3. CASE s = {}
      <4>1. g[{}] = <<>>
        <5>1. {} \in SUBSET (1 .. n)
          OBVIOUS
        <5> QED BY <2>1, <5>1, Zenon DEF IsAfterFold
      <4> QED BY <4>1, <3>3, <2>2
    <3> QED BY <3>1, <3>2, <3>3
  <2>4. f = [s \in SUBSET (1 .. n + 1) |-> step(s)]
    <3> HIDE DEF step
    <3> QED BY <2>3
  <2>5. IsAfterFold(f, m, ops, n + 1)
    BY <2>4, Zenon DEF IsAfterFold
  <2> QED BY <2>5
<1> HIDE DEF N
<1>3. Nat \subseteq N
  BY <1>1, <1>2, Induction
<1> QED BY <1>3 DEF N

LEMMA AfterTrace ==
  ASSUME NEW m, NEW ops, IsSequence(ops)
  PROVE  \E h : /\ h[0] = <<>> /\ After(ops, m) = h[Len(ops)]
                /\ \A k \in 1 .. Len(ops) : h[k] = Keep(h[k - 1], ops[k], m)
<1> DEFINE n == Len(ops)
           P(f) == f = [s \in SUBSET DOMAIN ops |->
                          IF s = {} THEN <<>> ELSE Keep(f[s \ {Max(s)}], ops[Max(s)], m)]
           F == CHOOSE f : P(f)
<1>1. After(ops, m) = F[DOMAIN ops]
  BY DEF After, Keep, FoldLeft, MapThenFoldSet
<1>2. n \in Nat /\ DOMAIN ops = 1 .. n
  BY DEF IsSequence
<1>3. \E f : P(f)
  <2>1. \E f : IsAfterFold(f, m, ops, n)
    BY <1>2, AfterFoldExists
  <2>2. \A f : IsAfterFold(f, m, ops, n) => P(f)
    BY <1>2, Zenon DEF IsAfterFold
  <2> QED BY <2>1, <2>2, Zenon
<1>4. P(F)
  <2> HIDE DEF P
  <2> QED BY <1>3, Zenon
<1> DEFINE h == [k \in 0 .. n |-> F[1 .. k]]
<1> HIDE DEF F
<1>5. h[0] = <<>>
  <2>1. 1 .. 0 = {} /\ {} \in SUBSET DOMAIN ops
    OBVIOUS
  <2>2. F[{}] = <<>>
    BY <2>1, <1>4, Zenon
  <2> QED BY <2>1, <2>2, <1>2
<1>6. ASSUME NEW k \in 1 .. n
      PROVE  h[k] = Keep(h[k - 1], ops[k], m)
  <2>1. k \in Nat /\ k - 1 \in Nat /\ (k - 1) + 1 = k /\ k \in 1 .. k
    BY <1>2
  <2>2. Max(1 .. k) = k
    BY <2>1, MaxFacts
  <2>3. (1 .. k) \ {k} = 1 .. k - 1 /\ 1 .. k # {} /\ 1 .. k \in SUBSET DOMAIN ops
    BY <1>2, <2>1
  <2>4. F[1 .. k] = Keep(F[(1 .. k) \ {Max(1 .. k)}], ops[Max(1 .. k)], m)
    BY <1>4, <2>3, Zenon
  <2>5. F[1 .. k] = Keep(F[1 .. k - 1], ops[k], m)
    BY <2>2, <2>3, <2>4, Zenon
  <2>6. h[k] = F[1 .. k] /\ h[k - 1] = F[1 .. k - 1]
    BY <1>2, <2>1
  <2> HIDE DEF h
  <2> QED BY <2>5, <2>6, Zenon
<1>7. h[n] = F[DOMAIN ops]
  BY <1>2
<1> HIDE DEF h
<1> QED BY <1>1, <1>5, <1>6, <1>7, Zenon

-------------------------------------------------------------------------------
(* What the folds come to *)

\* Induction along a trace.
LEMMA AlongTrace ==
  ASSUME NEW n \in Nat, NEW S, 0 \in S, \A k \in 1 .. n : k - 1 \in S => k \in S
  PROVE  \A k \in 0 .. n : k \in S
<1> DEFINE T == {k \in Nat : k <= n => k \in S}
<1>1. 0 \in T
  OBVIOUS
<1>2. ASSUME NEW k \in Nat, k \in T
      PROVE  k + 1 \in T
  <2> SUFFICES ASSUME k + 1 <= n
               PROVE  k + 1 \in S
    OBVIOUS
  <2>1. k \in S /\ k + 1 \in 1 .. n /\ (k + 1) - 1 = k
    BY <1>2
  <2> QED BY <2>1
<1> HIDE DEF T
<1>3. Nat \subseteq T
  BY <1>1, <1>2, Induction
<1> QED BY <1>3 DEF T

LEMMA ApplyAllNothing ==
  ASSUME NEW doc
  PROVE  ApplyAll(doc, <<>>) = doc
<1>1. IsSequence(<<>>) /\ Len(<<>>) = 0
  BY DEF IsSequence
<1> QED BY <1>1, ApplyAllTrace

\* The ids on a screen are those of the server's document and of the adds in flight.
AreForms(ops, lists) == IsSequence(ops) /\ \A k \in 1 .. Len(ops) : IsForm(ops[k], lists)

Added(ops) == {ops[k].id : k \in {j \in 1 .. Len(ops) : ops[j].type = "add"}}

LEMMA ApplyAllFacts ==
  ASSUME NEW doc, IsDoc(doc), NEW lists, NEW ops, AreForms(ops, lists)
  PROVE  /\ IsDoc(ApplyAll(doc, ops))
         /\ DOMAIN ApplyAll(doc, ops) \subseteq DOMAIN doc \cup Added(ops)
<1> DEFINE n == Len(ops)
           Good(d) == IsDoc(d) /\ DOMAIN d \subseteq DOMAIN doc \cup Added(ops)
<1>1. n \in Nat /\ IsSequence(ops)
  BY DEF IsSequence, AreForms
<1>2. PICK h : /\ h[0] = doc /\ ApplyAll(doc, ops) = h[n]
               /\ \A k \in 1 .. n : h[k] = Apply(h[k - 1], ops[k])
  BY <1>1, ApplyAllTrace
<1> DEFINE S == {k \in 0 .. n : Good(h[k])}
<1>3. 0 \in S
  BY <1>1, <1>2
<1>4. ASSUME NEW k \in 1 .. n, k - 1 \in S
      PROVE  k \in S
  <2> DEFINE d == h[k - 1]
             e == h[k]
  <2>1. Good(d) /\ e = Apply(d, ops[k]) /\ IsForm(ops[k], lists)
    BY <1>2, <1>4 DEF AreForms
  <2> HIDE DEF d, e
  <2>2. /\ IsDoc(e)
        /\ \A i \in DOMAIN e : i \in DOMAIN d \/ (ops[k].type = "add" /\ i = ops[k].id)
    BY <2>1, ApplyFacts
  <2>3. ops[k].type = "add" => ops[k].id \in Added(ops)
    BY DEF Added
  <2>5. Good(e)
    BY <2>1, <2>2, <2>3
  <2>4. k \in 0 .. n
    BY <1>1
  <2> QED BY <2>4, <2>5 DEF e
<1> HIDE DEF S
<1>5. \A k \in 0 .. n : k \in S
  BY <1>1, <1>3, <1>4, AlongTrace
<1>6. Good(h[n])
  BY <1>1, <1>5 DEF S
<1> QED BY <1>2, <1>6, Zenon

\* Documents that agree but for what U outweighs look the same once U is applied.
Suffix(U, k) == [j \in 1 .. Len(U) - k |-> U[j + k]]

LEMMA ApplyAllAgree ==
  ASSUME NEW s, NEW v, IsDoc(s), IsDoc(v), NEW U, NEW lists, IsBacklog(U, lists), Agree(s, v, U)
  PROVE  ApplyAll(s, U) = ApplyAll(v, U)
<1> DEFINE n == Len(U)
<1>1. n \in Nat /\ IsSequence(U) /\ \A k \in 1 .. n : IsEdit(U[k], lists)
  BY DEF IsSequence, IsBacklog
<1>2. PICK g : /\ g[0] = s /\ ApplyAll(s, U) = g[n]
               /\ \A k \in 1 .. n : g[k] = Apply(g[k - 1], U[k])
  BY <1>1, ApplyAllTrace
<1>3. PICK h : /\ h[0] = v /\ ApplyAll(v, U) = h[n]
               /\ \A k \in 1 .. n : h[k] = Apply(h[k - 1], U[k])
  BY <1>1, ApplyAllTrace
<1>4. ASSUME NEW k \in 0 .. n
      PROVE  /\ Len(Suffix(U, k)) = n - k /\ IsSequence(Suffix(U, k)) /\ IsBacklog(Suffix(U, k), lists)
             /\ \A j \in 1 .. n - k : Suffix(U, k)[j] = U[j + k]
  <2> DEFINE t == Suffix(U, k)
  <2>1. n - k \in Nat /\ DOMAIN t = 1 .. n - k /\ t = [j \in DOMAIN t |-> t[j]]
        /\ \A j \in 1 .. n - k : t[j] = U[j + k] /\ j + k \in 1 .. n
    BY <1>1 DEF Suffix
  <2> HIDE DEF t
  <2>2. Len(t) = n - k /\ IsSequence(t)
    BY <2>1, LenOfFunction
  <2>3. IsBacklog(t, lists)
    BY <1>1, <2>1, <2>2 DEF IsBacklog
  <2> QED BY <2>1, <2>2, <2>3 DEF t
<1> DEFINE Good(d, e, k) == IsDoc(d) /\ IsDoc(e) /\ Agree(d, e, Suffix(U, k))
           S == {k \in 0 .. n : Good(g[k], h[k], k)}
<1>5. 0 \in S
  <2>1. Suffix(U, 0) = U
    BY <1>1 DEF Suffix, IsSequence
  <2> QED BY <1>1, <1>2, <1>3, <2>1
<1>6. ASSUME NEW k \in 1 .. n, k - 1 \in S
      PROVE  k \in S
  <2> DEFINE W == Suffix(U, k - 1)
             V == Suffix(U, k)
             d == g[k - 1]
             e == h[k - 1]
  <2>1. k - 1 \in 0 .. n /\ k \in 0 .. n /\ k \in Nat
    BY <1>1
  <2>2. IsDoc(d) /\ IsDoc(e) /\ Agree(d, e, W)
    BY <1>6
  <2>3. Len(W) = n - (k - 1) /\ IsSequence(W) /\ IsBacklog(W, lists)
        /\ \A j \in 1 .. n - (k - 1) : W[j] = U[j + (k - 1)]
    BY <1>4, <2>1
  <2>4. Len(V) = n - k /\ IsSequence(V) /\ \A j \in 1 .. n - k : V[j] = U[j + k]
    BY <1>4, <2>1
  <2>5. g[k] = Apply(d, U[k]) /\ h[k] = Apply(e, U[k]) /\ IsEdit(U[k], lists)
    BY <1>1, <1>2, <1>3
  <2> HIDE DEF W, V, d, e
  <2>6. W # <<>> /\ W[1] = U[k]
    <3>1. 1 \in 1 .. n - (k - 1) /\ 1 + (k - 1) = k
      BY <1>1, <2>1
    <3>2. Len(W) # 0
      BY <1>1, <2>1, <2>3
    <3> QED BY <2>3, <3>1, <3>2
  <2>7. Tail(W) = V
    <3>1. IsSequence(Tail(W)) /\ Len(Tail(W)) = n - k
          /\ \A j \in 1 .. n - k : Tail(W)[j] = W[j + 1]
      BY <1>1, <2>1, <2>3, <2>6, TailFacts
    <3>2. \A j \in 1 .. n - k : W[j + 1] = V[j]
      <4> TAKE j \in 1 .. n - k
      <4>1. j + 1 \in 1 .. n - (k - 1) /\ (j + 1) + (k - 1) = j + k
        BY <1>1, <2>1
      <4> QED BY <2>3, <2>4, <4>1
    <3> QED BY <2>4, <3>1, <3>2 DEF IsSequence
  <2>8. SameEdit(U[k], W[1])
    BY <2>5, <2>6 DEF SameEdit, IsEdit
  <2>9. Agree(Apply(d, U[k]), Apply(e, U[k]), V)
    BY <2>2, <2>3, <2>5, <2>6, <2>7, <2>8, AgreeAfterEcho
  <2>10. IsForm(U[k], lists)
    BY <2>5 DEF IsForm, IsEdit
  <2>11. IsDoc(Apply(d, U[k])) /\ IsDoc(Apply(e, U[k]))
    BY <2>2, <2>10, ApplyFacts
  <2>12. Good(g[k], h[k], k)
    BY <2>5, <2>9, <2>11 DEF V
  <2> QED BY <2>1, <2>12
<1> HIDE DEF S
<1>7. \A k \in 0 .. n : k \in S
  BY <1>1, <1>5, <1>6, AlongTrace
<1>8. Good(g[n], h[n], n)
  BY <1>1, <1>7 DEF S
<1>9. Len(Suffix(U, n)) = 0
  BY <1>1, <1>4
<1>10. g[n] = h[n]
  BY <1>8, <1>9, AgreeOnNothing
<1> QED BY <1>2, <1>3, <1>10

\* The walk of a remote op over pending: r has the forms it takes, and pending becomes
\* what each form makes of the op it meets.
IsWalk(r, ops, op) ==
  /\ r[0] = op /\ Rebase(ops, op).remote = r[Len(ops)]
  /\ \A k \in 1 .. Len(ops) : r[k] = Transform(r[k - 1], ops[k])
  /\ IsSequence(Rebase(ops, op).rebased) /\ Len(Rebase(ops, op).rebased) = Len(ops)
  /\ \A k \in 1 .. Len(ops) : Rebase(ops, op).rebased[k] = Transform(ops[k], r[k - 1])

LEMMA RebaseWalk ==
  ASSUME NEW ops, IsSequence(ops), NEW op
  PROVE  \E r : IsWalk(r, ops, op)
<1> DEFINE n == Len(ops)
<1>1. n \in Nat
  BY DEF IsSequence
<1>2. PICK h : /\ h[0] = [remote |-> op, rebased |-> <<>>] /\ Rebase(ops, op) = h[n]
               /\ \A k \in 1 .. n : h[k] = RebaseOver(h[k - 1], ops[k])
  BY RebaseTrace
<1> DEFINE r == [k \in 0 .. n |-> h[k].remote]
           Good(t, k) == /\ IsSequence(t) /\ Len(t) = k
                         /\ \A j \in 1 .. k : t[j] = Transform(ops[j], r[j - 1])
           S == {k \in 0 .. n : Good(h[k].rebased, k)}
<1>3. r[0] = op /\ r[n] = Rebase(ops, op).remote
  BY <1>1, <1>2
<1>4. ASSUME NEW k \in 1 .. n
      PROVE  /\ r[k] = Transform(r[k - 1], ops[k])
             /\ h[k].rebased = Append(h[k - 1].rebased, Transform(ops[k], r[k - 1]))
  <2>1. k \in 0 .. n /\ k - 1 \in 0 .. n
    BY <1>1
  <2>2. h[k] = RebaseOver(h[k - 1], ops[k])
    BY <1>2
  <2> QED BY <2>1, <2>2 DEF RebaseOver
<1> HIDE DEF r
<1>5. 0 \in S
  <2>1. IsSequence(<<>>) /\ Len(<<>>) = 0
    BY DEF IsSequence
  <2>2. h[0].rebased = <<>>
    BY <1>2
  <2> QED BY <1>1, <2>1, <2>2
<1>6. ASSUME NEW k \in 1 .. n, k - 1 \in S
      PROVE  k \in S
  <2> DEFINE t == h[k - 1].rebased
             e == h[k].rebased
             x == Transform(ops[k], r[k - 1])
  <2>1. Good(t, k - 1) /\ e = Append(t, x) /\ k \in 0 .. n
    BY <1>1, <1>4, <1>6
  <2> HIDE DEF t, e
  <2>2. IsSequence(e) /\ Len(e) = Len(t) + 1 /\ e[Len(t) + 1] = x /\ \A j \in 1 .. Len(t) : e[j] = t[j]
    BY <2>1, AppendFacts
  <2>3. Good(e, k)
    BY <1>1, <2>1, <2>2
  <2> QED BY <2>1, <2>3 DEF e
<1> HIDE DEF S
<1>7. \A k \in 0 .. n : k \in S
  BY <1>1, <1>5, <1>6, AlongTrace
<1>8. Good(h[n].rebased, n)
  BY <1>1, <1>7 DEF S
<1>9. h[n].rebased = Rebase(ops, op).rebased
  BY <1>2
<1>10. IsWalk(r, ops, op)
  BY <1>3, <1>4, <1>8, <1>9 DEF IsWalk
<1> QED BY <1>10

\* Rebasing keeps the stamps and the forms of all ops, and turns no add into one that is
\* later than the ops it met.
MadeBy(ops, time) == \A k \in 1 .. Len(ops) : ops[k].lamport <= time

\* What rebasing leaves alone.
SameOps(new, ops) ==
  /\ Len(new) = Len(ops)
  /\ \A k \in 1 .. Len(ops) :
       /\ new[k].lamport = ops[k].lamport /\ new[k].clientSeq = ops[k].clientSeq
       /\ new[k].type # "noop" => ops[k].type # "noop" /\ new[k].id = ops[k].id

LEMMA RebaseFacts ==
  ASSUME NEW lists, NEW ops, AreForms(ops, lists),
         NEW op, IsForm(op, lists), NEW time \in Nat, op.lamport <= time, MadeBy(ops, time),
         op.type = "add" => op.shape.updatedAt <= time
  PROVE  LET walk == Rebase(ops, op) IN
         /\ IsForm(walk.remote, lists) /\ walk.remote.lamport = op.lamport
         /\ walk.remote.type # "noop" => walk.remote.type = op.type /\ walk.remote.id = op.id
         /\ walk.remote.type = "add" => walk.remote.shape.updatedAt <= time
         /\ AreForms(walk.rebased, lists) /\ SameOps(walk.rebased, ops)
<1>a. IsSequence(ops)
  BY DEF AreForms
<1>b. PICK r : IsWalk(r, ops, op)
  BY <1>a, RebaseWalk
<1> DEFINE n == Len(ops)
           walk == Rebase(ops, op)
<1>1. n \in Nat
  BY <1>a DEF IsSequence
<1>2. /\ r[0] = op /\ walk.remote = r[n]
      /\ \A k \in 1 .. n : r[k] = Transform(r[k - 1], ops[k])
      /\ IsSequence(walk.rebased) /\ Len(walk.rebased) = n
      /\ \A k \in 1 .. n : walk.rebased[k] = Transform(ops[k], r[k - 1])
  BY <1>b DEF IsWalk
<1> HIDE DEF walk
<1> DEFINE Good(e) == /\ IsForm(e, lists) /\ e.lamport = op.lamport
                      /\ e.type # "noop" => e.type = op.type /\ e.id = op.id
                      /\ e.type = "add" => e.shape.updatedAt <= time
           S == {k \in 0 .. n : Good(r[k])}
<1>3. 0 \in S
  BY <1>1, <1>2
<1>4. ASSUME NEW k \in 1 .. n, k - 1 \in S
      PROVE  k \in S
  <2> DEFINE a == r[k - 1]
             c == r[k]
  <2>1. Good(a) /\ c = Transform(a, ops[k]) /\ IsForm(ops[k], lists) /\ ops[k].lamport <= time
    BY <1>2, <1>4 DEF AreForms, MadeBy
  <2> HIDE DEF a, c
  <2>2. /\ IsForm(c, lists) /\ c.lamport = a.lamport
        /\ c.type # "noop" => c.type = a.type /\ c.id = a.id
        /\ c.type = "add" => c.shape.updatedAt = a.shape.updatedAt
                \/ c.shape.updatedAt = Larger(a.shape.updatedAt, Larger(a.lamport, ops[k].lamport))
    BY <2>1, TransformFacts
  <2>3. ASSUME c.type = "add"
        PROVE  c.shape.updatedAt <= time
    <3>1. a.type = "add" /\ a.shape.updatedAt <= time
      BY <2>1, <2>2, <2>3
    <3>2. a.shape.updatedAt \in Nat /\ a.lamport \in Nat /\ ops[k].lamport \in Nat
      BY <2>1, <3>1 DEF IsForm, IsEdit, IsDrawable
    <3>3. Larger(a.lamport, ops[k].lamport) \in Nat /\ Larger(a.lamport, ops[k].lamport) <= time
      BY <2>1, <3>2, LargerFacts
    <3>4. Larger(a.shape.updatedAt, Larger(a.lamport, ops[k].lamport)) <= time
      BY <3>1, <3>2, <3>3, LargerFacts
    <3> QED BY <2>2, <2>3, <3>1, <3>4
  <2>4. Good(c) /\ k \in 0 .. n
    <3>1. c.type # "noop" => c.type = op.type /\ c.id = op.id
      BY <2>1, <2>2
    <3> QED BY <1>1, <2>1, <2>2, <2>3, <3>1
  <2> QED BY <2>4 DEF c
<1> HIDE DEF S
<1>5. \A k \in 0 .. n : k \in S
  BY <1>1, <1>3, <1>4, AlongTrace
<1>6. Good(walk.remote)
  BY <1>1, <1>2, <1>5 DEF S
<1>7. ASSUME NEW k \in 1 .. n
      PROVE  LET c == walk.rebased[k] IN
             /\ IsForm(c, lists) /\ c.lamport = ops[k].lamport /\ c.clientSeq = ops[k].clientSeq
             /\ c.type # "noop" => ops[k].type # "noop" /\ c.id = ops[k].id
  <2>1. IsForm(r[k - 1], lists)
    BY <1>1, <1>5 DEF S
  <2>2. walk.rebased[k] = Transform(ops[k], r[k - 1])
    BY <1>2
  <2>3. IsForm(ops[k], lists)
    BY DEF AreForms
  <2> DEFINE a == ops[k]
             b == r[k - 1]
             c == walk.rebased[k]
  <2>4. IsForm(a, lists) /\ IsForm(b, lists) /\ c = Transform(a, b)
    BY <2>1, <2>2, <2>3
  <2> HIDE DEF a, b, c
  <2>5. /\ IsForm(c, lists) /\ c.lamport = a.lamport /\ c.clientSeq = a.clientSeq
        /\ c.type # "noop" => c.type = a.type /\ c.id = a.id
    BY <2>4, TransformFacts
  <2>6. c.type # "noop" => a.type # "noop" /\ c.id = a.id
    BY <2>5
  <2> QED BY <2>5, <2>6, Zenon DEF a, c
<1>8. AreForms(walk.rebased, lists) /\ SameOps(walk.rebased, ops)
  BY <1>2, <1>7 DEF AreForms, SameOps
<1> QED BY <1>6, <1>8 DEF walk

\* Against edits that nobody else has seen, a remote op loses only what they outweigh,
\* and they stay the edits they were.
AreDerived(ops, U) == Len(ops) = Len(U) /\ \A k \in 1 .. Len(U) : Derived(ops[k], U[k])

Mentions(U, i) == \E k \in 1 .. Len(U) : U[k].id = i

LEMMA RebaseFate ==
  ASSUME NEW lists, NEW U, IsBacklog(U, lists), NEW ops, AreForms(ops, lists), AreDerived(ops, U),
         NEW b, IsEdit(b, lists), b.type = "add" => ~Mentions(U, b.id)
  PROVE  LET walk == Rebase(ops, b) IN
         Fate(walk.remote, b, U) /\ AreDerived(walk.rebased, U)
<1>a. IsSequence(ops) /\ Len(ops) = Len(U)
      /\ \A k \in 1 .. Len(U) : IsForm(ops[k], lists) /\ Derived(ops[k], U[k])
  BY DEF AreForms, AreDerived
<1>b. PICK r : IsWalk(r, ops, b)
  BY <1>a, RebaseWalk
<1> DEFINE n == Len(U)
           walk == Rebase(ops, b)
<1>1. n \in Nat
  BY <1>a DEF IsSequence
<1>2. /\ r[0] = b /\ walk.remote = r[n]
      /\ \A k \in 1 .. n : r[k] = Transform(r[k - 1], ops[k])
      /\ IsSequence(walk.rebased) /\ Len(walk.rebased) = n
      /\ \A k \in 1 .. n : walk.rebased[k] = Transform(ops[k], r[k - 1])
  BY <1>a, <1>b DEF IsWalk
<1> HIDE DEF walk
<1> DEFINE Good(e) == IsForm(e, lists) /\ Fate(e, b, U)
           S == {k \in 0 .. n : Good(r[k])}
<1>3. 0 \in S
  <2>1. IsForm(b, lists)
    BY DEF IsForm, IsEdit
  <2> QED BY <1>1, <1>2, <2>1, FateOfItself
<1>4. ASSUME NEW k \in 1 .. n, k - 1 \in S
      PROVE  k \in S
  <2> DEFINE a == r[k - 1]
             c == r[k]
             p == ops[k]
  <2>1. Good(a) /\ c = Transform(a, p) /\ IsForm(p, lists) /\ Derived(p, U[k]) /\ k \in 0 .. n
    BY <1>a, <1>1, <1>2, <1>4
  <2>2. b.type = "add" => p.type = "noop" \/ p.id # b.id
    BY <2>1 DEF Derived, Mentions
  <2> HIDE DEF a, c, p
  <2>3. Fate(Transform(a, p), b, U)
    BY <2>1, <2>2, FateOverNext
  <2>4. IsForm(c, lists)
    BY <2>1, TransformFacts
  <2>5. Good(c)
    BY <2>1, <2>3, <2>4
  <2> QED BY <2>1, <2>5 DEF c
<1> HIDE DEF S
<1>5. \A k \in 0 .. n : k \in S
  BY <1>1, <1>3, <1>4, AlongTrace
<1>6. Fate(walk.remote, b, U)
  BY <1>1, <1>2, <1>5 DEF S
<1>7. ASSUME NEW k \in 1 .. n
      PROVE  Derived(walk.rebased[k], U[k])
  <2>1. IsForm(r[k - 1], lists)
    BY <1>1, <1>5 DEF S
  <2>2. walk.rebased[k] = Transform(ops[k], r[k - 1])
    BY <1>2
  <2>3. IsForm(ops[k], lists) /\ Derived(ops[k], U[k])
    BY <1>a
  <2> QED BY <2>1, <2>2, <2>3, DerivedTransform
<1> QED BY <1>2, <1>6, <1>7 DEF walk, AreDerived

\* What an echo leaves of pending is a part of it.
PartOf(t, ops) == IsSequence(t) /\ \A j \in 1 .. Len(t) : \E k \in 1 .. Len(ops) : t[j] = ops[k]

LEMMA AfterFacts ==
  ASSUME NEW ops, IsSequence(ops), NEW m
  PROVE  PartOf(After(ops, m), ops)
<1> DEFINE n == Len(ops)
           Good(t) == IsSequence(t) /\ \A j \in 1 .. Len(t) : \E k \in 1 .. n : t[j] = ops[k]
<1>1. n \in Nat
  BY DEF IsSequence
<1>2. PICK h : /\ h[0] = <<>> /\ After(ops, m) = h[n]
               /\ \A k \in 1 .. n : h[k] = Keep(h[k - 1], ops[k], m)
  BY AfterTrace
<1> DEFINE S == {k \in 0 .. n : Good(h[k])}
<1>3. 0 \in S
  <2>1. IsSequence(<<>>) /\ Len(<<>>) = 0
    BY DEF IsSequence
  <2> QED BY <1>1, <1>2, <2>1
<1>4. ASSUME NEW k \in 1 .. n, k - 1 \in S
      PROVE  k \in S
  <2> DEFINE t == h[k - 1]
             e == h[k]
  <2>1. Good(t) /\ e = Keep(t, ops[k], m) /\ k \in 0 .. n
    BY <1>1, <1>2, <1>4
  <2> HIDE DEF t, e
  <2>2. CASE ops[k].clientSeq > m
    <3>1. e = Append(t, ops[k])
      BY <2>1, <2>2 DEF Keep
    <3>2. IsSequence(e) /\ Len(e) = Len(t) + 1 /\ e[Len(t) + 1] = ops[k]
          /\ \A j \in 1 .. Len(t) : e[j] = t[j]
      BY <2>1, <3>1, AppendFacts
    <3>3. \A j \in 1 .. Len(e) : j \in 1 .. Len(t) \/ j = Len(t) + 1
      BY <2>1, <3>2 DEF IsSequence
    <3>4. Good(e)
      BY <2>1, <2>2, <3>2, <3>3
    <3> QED BY <2>1, <3>4 DEF e
  <2>3. CASE ~(ops[k].clientSeq > m)
    <3>1. e = t
      BY <2>1, <2>3 DEF Keep
    <3> QED BY <2>1, <3>1 DEF e
  <2> QED BY <2>2, <2>3
<1> HIDE DEF S
<1>5. \A k \in 0 .. n : k \in S
  BY <1>1, <1>3, <1>4, AlongTrace
<1>6. Good(h[n])
  BY <1>1, <1>5 DEF S
<1> QED BY <1>2, <1>6 DEF PartOf

\* If it answers the first op that is pending, it leaves all the others.
NumberedFrom(ops, m) == \A k \in 1 .. Len(ops) : ops[k].clientSeq = m + (k - 1)

LEMMA AfterFirst ==
  ASSUME NEW ops, IsSequence(ops), ops # <<>>, NEW m \in Nat, NumberedFrom(ops, m)
  PROVE  After(ops, m) = Tail(ops)
<1> DEFINE n == Len(ops)
           Good(t, k) == /\ IsSequence(t) /\ Len(t) = IF k = 0 THEN 0 ELSE k - 1
                         /\ \A j \in 1 .. Len(t) : t[j] = ops[j + 1]
<1>1. n \in Nat /\ n >= 1
  BY TailFacts DEF IsSequence
<1>2. PICK h : /\ h[0] = <<>> /\ After(ops, m) = h[n]
               /\ \A k \in 1 .. n : h[k] = Keep(h[k - 1], ops[k], m)
  BY AfterTrace
<1> DEFINE S == {k \in 0 .. n : Good(h[k], k)}
<1>3. 0 \in S
  <2>1. IsSequence(<<>>) /\ Len(<<>>) = 0
    BY DEF IsSequence
  <2> QED BY <1>1, <1>2, <2>1
<1>4. ASSUME NEW k \in 1 .. n, k - 1 \in S
      PROVE  k \in S
  <2> DEFINE t == h[k - 1]
             e == h[k]
  <2>1. Good(t, k - 1) /\ e = Keep(t, ops[k], m) /\ k \in 0 .. n /\ k \in Nat /\ k >= 1
    BY <1>1, <1>2, <1>4
  <2> HIDE DEF t, e
  <2>2. CASE k = 1
    <3>1. e = t
      <4>1. ops[1].clientSeq = m
        BY <1>1, SMTT(30) DEF NumberedFrom
      <4> QED BY <2>1, <2>2, <4>1 DEF Keep
    <3>2. Good(e, k)
      BY <2>1, <2>2, <3>1
    <3> QED BY <2>1, <3>2 DEF e
  <2>3. CASE k > 1
    <3>1. e = Append(t, ops[k])
      <4>1. ops[k].clientSeq > m
        BY <2>1, <2>3 DEF NumberedFrom
      <4> QED BY <2>1, <4>1 DEF Keep
    <3>2. Len(t) = k - 2
      BY <2>1, <2>3
    <3>3. IsSequence(e) /\ Len(e) = k - 1 /\ e[k - 1] = ops[k]
          /\ \A j \in 1 .. Len(t) : e[j] = t[j]
      <4>1. IsSequence(e) /\ Len(e) = Len(t) + 1 /\ e[Len(t) + 1] = ops[k]
            /\ \A j \in 1 .. Len(t) : e[j] = t[j]
        BY <2>1, <3>1, AppendFacts
      <4>2. Len(t) + 1 = k - 1
        BY <2>1, <3>2
      <4> QED BY <4>1, <4>2
    <3>4. \A j \in 1 .. Len(e) : j \in 1 .. Len(t) \/ (j = k - 1 /\ j + 1 = k)
      BY <2>1, <3>2, <3>3
    <3>5. Good(e, k)
      BY <2>1, <2>3, <3>3, <3>4
    <3> QED BY <2>1, <3>5 DEF e
  <2> QED BY <2>1, <2>2, <2>3
<1> HIDE DEF S
<1>5. \A k \in 0 .. n : k \in S
  BY <1>1, <1>3, <1>4, AlongTrace
<1>6. Good(h[n], n)
  BY <1>1, <1>5 DEF S
<1>7. IsSequence(Tail(ops)) /\ Len(Tail(ops)) = n - 1 /\ \A j \in 1 .. n - 1 : Tail(ops)[j] = ops[j + 1]
  BY TailFacts
<1>8. IsSequence(h[n]) /\ Len(h[n]) = n - 1 /\ \A j \in 1 .. n - 1 : h[n][j] = ops[j + 1]
  BY <1>1, <1>6
<1>9. h[n] = Tail(ops)
  <2> DEFINE t == h[n]
             u == Tail(ops)
  <2>1. IsSequence(t) /\ IsSequence(u) /\ Len(t) = n - 1 /\ Len(u) = n - 1
        /\ \A j \in 1 .. n - 1 : t[j] = u[j]
    BY <1>7, <1>8
  <2> HIDE DEF t, u
  <2>2. t = u
    BY <2>1 DEF IsSequence
  <2> QED BY <2>2 DEF t, u
<1> QED BY <1>2, <1>9

================================================================================
