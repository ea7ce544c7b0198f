---------------------------- MODULE Presence_proofs ----------------------------
(***************************************************************************)
(* Theorems about Presence, for any connections, tokens, users, messages   *)
(* and bounds.                                                             *)
(***************************************************************************)
EXTENDS Presence, FiniteSetTheorems, SequenceTheorems, TLAPS

\* The messages of the page, and of the server.
UpMsgs == [type : {"hello"}, token : Tokens, n : {1, 2}] \cup [type : Messages]
DownMsgs == [type : {"welcome"}, peers : SUBSET Users]
            \cup [type : {"peer"}, user : Users, joined : BOOLEAN]
            \cup [type : {"cursor"}, user : Users]

\* The users connection c may have.
UsersOf(c) == Names(c) \cup {<<c, 1>>, <<c, 2>>}

\* A hello that waits.
Waiting == [token : Tokens, n : {1, 2}, stage : {"verify", "room"}]

\* The types of the variables, channels and users included.
TypeInv ==
  /\ requireAuth \in BOOLEAN
  /\ link \in [Conns -> {"none", "up", "leaving", "lost", "gone"}]
  /\ ready \in [Conns -> {"none", "open", "closing", "closed"}]
  /\ joined \in [Conns -> BOOLEAN] /\ alive \in [Conns -> BOOLEAN]
  /\ pending \in [Conns -> Seq(Waiting)]
  /\ userId \in [Conns -> Users \cup {NoUser}] /\ session \in [Conns -> Users \cup {NoUser}]
  /\ members \subseteq Conns
  /\ up \in [Conns -> Seq(UpMsgs)] /\ down \in [Conns -> Seq(DownMsgs)]
  /\ peers \in [Conns -> SUBSET Users] /\ cursors \in [Conns -> SUBSET Users]
  /\ shown \in [Conns -> SUBSET Tokens] /\ replaced \subseteq Users
  /\ said \in [Conns -> [hello : Nat, other : Nat]]
  /\ \A c \in Conns : said[c].hello <= MaxHellos[c] /\ said[c].other <= MaxSays[c]

\* Who is joined has a user of its own, and is a member until it closes; who is not a
\* member has been told nothing; and a connection that was not dialed has done nothing.
Door(c) ==
  /\ joined[c] <=> session[c] # NoUser
  /\ joined[c] => session[c] \in UsersOf(c)
  /\ c \in members => joined[c]
  /\ joined[c] /\ ready[c] # "closed" => c \in members
  /\ c \notin members /\ Reachable(c) => down[c] = <<>> /\ peers[c] = {} /\ cursors[c] = {}
  /\ link[c] = "none" => /\ ~joined[c] /\ up[c] = <<>> /\ pending[c] = <<>> /\ down[c] = <<>>
                         /\ peers[c] = {} /\ cursors[c] = {}
DoorInv == \A c \in Conns : Door(c)

\* A hello is on its way, or is being verified, or was answered.
Hellos(s) == {i \in 1 .. Len(s) : s[i].type = "hello"}
HelloInv == \A c \in Conns : Cardinality(Hellos(up[c])) + Len(pending[c]) <= said[c].hello

\* A token that c has shown, good for this room, names user u.
GoodFor(c, u) == \E t \in shown[c] : t.kind = "good" /\ u = <<t.user, 0>>

\* A hello of c that waits came with a token that c has shown, and at its second await
\* userId has been set.
WaitingOf(c) ==
  {w \in Waiting : w.token \in TokensOf[c] /\ w.token \in shown[c]
                   /\ (w.stage = "room" => userId[c] # NoUser)}

\* Where authentication is required, whatever userId is, whoever set it: c has shown a
\* token for it; so it is a user with which to be let in, before and after.
Ident(c) ==
  /\ pending[c] \in Seq(WaitingOf(c))
  /\ userId[c] # NoUser => userId[c] \in UsersOf(c) /\ (requireAuth => GoodFor(c, userId[c]))
  /\ joined[c] /\ requireAuth => GoodFor(c, session[c])
IdentInv == \A c \in Conns : Ident(c)

\* The hellos on their way carry what the connection may show.
UpInv ==
  \A c \in Conns : \A i \in 1 .. Len(up[c]) :
    up[c][i].type = "hello" => up[c][i].token \in TokensOf[c]

\* Whether user u is shown after the first k of the messages s, by a page that shows the
\* users in before.
Shown(s, k, u, before) ==
  LET about == {i \in 1 .. k : About(s[i], u)}
  IN  IF about = {} THEN u \in before
      ELSE \E i \in about : (\A j \in about : j <= i) /\ Shows(s[i], u)

\* What PeersFollowMembers says of a member.
Follows(c) ==
  \A u \in Users :
    LET isMember == u \in {session[d] : d \in members \ {c}}
        isShown  == Shown(down[c], Len(down[c]), u, peers[c])
    IN  (isShown /\ ~isMember => u \in replaced) /\ (isMember /\ ~isShown => u \in Shared)

FollowInv == \A c \in members : Reachable(c) => Follows(c)

\* Wherever a page has got to with the messages on their way, a cursor that comes is of
\* somebody it shows then, and a second welcome has everybody it showed before.
Cursor(c, u) ==
  /\ u \in cursors[c] => u \in peers[c]
  /\ \A i \in 1 .. Len(down[c]) :
       LET m == down[c][i]
           isShown == Shown(down[c], i - 1, u, peers[c])
       IN  /\ m.type = "cursor" /\ m.user = u => isShown
           /\ m.type = "welcome" /\ isShown => u \in m.peers

CursorInv == \A c \in Conns : \A u \in Users \ (Shared \cup replaced) : Cursor(c, u)

IInv == TypeInv /\ DoorInv /\ HelloInv /\ IdentInv /\ UpInv /\ FollowInv /\ CursorInv

-------------------------------------------------------------------------------
(* Facts about messages and users *)

\* A message more: it decides what it is about, and what is shown before it stays.
LEMMA ShownAppend ==
  ASSUME NEW S, NEW s \in Seq(S), NEW m \in S, NEW u, NEW before
  PROVE  /\ \A k \in 0 .. Len(s) : Shown(Append(s, m), k, u, before) <=> Shown(s, k, u, before)
         /\ Shown(Append(s, m), Len(s) + 1, u, before)
              <=> IF About(m, u) THEN Shows(m, u) ELSE Shown(s, Len(s), u, before)
<1> DEFINE t == Append(s, m)
<1>1. Len(s) \in Nat /\ t[Len(s) + 1] = m /\ \A i \in 1 .. Len(s) : t[i] = s[i]
  BY AppendProperties, LenProperties
<1> HIDE DEF t
<1>2. ASSUME NEW k \in 0 .. Len(s) PROVE Shown(t, k, u, before) <=> Shown(s, k, u, before)
  <2>1. {i \in 1 .. k : About(t[i], u)} = {i \in 1 .. k : About(s[i], u)}
    BY <1>1
  <2>2. \A i \in 1 .. k : t[i] = s[i]
    BY <1>1
  <2> QED BY <2>1, <2>2 DEF Shown
<1>3. CASE About(m, u)
  <2> DEFINE about == {i \in 1 .. Len(s) + 1 : About(t[i], u)}
  <2>1. Len(s) + 1 \in about /\ \A i \in about : i <= Len(s) + 1
    BY <1>1, <1>3
  <2>2. \A i \in about : (\A j \in about : j <= i) => i = Len(s) + 1
    BY <2>1, <1>1
  <2> HIDE DEF about
  <2>3. Shown(t, Len(s) + 1, u, before) <=> \E i \in about : (\A j \in about : j <= i) /\ Shows(t[i], u)
    BY <2>1 DEF Shown, about
  <2>4. Shown(t, Len(s) + 1, u, before) <=> Shows(m, u)
    BY <1>1, <2>1, <2>2, <2>3
  <2> QED BY <1>2, <1>3, <2>4 DEF t
<1>4. CASE ~About(m, u)
  <2>1. {i \in 1 .. Len(s) + 1 : About(t[i], u)} = {i \in 1 .. Len(s) : About(t[i], u)}
    BY <1>1, <1>4
  <2>2. Shown(t, Len(s) + 1, u, before) <=> Shown(t, Len(s), u, before)
    BY <2>1 DEF Shown
  <2> QED BY <1>1, <1>2, <1>4, <2>2 DEF t
<1> QED BY <1>3, <1>4

\* The first message taken off and obeyed: what comes after it shows the same.
LEMMA ShownTail ==
  ASSUME NEW S, NEW s \in Seq(S), s # <<>>, NEW u, NEW before, NEW after,
         u \in after <=> IF About(Head(s), u) THEN Shows(Head(s), u) ELSE u \in before,
         NEW k \in 0 .. Len(s) - 1
  PROVE  Shown(Tail(s), k, u, after) <=> Shown(s, k + 1, u, before)
<1> DEFINE t == Tail(s)
           late == {i \in 1 .. k : About(t[i], u)}
           all  == {i \in 1 .. k + 1 : About(s[i], u)}
<1>1. /\ Len(s) \in Nat \ {0} /\ Len(t) = Len(s) - 1
      /\ \A i \in 1 .. Len(s) - 1 : t[i] = s[i + 1]
      /\ Head(s) = s[1]
  BY HeadTailProperties, LenProperties, EmptySeq
<1> HIDE DEF t
<1>2. \A i \in Nat : i \in late <=> i + 1 \in all /\ i >= 1
  BY <1>1
<1>3. 1 \in all <=> About(Head(s), u)
  BY <1>1
<1>4. all \subseteq 1 .. k + 1 /\ late \subseteq 1 .. k /\ k \in Nat /\ k + 1 <= Len(s)
  BY <1>1
<1>5. CASE late = {}
  <2>1. \A i \in all : i = 1
    <3>1. \A i \in all : i - 1 \in Nat /\ (i - 1) + 1 = i
      BY <1>4
    <3>2. \A i \in all : ~(i - 1 >= 1)
      BY <3>1, <1>2, <1>5
    <3> QED BY <3>1, <3>2
  <2>2. Shown(t, k, u, after) <=> u \in after
    BY <1>5 DEF Shown
  <2>3. CASE About(Head(s), u)
    <3>1. all = {1}
      BY <1>3, <2>1, <2>3
    <3>2. Shown(s, k + 1, u, before) <=> Shows(s[1], u)
      BY <3>1 DEF Shown
    <3> QED BY <1>1, <2>2, <2>3, <3>2 DEF t
  <2>4. CASE ~About(Head(s), u)
    <3>1. all = {}
      BY <1>3, <2>1, <2>4
    <3>2. Shown(s, k + 1, u, before) <=> u \in before
      BY <3>1 DEF Shown
    <3> QED BY <2>2, <2>4, <3>2 DEF t
  <2> QED BY <2>3, <2>4
<1>6. CASE late # {}
  <2>1. all # {}
    BY SMTT(30), <1>2, <1>4, <1>6
  <2> HIDE DEF late, all
  <2>2. Shown(t, k, u, after) <=> \E i \in late : (\A j \in late : j <= i) /\ Shows(t[i], u)
    BY <1>6 DEF Shown, late
  <2>3. Shown(s, k + 1, u, before) <=> \E i \in all : (\A j \in all : j <= i) /\ Shows(s[i], u)
    BY <2>1 DEF Shown, all
  <2>4. ASSUME NEW i \in late, \A j \in late : j <= i, Shows(t[i], u)
        PROVE  \E h \in all : (\A j \in all : j <= h) /\ Shows(s[h], u)
    <3>1. i + 1 \in all /\ t[i] = s[i + 1]
      BY <1>1, <1>2, <1>4
    <3>2. ASSUME NEW j \in all PROVE j <= i + 1
      <4>1. CASE j = 1
        BY <1>4, <4>1
      <4>2. CASE j # 1
        <5>1. j - 1 \in Nat /\ j - 1 >= 1 /\ (j - 1) + 1 = j
          BY <1>4, <4>2
        <5>2. j - 1 \in late
          BY <1>2, <5>1
        <5> QED BY <1>4, <2>4, <5>1, <5>2
      <4> QED BY <4>1, <4>2
    <3> QED BY <2>4, <3>1, <3>2
  <2>5. ASSUME NEW h \in all, \A j \in all : j <= h, Shows(s[h], u)
        PROVE  \E i \in late : (\A j \in late : j <= i) /\ Shows(t[i], u)
    <3>1. PICK i \in late : TRUE
      BY <1>6
    <3>2. i + 1 \in all /\ i >= 1
      BY <1>2, <1>4
    <3>3. h - 1 \in Nat /\ h - 1 >= 1 /\ (h - 1) + 1 = h
      BY <1>4, <2>5, <3>2
    <3>4. h - 1 \in late /\ t[h - 1] = s[h]
      <4>1. h - 1 \in late
        BY <1>2, <2>5, <3>3
      <4>2. h <= Len(s)
        BY <1>1, <1>4, <2>5
      <4> QED BY <1>1, <3>3, <4>1, <4>2
    <3>5. \A j \in late : j <= h - 1
      BY <1>2, <1>4, <2>5
    <3> QED BY <2>5, <3>4, <3>5
  <2> QED BY <2>2, <2>3, <2>4, <2>5 DEF t
<1> QED BY <1>5, <1>6

\* A hello fewer, a hello more, another message more.
LEMMA HellosFinite ==
  ASSUME NEW s, Len(s) \in Nat
  PROVE  IsFiniteSet(Hellos(s)) /\ Cardinality(Hellos(s)) \in Nat
<1>1. IsFiniteSet(1 .. Len(s)) /\ Hellos(s) \in SUBSET (1 .. Len(s))
  BY FS_Interval DEF Hellos
<1>2. IsFiniteSet(Hellos(s))
  BY <1>1, FS_Subset
<1> QED BY <1>2, FS_CardinalityType

LEMMA HellosTail ==
  ASSUME NEW S, NEW s \in Seq(S), s # <<>>
  PROVE  Cardinality(Hellos(Tail(s)))
           <= Cardinality(Hellos(s)) - (IF Head(s).type = "hello" THEN 1 ELSE 0)
<1> DEFINE t == Tail(s)
           rest == Hellos(s) \ {1}
           f == [i \in Hellos(t) |-> i + 1]
<1>1. /\ Len(s) \in Nat \ {0} /\ Len(t) = Len(s) - 1
      /\ \A i \in 1 .. Len(s) - 1 : t[i] = s[i + 1]
      /\ Head(s) = s[1]
  BY HeadTailProperties, LenProperties, EmptySeq
<1> HIDE DEF t
<1>2. IsFiniteSet(Hellos(s)) /\ Cardinality(Hellos(s)) \in Nat
  BY <1>1, HellosFinite
<1>3. /\ IsFiniteSet(rest)
      /\ Cardinality(rest) = Cardinality(Hellos(s)) - (IF Head(s).type = "hello" THEN 1 ELSE 0)
  <2>1. 1 \in Hellos(s) <=> Head(s).type = "hello"
    BY <1>1 DEF Hellos
  <2>2. /\ IsFiniteSet(rest)
        /\ Cardinality(rest) = IF 1 \in Hellos(s) THEN Cardinality(Hellos(s)) - 1 ELSE Cardinality(Hellos(s))
    BY <1>2, FS_RemoveElement
  <2>3. CASE Head(s).type = "hello"
    BY <2>1, <2>2, <2>3
  <2>4. CASE Head(s).type # "hello"
    BY <1>2, <2>1, <2>2, <2>4
  <2> QED BY <2>3, <2>4
<1>4. f \in Injection(Hellos(t), rest)
  <2>1. \A i \in Hellos(t) : i + 1 \in rest /\ i \in Nat
    BY <1>1 DEF Hellos
  <2>2. f \in [Hellos(t) -> rest]
    BY <2>1
  <2>3. \A i, j \in Hellos(t) : f[i] = f[j] => i = j
    BY <2>1
  <2> QED BY <2>2, <2>3 DEF Injection, IsInjective
<1>5. Cardinality(Hellos(t)) <= Cardinality(rest)
  BY <1>3, <1>4, FS_Injection
<1> QED BY <1>3, <1>5 DEF t

LEMMA HellosAppend ==
  ASSUME NEW S, NEW s \in Seq(S), NEW m \in S
  PROVE  Cardinality(Hellos(Append(s, m)))
           = Cardinality(Hellos(s)) + (IF m.type = "hello" THEN 1 ELSE 0)
<1> DEFINE t == Append(s, m)
<1>1. /\ Len(s) \in Nat /\ Len(t) = Len(s) + 1 /\ t[Len(s) + 1] = m
      /\ \A i \in 1 .. Len(s) : t[i] = s[i]
  BY AppendProperties, LenProperties
<1> HIDE DEF t
<1>2. IsFiniteSet(Hellos(s)) /\ Cardinality(Hellos(s)) \in Nat /\ Len(s) + 1 \notin Hellos(s)
  BY <1>1, HellosFinite DEF Hellos
<1>3. Hellos(t) = IF m.type = "hello" THEN Hellos(s) \cup {Len(s) + 1} ELSE Hellos(s)
  BY <1>1 DEF Hellos
<1>4. Cardinality(Hellos(s) \cup {Len(s) + 1}) = Cardinality(Hellos(s)) + 1
  BY <1>2, FS_AddElement
<1>5. CASE m.type = "hello"
  BY <1>3, <1>4, <1>5 DEF t
<1>6. CASE m.type # "hello"
  BY <1>2, <1>3, <1>6 DEF t
<1> QED BY <1>5, <1>6

LEMMA UsersOfTypes ==
  ASSUME NEW c \in Conns
  PROVE  UsersOf(c) \subseteq Users /\ NoUser \notin UsersOf(c)
<1>1. TokensOf[c] \subseteq Tokens
  BY ConfigAssumption
<1>2. ASSUME NEW t \in TokensOf[c], t.kind \in {"good", "elsewhere"} PROVE t.user \in Subjects
  BY <1>1, <1>2 DEF Tokens, NoToken
<1>3. Names(c) \subseteq Users
  BY <1>2 DEF Names, Users
<1>4. UsersOf(c) \subseteq Users
  BY <1>3 DEF UsersOf, Users
<1>5. NoUser \notin UsersOf(c)
  BY DEF UsersOf, Names, NoUser
<1> QED BY <1>4, <1>5

\* A user of two connections is shared.
LEMMA SharedUsers ==
  ASSUME NEW c \in Conns, NEW d \in Conns, c # d, NEW u \in UsersOf(c), u \in UsersOf(d)
  PROVE  u \in Shared
<1>1. u \in Names(c) /\ u \in Names(d)
  BY DEF UsersOf, Names
<1>2. u \in Users
  BY <1>1, UsersOfTypes DEF UsersOf
<1> QED BY <1>1, <1>2 DEF Shared

LEMMA UserForTypes ==
  ASSUME NEW c \in Conns, NEW w \in Waiting, w.token \in TokensOf[c]
  PROVE  UserFor(c, w) \in UsersOf(c)
<1>1. w.n \in {1, 2}
  BY DEF Waiting
<1>2. CASE w.token.kind \in {"good", "elsewhere"}
  BY <1>2 DEF UserFor, UsersOf, Names
<1>3. CASE w.token.kind \notin {"good", "elsewhere"}
  BY <1>1, <1>3 DEF UserFor, UsersOf
<1> QED BY <1>2, <1>3

\* What the handshake knows of a user is kept where no hello is handled.
LEMMA IdentKeeps ==
  ASSUME IdentInv, UNCHANGED <<requireAuth, joined, pending, userId, session, shown>>
  PROVE  IdentInv'
<1> SUFFICES ASSUME NEW d \in Conns PROVE Ident(d)'
  BY DEF IdentInv
<1>1. Ident(d)
  BY DEF IdentInv
<1>2. \A u : GoodFor(d, u)' <=> GoodFor(d, u)
  BY DEF GoodFor
<1>3. WaitingOf(d)' = WaitingOf(d)
  BY DEF WaitingOf
<1> QED BY <1>1, <1>2, <1>3 DEF Ident

\* The hellos on their way: some fewer, or one more that the connection may send.
LEMMA UpKeeps ==
  ASSUME TypeInv, UpInv, NEW c \in Conns, \A d \in Conns \ {c} : up'[d] = up[d],
         \/ up'[c] = up[c] \/ up'[c] = <<>>
         \/ up[c] # <<>> /\ up'[c] = Tail(up[c])
         \/ \E m \in UpMsgs : /\ m.type = "hello" => m.token \in TokensOf[c]
                              /\ up'[c] = Append(up[c], m) \/ up'[c] = <<m>>
  PROVE  UpInv'
<1>1. up[c] \in Seq(UpMsgs) /\ Len(up[c]) \in Nat
  BY LenProperties DEF TypeInv
<1>2. ASSUME NEW i \in 1 .. Len(up'[c]), up'[c][i].type = "hello"
      PROVE  up'[c][i].token \in TokensOf[c]
  <2>1. CASE up'[c] = up[c]
    BY <1>2, <2>1 DEF UpInv
  <2>2. CASE up'[c] = <<>>
    BY <1>2, <2>2
  <2>3. CASE up[c] # <<>> /\ up'[c] = Tail(up[c])
    <3>1. i + 1 \in 1 .. Len(up[c]) /\ up'[c][i] = up[c][i + 1]
      BY <1>1, <2>3, HeadTailProperties
    <3> QED BY <1>2, <3>1 DEF UpInv
  <2>4. ASSUME NEW m \in UpMsgs, m.type = "hello" => m.token \in TokensOf[c], up'[c] = Append(up[c], m)
        PROVE  up'[c][i].token \in TokensOf[c]
    <3>1. \/ i = Len(up[c]) + 1 /\ up'[c][i] = m
          \/ i \in 1 .. Len(up[c]) /\ up'[c][i] = up[c][i]
      BY <1>1, <2>4, AppendProperties
    <3> QED BY <1>2, <2>4, <3>1 DEF UpInv
  <2>5. ASSUME NEW m \in UpMsgs, m.type = "hello" => m.token \in TokensOf[c], up'[c] = <<m>>
        PROVE  up'[c][i].token \in TokensOf[c]
    BY <1>2, <2>5
  <2>6. CASE \E m \in UpMsgs : /\ m.type = "hello" => m.token \in TokensOf[c]
                               /\ up'[c] = Append(up[c], m) \/ up'[c] = <<m>>
    <3>1. PICK m \in UpMsgs : /\ m.type = "hello" => m.token \in TokensOf[c]
                              /\ up'[c] = Append(up[c], m) \/ up'[c] = <<m>>
      BY <2>6
    <3>2. CASE up'[c] = Append(up[c], m)
      BY <2>4, <3>1, <3>2
    <3>3. CASE up'[c] = <<m>>
      BY <2>5, <3>1, <3>3
    <3> QED BY <3>1, <3>2, <3>3
  <2> QED BY <2>1, <2>2, <2>3, <2>6
<1>3. ASSUME NEW d \in Conns, NEW i \in 1 .. Len(up'[d]), up'[d][i].type = "hello"
      PROVE  up'[d][i].token \in TokensOf[d]
  <2>1. CASE d = c
    BY <1>2, <1>3, <2>1
  <2>2. CASE d # c
    BY <1>3, <2>2 DEF UpInv
  <2> QED BY <2>1, <2>2
<1> QED BY <1>3 DEF UpInv

-------------------------------------------------------------------------------
(* Facts about the two invariants of the pages *)

\* Where nothing changes for a page, nothing changes.
LEMMA PageKeeps ==
  ASSUME NEW c \in Conns,
         down'[c] = down[c], peers'[c] = peers[c], cursors'[c] = cursors[c]
  PROVE  /\ \A u : Cursor(c, u) => Cursor(c, u)'
         /\ UNCHANGED <<members, session, replaced>> /\ Follows(c) => Follows(c)'
BY DEF Cursor, Follows

\* A page to which nothing is on its way.
LEMMA PageEmpty ==
  ASSUME NEW c \in Conns, NEW u, down'[c] = <<>>, u \in cursors'[c] => u \in peers'[c]
  PROVE  Cursor(c, u)'
BY DEF Cursor

\* A message more for a page.
LEMMA PageAppend ==
  ASSUME TypeInv, NEW c \in Conns, NEW m \in DownMsgs, NEW u, Cursor(c, u),
         down'[c] = Append(down[c], m), peers'[c] = peers[c], cursors'[c] = cursors[c],
         m.type = "cursor" /\ m.user = u => Shown(down[c], Len(down[c]), u, peers[c]),
         m.type = "welcome" /\ Shown(down[c], Len(down[c]), u, peers[c]) => u \in m.peers
  PROVE  Cursor(c, u)'
<1> DEFINE s == down[c]
<1>1. s \in Seq(DownMsgs) /\ Len(s) \in Nat /\ Len(Append(s, m)) = Len(s) + 1
      /\ Append(s, m)[Len(s) + 1] = m /\ \A i \in 1 .. Len(s) : Append(s, m)[i] = s[i]
  BY AppendProperties, LenProperties DEF TypeInv
<1>2. \A k \in 0 .. Len(s) :
        Shown(Append(s, m), k, u, peers[c]) <=> Shown(s, k, u, peers[c])
  BY <1>1, ShownAppend
<1>3. ASSUME NEW i \in 1 .. Len(s) + 1
      PROVE  LET n == Append(s, m)[i]
                 isShown == Shown(Append(s, m), i - 1, u, peers[c])
             IN  /\ n.type = "cursor" /\ n.user = u => isShown
                 /\ n.type = "welcome" /\ isShown => u \in n.peers
  <2>1. i - 1 \in 0 .. Len(s)
    BY <1>1
  <2>2. Shown(Append(s, m), i - 1, u, peers[c]) <=> Shown(s, i - 1, u, peers[c])
    BY <1>2, <2>1
  <2>3. CASE i = Len(s) + 1
    BY <1>1, <2>2, <2>3
  <2>4. CASE i \in 1 .. Len(s)
    BY <1>1, <2>2, <2>4 DEF Cursor
  <2> QED BY <1>1, <2>3, <2>4
<1> QED BY <1>1, <1>3 DEF Cursor

\* Steps that leave the pages and the room alone.
LEMMA PagesKeep ==
  ASSUME FollowInv, CursorInv, UNCHANGED <<members, session, replaced, down, peers, cursors>>,
         \A c \in members : Reachable(c)' => Reachable(c), members \subseteq Conns
  PROVE  FollowInv' /\ CursorInv'
<1>1. FollowInv'
  BY PageKeeps DEF FollowInv
<1>2. CursorInv'
  BY PageKeeps DEF CursorInv
<1> QED BY <1>1, <1>2

\* Steps that shut the page of one connection.
LEMMA PagesShut ==
  ASSUME TypeInv, FollowInv, CursorInv, NEW c \in Conns, UNCHANGED <<members, session, replaced>>,
         down'[c] = <<>>, \A u \in cursors'[c] \ peers'[c] : u \in cursors[c] \ peers[c],
         ~Reachable(c)',
         \A d \in Conns \ {c} : /\ down'[d] = down[d] /\ peers'[d] = peers[d] /\ cursors'[d] = cursors[d]
                                /\ Reachable(d)' => Reachable(d)
  PROVE  FollowInv' /\ CursorInv'
<1>1. FollowInv'
  BY PageKeeps DEF FollowInv, TypeInv
<1>2. ASSUME NEW d \in Conns, NEW u \in Users \ (Shared \cup replaced) PROVE Cursor(d, u)'
  <2>1. Cursor(d, u) /\ Cursor(c, u)
    BY DEF CursorInv
  <2>2. CASE d = c
    BY <2>1, <2>2, PageEmpty DEF Cursor
  <2>3. CASE d # c
    BY <2>1, <2>3, PageKeeps
  <2> QED BY <2>2, <2>3
<1>3. CursorInv'
  BY <1>2 DEF CursorInv
<1> QED BY <1>1, <1>3

-------------------------------------------------------------------------------
(* IInv is inductive *)

LEMMA InitIInv == Init => IInv
<1> SUFFICES ASSUME Init PROVE IInv
  OBVIOUS
<1>1. \A c \in Conns : /\ up[c] = <<>> /\ down[c] = <<>> /\ pending[c] = <<>> /\ ~joined[c]
                       /\ userId[c] = NoUser /\ session[c] = NoUser /\ ready[c] = "none" /\ link[c] = "none"
                       /\ peers[c] = {} /\ cursors[c] = {} /\ said[c] = [hello |-> 0, other |-> 0]
  BY DEF Init
<1>2. members = {} /\ replaced = {}
  BY DEF Init
<1>3. TypeInv
  <2>1. \A c \in Conns : MaxHellos[c] \in Nat /\ MaxSays[c] \in Nat
    BY ConfigAssumption
  <2>2. <<>> \in Seq(UpMsgs) /\ <<>> \in Seq(DownMsgs) /\ <<>> \in Seq(Waiting)
    OBVIOUS
  <2>3. [hello |-> 0, other |-> 0] \in [hello : Nat, other : Nat]
    OBVIOUS
  <2> QED BY <1>1, <1>2, <2>1, <2>2, <2>3 DEF Init, TypeInv
<1>4. DoorInv
  BY <1>1, <1>2 DEF DoorInv, Door, Reachable
<1>5. HelloInv
  <2>1. Hellos(<<>>) = {} /\ Len(<<>>) = 0
    BY DEF Hellos
  <2>2. Cardinality(Hellos(<<>>)) = 0
    BY <2>1, FS_EmptySet
  <2>3. ASSUME NEW c \in Conns PROVE Cardinality(Hellos(up[c])) + Len(pending[c]) <= said[c].hello
    <3>1. up[c] = <<>> /\ pending[c] = <<>>
      BY <1>1
    <3>2. said[c].hello = 0
      BY <1>1
    <3> QED BY <2>1, <2>2, <3>1, <3>2
  <2> QED BY <2>3 DEF HelloInv
<1>6. FollowInv /\ CursorInv /\ UpInv
  BY <1>1, <1>2 DEF FollowInv, CursorInv, Cursor, UpInv
<1>7. ASSUME NEW c \in Conns PROVE Ident(c)
  <2>1. \A S : <<>> \in Seq(S)
    OBVIOUS
  <2>2. pending[c] \in Seq(WaitingOf(c))
    BY <1>1, <2>1
  <2> QED BY <1>1, <2>2 DEF Ident
<1> QED BY <1>3, <1>4, <1>5, <1>6, <1>7 DEF IInv, IdentInv

\* A hello more on its way that was counted.
LEMMA HelloSent ==
  ASSUME TypeInv, HelloInv, NEW c \in Conns, NEW m \in UpMsgs, up'[c] = Append(up[c], m),
         UNCHANGED pending,
         said'[c].hello >= said[c].hello + (IF m.type = "hello" THEN 1 ELSE 0),
         said'[c].hello \in Nat,
         \A d \in Conns \ {c} : up'[d] = up[d] /\ said'[d] = said[d]
  PROVE  HelloInv'
<1>1. up[c] \in Seq(UpMsgs) /\ Len(up[c]) \in Nat /\ Len(pending[c]) \in Nat /\ said[c].hello \in Nat
  BY LenProperties DEF TypeInv
<1>2. Cardinality(Hellos(up[c])) \in Nat
  BY <1>1, HellosFinite
<1>3. Cardinality(Hellos(up'[c])) = Cardinality(Hellos(up[c])) + (IF m.type = "hello" THEN 1 ELSE 0)
  BY <1>1, HellosAppend
<1>4. Cardinality(Hellos(up[c])) + Len(pending[c]) <= said[c].hello
  BY DEF HelloInv
<1>5. Cardinality(Hellos(up'[c])) + Len(pending[c]) <= said'[c].hello
  BY <1>1, <1>2, <1>3, <1>4
<1> QED BY <1>5 DEF HelloInv

LEMMA DialStep ==
  ASSUME IInv, NEW c \in Conns, Dial(c)
  PROVE  IInv'
<1>1. PICK token \in TokensOf[c] : up' = [up EXCEPT ![c] = <<HelloMsg(token, 1)>>]
  BY DEF Dial
<1> DEFINE m == HelloMsg(token, 1)
<1>2. m \in UpMsgs /\ m.type = "hello" /\ m.token \in TokensOf[c]
  BY ConfigAssumption DEF UpMsgs, HelloMsg
<1>3. /\ link[c] = "none" /\ link' = [link EXCEPT ![c] = "up"]
      /\ ready' = [ready EXCEPT ![c] = "open"]
      /\ said' = [said EXCEPT ![c].hello = 1]
      /\ UNCHANGED <<requireAuth, joined, pending, userId, session, members, shown, replaced, alive, down,
                     peers, cursors>>
  BY DEF Dial, door, room
<1>4. /\ up[c] = <<>> /\ pending[c] = <<>> /\ ~joined[c] /\ c \notin members
      /\ down[c] = <<>> /\ peers[c] = {} /\ cursors[c] = {}
  BY <1>3 DEF IInv, DoorInv, Door
<1> HIDE DEF m
<1>5. up'[c] = <<m>> /\ <<m>> \in Seq(UpMsgs) /\ up' = [up EXCEPT ![c] = <<m>>]
  BY <1>1, <1>2 DEF IInv, TypeInv, m
<1>6. said'[c].hello = 1 /\ said'[c].other = said[c].other /\ said' \in [Conns -> [hello : Nat, other : Nat]]
  BY <1>3 DEF IInv, TypeInv
<1>7. TypeInv'
  <2>1. MaxHellos[c] >= 1
    BY ConfigAssumption
  <2>2. \A d \in Conns : said'[d].hello <= MaxHellos[d] /\ said'[d].other <= MaxSays[d]
    BY <1>3, <1>6, <2>1 DEF IInv, TypeInv
  <2> QED BY <1>3, <1>5, <1>6, <2>2 DEF IInv, TypeInv
<1>8. DoorInv'
  BY <1>3, <1>4, <1>5 DEF IInv, TypeInv, DoorInv, Door, Reachable
<1>9. HelloInv'
  <2>1. Cardinality(Hellos(<<m>>)) = 1
    <3>1. Hellos(<<m>>) = {1}
      BY <1>2 DEF Hellos
    <3>2. Cardinality({} \cup {1}) = 1
      BY FS_EmptySet, FS_AddElement
    <3> QED BY <3>1, <3>2
  <2>2. Len(pending[c]) = 0
    BY <1>4
  <2>3. \A d \in Conns \ {c} : up'[d] = up[d] /\ said'[d] = said[d]
    BY <1>3, <1>5 DEF IInv, TypeInv
  <2> QED BY <1>3, <1>5, <1>6, <2>1, <2>2, <2>3 DEF IInv, HelloInv
<1>10. FollowInv' /\ CursorInv'
  <2>1. \A d \in members : Reachable(d)' => Reachable(d)
    BY <1>3, <1>4 DEF IInv, TypeInv, Reachable
  <2> QED BY <1>3, <2>1, PagesKeep DEF IInv, TypeInv
<1>11. IdentInv' /\ UpInv'
  <2>1. UpInv'
    BY <1>2, <1>5, UpKeeps DEF IInv, TypeInv
  <2> QED BY <1>3, <2>1, IdentKeeps DEF IInv
<1> QED BY <1>7, <1>8, <1>9, <1>10, <1>11 DEF IInv

LEMMA SayStep ==
  ASSUME IInv, NEW c \in Conns, Greet(c) \/ Say(c)
  PROVE  IInv'
<1>1. PICK m \in UpMsgs :
        /\ up' = [up EXCEPT ![c] = Append(@, m)]
        /\ m.type = "hello" => m.token \in TokensOf[c]
        /\ said'[c].hello = said[c].hello + (IF m.type = "hello" THEN 1 ELSE 0)
        /\ said' \in [Conns -> [hello : Nat, other : Nat]]
        /\ said'[c].hello <= MaxHellos[c] /\ said'[c].other <= MaxSays[c]
        /\ \A d \in Conns \ {c} : said'[d] = said[d]
  <2>1. said[c].hello \in Nat /\ said[c].other \in Nat /\ said \in [Conns -> [hello : Nat, other : Nat]]
        /\ said[c].hello <= MaxHellos[c] /\ said[c].other <= MaxSays[c]
    BY DEF IInv, TypeInv
  <2>4. MaxHellos[c] \in Nat /\ MaxSays[c] \in Nat
    BY ConfigAssumption
  <2>2. CASE Greet(c)
    <3>1. \E token \in TokensOf[c] : up' = [up EXCEPT ![c] = Append(@, HelloMsg(token, said[c].hello + 1))]
      BY <2>2 DEF Greet
    <3>2. PICK m \in UpMsgs : m.type = "hello" /\ m.token \in TokensOf[c]
                              /\ up' = [up EXCEPT ![c] = Append(@, m)]
      <4>1. said[c].hello + 1 \in {1, 2}
        <5>1. said[c].hello < MaxHellos[c] /\ MaxHellos[c] \in {1, 2}
          BY <2>2, ConfigAssumption DEF Greet
        <5> QED BY <2>1, <5>1
      <4>2. \A token \in TokensOf[c] : LET m == HelloMsg(token, said[c].hello + 1)
                                       IN  m \in UpMsgs /\ m.type = "hello" /\ m.token \in TokensOf[c]
        BY <4>1, ConfigAssumption DEF UpMsgs, HelloMsg
      <4> QED BY <3>1, <4>2
    <3>3. said' = [said EXCEPT ![c].hello = @ + 1] /\ said[c].hello < MaxHellos[c]
      BY <2>2 DEF Greet
    <3>4. said'[c].hello = said[c].hello + 1 /\ said'[c].other = said[c].other
          /\ said' \in [Conns -> [hello : Nat, other : Nat]] /\ \A d \in Conns \ {c} : said'[d] = said[d]
      BY <2>1, <3>3
    <3>5. said'[c].hello = said[c].hello + (IF m.type = "hello" THEN 1 ELSE 0)
      BY <2>1, <3>2, <3>4
    <3>6. said'[c].hello <= MaxHellos[c] /\ said'[c].other <= MaxSays[c]
      BY <2>1, <2>4, <3>3, <3>4
    <3> QED BY <3>2, <3>4, <3>5, <3>6
  <2>3. CASE Say(c)
    <3>1. \E type \in Messages : up' = [up EXCEPT ![c] = Append(@, [type |-> type])]
      BY <2>3, ConfigAssumption DEF Say
    <3>2. PICK m \in UpMsgs : m.type # "hello" /\ up' = [up EXCEPT ![c] = Append(@, m)]
      <4>1. \A type \in Messages : [type |-> type] \in UpMsgs /\ [type |-> type].type # "hello"
        BY DEF UpMsgs, Messages
      <4> QED BY <3>1, <4>1
    <3>3. said' = [said EXCEPT ![c].other = @ + 1] /\ said[c].other < MaxSays[c]
      BY <2>3 DEF Say
    <3>4. said'[c].other = said[c].other + 1 /\ said'[c].hello = said[c].hello
          /\ said' \in [Conns -> [hello : Nat, other : Nat]] /\ \A d \in Conns \ {c} : said'[d] = said[d]
      BY <2>1, <3>3
    <3>5. said'[c].hello = said[c].hello + (IF m.type = "hello" THEN 1 ELSE 0)
      BY <2>1, <3>2, <3>4
    <3>6. said'[c].hello <= MaxHellos[c] /\ said'[c].other <= MaxSays[c]
      BY <2>1, <2>4, <3>3, <3>4
    <3> QED BY <3>2, <3>4, <3>5, <3>6
  <2> QED BY <2>2, <2>3
<1>2. /\ UNCHANGED <<requireAuth, link, ready, joined, pending, userId, session, members, shown, replaced, alive, down,
                     peers, cursors>>
      /\ link[c] = "up"
  BY DEF Greet, Say, door, room
<1>3. up' \in [Conns -> Seq(UpMsgs)] /\ up'[c] = Append(up[c], m) /\ \A d \in Conns \ {c} : up'[d] = up[d]
  BY <1>1 DEF IInv, TypeInv
<1>4. TypeInv'
  <2>1. \A d \in Conns : said'[d].hello <= MaxHellos[d] /\ said'[d].other <= MaxSays[d]
    BY <1>1 DEF IInv, TypeInv
  <2> QED BY <1>1, <1>2, <1>3, <2>1 DEF IInv, TypeInv
<1>5. DoorInv'
  BY <1>2, <1>3 DEF IInv, DoorInv, Door, Reachable
<1>6. HelloInv'
  <2>1. said'[c].hello \in Nat /\ said[c].hello \in Nat
    BY <1>1 DEF IInv, TypeInv
  <2>2. said'[c].hello >= said[c].hello + (IF m.type = "hello" THEN 1 ELSE 0)
    BY <1>1, <2>1
  <2> QED BY <1>1, <1>2, <1>3, <2>1, <2>2, HelloSent DEF IInv
<1>7. FollowInv' /\ CursorInv'
  BY <1>2, PagesKeep DEF IInv, TypeInv, Reachable
<1>8. IdentInv' /\ UpInv'
  <2>1. UpInv'
    BY <1>1, <1>3, UpKeeps DEF IInv
  <2> QED BY <1>2, <2>1, IdentKeeps DEF IInv
<1> QED BY <1>4, <1>5, <1>6, <1>7, <1>8 DEF IInv

LEMMA LeaveStep ==
  ASSUME IInv, NEW c \in Conns, Leave(c) \/ Lose(c)
  PROVE  IInv'
<1>1. /\ UNCHANGED <<requireAuth, ready, joined, pending, userId, session, members, shown, replaced, alive, said>>
      /\ link[c] # "none" /\ link'[c] \in {"leaving", "lost"} /\ \A d \in Conns \ {c} : link'[d] = link[d]
      /\ link' \in [Conns -> {"none", "up", "leaving", "lost", "gone"}]
      /\ down' = [down EXCEPT ![c] = <<>>]
      /\ up' \in {up, [up EXCEPT ![c] = <<>>]}
      /\ \/ UNCHANGED <<peers, cursors>>
         \/ peers' = [peers EXCEPT ![c] = {}] /\ cursors' = [cursors EXCEPT ![c] = {}]
  BY DEF Leave, Lose, door, room, page, IInv, TypeInv
<1>2. TypeInv'
  <2>0. up \in [Conns -> Seq(UpMsgs)] /\ down \in [Conns -> Seq(DownMsgs)]
        /\ <<>> \in Seq(UpMsgs) /\ <<>> \in Seq(DownMsgs)
    BY DEF IInv, TypeInv
  <2>1. up' \in [Conns -> Seq(UpMsgs)] /\ down' \in [Conns -> Seq(DownMsgs)]
    BY <1>1, <2>0
  <2>2. peers' \in [Conns -> SUBSET Users] /\ cursors' \in [Conns -> SUBSET Users]
    BY <1>1 DEF IInv, TypeInv
  <2> QED BY <1>1, <2>1, <2>2 DEF IInv, TypeInv
<1>3. \A d \in Conns : down'[d] = IF d = c THEN <<>> ELSE down[d]
  BY <1>1 DEF IInv, TypeInv
<1>4. \A d \in Conns : d # c => peers'[d] = peers[d] /\ cursors'[d] = cursors[d] /\ up'[d] = up[d]
  BY <1>1 DEF IInv, TypeInv
<1>5. \A u \in cursors'[c] \ peers'[c] : u \in cursors[c] \ peers[c]
  BY <1>1 DEF IInv, TypeInv
<1>6. ~Reachable(c)' /\ \A d \in Conns \ {c} : Reachable(d)' <=> Reachable(d)
  BY <1>1 DEF Reachable
<1>7. DoorInv'
  <2> SUFFICES ASSUME NEW d \in Conns PROVE Door(d)'
    BY DEF DoorInv
  <2>1. Door(d)
    BY DEF IInv, DoorInv
  <2>2. CASE d = c
    BY <1>1, <1>6, <2>1, <2>2 DEF Door
  <2>3. CASE d # c
    BY <1>1, <1>3, <1>4, <1>6, <2>1, <2>3 DEF Door
  <2> QED BY <2>2, <2>3
<1>8. HelloInv'
  <2> SUFFICES ASSUME NEW d \in Conns
               PROVE  Cardinality(Hellos(up'[d])) + Len(pending[d]) <= said[d].hello
    BY <1>1 DEF HelloInv
  <2>1. Cardinality(Hellos(up[d])) + Len(pending[d]) <= said[d].hello
    BY DEF IInv, HelloInv
  <2>2. Cardinality(Hellos(up[d])) \in Nat /\ Len(pending[d]) \in Nat /\ said[d].hello \in Nat
    BY HellosFinite, LenProperties DEF IInv, TypeInv
  <2>3. CASE up'[d] = up[d]
    BY <2>1, <2>3
  <2>4. CASE up'[d] = <<>>
    <3>1. Hellos(<<>>) = {}
      BY DEF Hellos
    <3>2. Cardinality(Hellos(up'[d])) = 0
      BY <2>4, <3>1, FS_EmptySet
    <3> QED BY <2>1, <2>2, <3>2
  <2> QED BY <1>1, <2>3, <2>4 DEF IInv, TypeInv
<1>9. FollowInv' /\ CursorInv'
  BY <1>1, <1>3, <1>4, <1>5, <1>6, PagesShut DEF IInv
<1>10. IdentInv' /\ UpInv'
  <2>1. up'[c] = up[c] \/ up'[c] = <<>>
    BY <1>1 DEF IInv, TypeInv
  <2>2. UpInv'
    BY <1>4, <2>1, UpKeeps DEF IInv
  <2> QED BY <1>1, <2>2, IdentKeeps DEF IInv
<1> QED BY <1>2, <1>7, <1>8, <1>9, <1>10 DEF IInv

\* What handling a message does to the list of peers and the cursors.
LEMMA ReceiveFacts ==
  ASSUME IInv, NEW c \in Conns, Receive(c)
  PROVE  LET m == Head(down[c]) IN
         /\ down[c] # <<>> /\ m \in DownMsgs /\ down' = [down EXCEPT ![c] = Tail(@)]
         /\ peers' \in [Conns -> SUBSET Users] /\ cursors' \in [Conns -> SUBSET Users]
         /\ \A d \in Conns \ {c} : peers'[d] = peers[d] /\ cursors'[d] = cursors[d]
         /\ \A u : u \in peers'[c] <=> IF About(m, u) THEN Shows(m, u) ELSE u \in peers[c]
         /\ \A u : u \in cursors'[c] =>
              \/ u \in cursors[c] /\ (m.type = "peer" /\ m.user = u => m.joined)
              \/ m.type = "cursor" /\ m.user = u
         /\ UNCHANGED <<requireAuth, link, ready, joined, pending, userId, session, members, shown, replaced,
                        alive, up, said>>
<1> DEFINE m == Head(down[c])
<1>1. /\ down[c] # <<>> /\ down' = [down EXCEPT ![c] = Tail(@)]
      /\ UNCHANGED <<requireAuth, link, ready, joined, pending, userId, session, members, shown, replaced,
                     alive, up, said>>
  BY DEF Receive, door, room
<1>2. down[c] \in Seq(DownMsgs) /\ peers \in [Conns -> SUBSET Users] /\ cursors \in [Conns -> SUBSET Users]
  BY DEF IInv, TypeInv
<1>3. m \in DownMsgs
  BY <1>1, <1>2, HeadTailProperties
<1>4. /\ m.type = "welcome" => m.peers \subseteq Users
      /\ m.type # "welcome" => m.user \in Users
      /\ m.type = "peer" => m.joined \in BOOLEAN
  BY <1>3 DEF DownMsgs
<1>5. \/ /\ m.type = "welcome" /\ peers' = [peers EXCEPT ![c] = m.peers] /\ UNCHANGED cursors
      \/ /\ m.type = "peer" /\ m.joined /\ peers' = [peers EXCEPT ![c] = @ \cup {m.user}]
         /\ UNCHANGED cursors
      \/ /\ m.type = "peer" /\ ~m.joined /\ peers' = [peers EXCEPT ![c] = @ \ {m.user}]
         /\ cursors' = [cursors EXCEPT ![c] = @ \ {m.user}]
      \/ /\ m.type = "cursor" /\ cursors' = [cursors EXCEPT ![c] = @ \cup {m.user}]
         /\ UNCHANGED peers
  BY DEF Receive
<1> HIDE DEF m
<1>6. CASE m.type = "welcome" /\ peers' = [peers EXCEPT ![c] = m.peers] /\ UNCHANGED cursors
  BY <1>1, <1>2, <1>3, <1>4, <1>6 DEF About, Shows, m
<1>7. CASE /\ m.type = "peer" /\ m.joined /\ peers' = [peers EXCEPT ![c] = @ \cup {m.user}]
           /\ UNCHANGED cursors
  BY <1>1, <1>2, <1>3, <1>4, <1>7 DEF About, Shows, m
<1>8. CASE /\ m.type = "peer" /\ ~m.joined /\ peers' = [peers EXCEPT ![c] = @ \ {m.user}]
           /\ cursors' = [cursors EXCEPT ![c] = @ \ {m.user}]
  BY <1>1, <1>2, <1>3, <1>4, <1>8 DEF About, Shows, m
<1>9. CASE /\ m.type = "cursor" /\ cursors' = [cursors EXCEPT ![c] = @ \cup {m.user}]
           /\ UNCHANGED peers
  BY <1>1, <1>2, <1>3, <1>4, <1>9 DEF About, Shows, m
<1> QED BY <1>5, <1>6, <1>7, <1>8, <1>9

LEMMA ReceiveStep ==
  ASSUME IInv, NEW c \in Conns, Receive(c)
  PROVE  IInv'
<1> DEFINE m == Head(down[c])
<1>1. /\ down[c] # <<>> /\ m \in DownMsgs /\ down' = [down EXCEPT ![c] = Tail(@)]
      /\ peers' \in [Conns -> SUBSET Users] /\ cursors' \in [Conns -> SUBSET Users]
      /\ \A d \in Conns \ {c} : peers'[d] = peers[d] /\ cursors'[d] = cursors[d]
      /\ \A u : u \in peers'[c] <=> IF About(m, u) THEN Shows(m, u) ELSE u \in peers[c]
      /\ \A u : u \in cursors'[c] =>
           \/ u \in cursors[c] /\ (m.type = "peer" /\ m.user = u => m.joined)
           \/ m.type = "cursor" /\ m.user = u
      /\ UNCHANGED <<requireAuth, link, ready, joined, pending, userId, session, members, shown, replaced,
                     alive, up, said>>
  BY ReceiveFacts
<1>2. /\ down[c] \in Seq(DownMsgs) /\ Len(down[c]) \in Nat \ {0}
      /\ Tail(down[c]) \in Seq(DownMsgs) /\ Len(Tail(down[c])) = Len(down[c]) - 1
      /\ \A i \in 1 .. Len(down[c]) - 1 : Tail(down[c])[i] = down[c][i + 1]
      /\ m = down[c][1]
  BY <1>1, HeadTailProperties, LenProperties, EmptySeq DEF IInv, TypeInv
<1> HIDE DEF m
<1>3. \A d \in Conns : down'[d] = IF d = c THEN Tail(down[c]) ELSE down[d]
  BY <1>1 DEF IInv, TypeInv
<1>3a. down'[c] = Tail(down[c])
  BY <1>3
<1>4. ASSUME NEW u, NEW k \in 0 .. Len(down[c]) - 1
      PROVE  Shown(down'[c], k, u, peers'[c]) <=> Shown(down[c], k + 1, u, peers[c])
  <2>1. u \in peers'[c] <=> IF About(Head(down[c]), u) THEN Shows(Head(down[c]), u) ELSE u \in peers[c]
    BY <1>1 DEF m
  <2>2. Shown(Tail(down[c]), k, u, peers'[c]) <=> Shown(down[c], k + 1, u, peers[c])
    BY <1>1, <1>2, <2>1, ShownTail
  <2> QED BY <1>3a, <2>2
<1>5. TypeInv'
  <2>1. down' \in [Conns -> Seq(DownMsgs)]
    BY <1>1, <1>2 DEF IInv, TypeInv
  <2> QED BY <1>1, <2>1 DEF IInv, TypeInv
<1>6. c \in members \/ ~Reachable(c)
  BY <1>1 DEF IInv, DoorInv, Door
<1>7. DoorInv'
  <2> SUFFICES ASSUME NEW d \in Conns PROVE Door(d)'
    BY DEF DoorInv
  <2>1. Door(d) /\ (Reachable(d)' <=> Reachable(d))
    BY <1>1 DEF IInv, DoorInv, Reachable
  <2>2. CASE d = c
    BY <1>1, <1>6, <2>1, <2>2 DEF Door
  <2>3. CASE d # c
    BY <1>1, <1>3, <2>1, <2>3 DEF Door
  <2> QED BY <2>2, <2>3
<1>8. HelloInv' /\ IdentInv' /\ UpInv'
  <2>1. HelloInv'
    BY <1>1 DEF IInv, HelloInv
  <2>2. UpInv'
    BY <1>1 DEF IInv, UpInv
  <2> QED BY <1>1, <2>1, <2>2, IdentKeeps DEF IInv
<1>9. Follows(c) => Follows(c)'
  <2>1. \A u : Shown(down'[c], Len(down'[c]), u, peers'[c]) <=> Shown(down[c], Len(down[c]), u, peers[c])
    <3>1. Len(down'[c]) = Len(down[c]) - 1 /\ Len(down'[c]) \in 0 .. Len(down[c]) - 1
          /\ Len(down'[c]) + 1 = Len(down[c])
      BY <1>2, <1>3a
    <3> QED BY <1>4, <3>1
  <2> QED BY <1>1, <2>1 DEF Follows
<1>10. FollowInv'
  <2> SUFFICES ASSUME NEW d \in members, Reachable(d) PROVE Follows(d)'
    BY <1>1 DEF FollowInv, Reachable
  <2>1. d \in Conns /\ Follows(d)
    BY DEF IInv, TypeInv, FollowInv
  <2>2. CASE d = c
    BY <1>9, <2>1, <2>2
  <2>3. CASE d # c
    BY <1>1, <1>3, <2>1, <2>3, PageKeeps
  <2> QED BY <2>2, <2>3
<1>11. ASSUME NEW u, Cursor(c, u) PROVE Cursor(c, u)'
  <2> DEFINE isShown(i) == Shown(down[c], i - 1, u, peers[c])
  <2>1. /\ m.type = "cursor" /\ m.user = u => isShown(1)
        /\ m.type = "welcome" /\ isShown(1) => u \in m.peers
    BY <1>2, <1>11 DEF Cursor
  <2>2. isShown(1) <=> u \in peers[c]
    BY DEF Shown
  <2>3. u \in cursors[c] => u \in peers[c]
    BY <1>11 DEF Cursor
  <2>4. u \in cursors'[c] => u \in peers'[c]
    <3> HIDE DEF isShown
    <3> QED BY <1>1, <2>1, <2>2, <2>3 DEF About, Shows
  <2>5. ASSUME NEW i \in 1 .. Len(down'[c])
        PROVE  LET n == down'[c][i]
                   shownThen == Shown(down'[c], i - 1, u, peers'[c])
               IN  /\ n.type = "cursor" /\ n.user = u => shownThen
                   /\ n.type = "welcome" /\ shownThen => u \in n.peers
    <3>1. i + 1 \in 1 .. Len(down[c]) /\ i - 1 \in 0 .. Len(down[c]) - 1 /\ down'[c][i] = down[c][i + 1]
      <4>1. Len(down'[c]) = Len(down[c]) - 1
        BY <1>2, <1>3a
      <4>2. i + 1 \in 1 .. Len(down[c]) /\ i - 1 \in 0 .. Len(down[c]) - 1 /\ i \in 1 .. Len(down[c]) - 1
        BY <1>2, <4>1
      <4> QED BY <1>2, <1>3a, <4>2
    <3>2. Shown(down'[c], i - 1, u, peers'[c]) <=> Shown(down[c], (i - 1) + 1, u, peers[c])
      BY <1>4, <3>1
    <3>3. (i - 1) + 1 = (i + 1) - 1
      BY <3>1
    <3> QED BY <1>11, <3>1, <3>2, <3>3 DEF Cursor
  <2> QED BY <2>4, <2>5 DEF Cursor
<1>12. CursorInv'
  <2> SUFFICES ASSUME NEW d \in Conns, NEW u \in Users \ (Shared \cup replaced) PROVE Cursor(d, u)'
    BY <1>1 DEF CursorInv
  <2>1. Cursor(d, u)
    BY DEF IInv, CursorInv
  <2>2. CASE d = c
    BY <1>11, <2>1, <2>2
  <2>3. CASE d # c
    BY <1>1, <1>3, <2>1, <2>3, PageKeeps
  <2> QED BY <2>2, <2>3
<1> QED BY <1>5, <1>7, <1>8, <1>10, <1>12 DEF IInv

LEMMA CloseWithFacts ==
  ASSUME TypeInv, NEW c \in Conns, CloseWith(c)
  PROVE  /\ ready' \in [Conns -> {"none", "open", "closing", "closed"}]
         /\ ready'[c] # "open" /\ (ready'[c] = "closed" <=> ready[c] = "closed")
         /\ \A d \in Conns \ {c} : ready'[d] = ready[d]
BY DEF TypeInv, CloseWith

\* A sequence over a set is one over a wider set.
LEMMA SeqWider ==
  ASSUME NEW S, NEW T, S \subseteq T, NEW s \in Seq(S)
  PROVE  s \in Seq(T)
OBVIOUS

\* A message taken from the wire, and perhaps its token put into pending.
LEMMA HelloTaken ==
  ASSUME TypeInv, HelloInv, NEW c \in Conns, up[c] # <<>>, up' = [up EXCEPT ![c] = Tail(@)],
         UNCHANGED said, Len(pending'[c]) \in Nat,
         Len(pending'[c]) <= Len(pending[c]) + (IF Head(up[c]).type = "hello" THEN 1 ELSE 0),
         \A d \in Conns \ {c} : pending'[d] = pending[d]
  PROVE  HelloInv' /\ up' \in [Conns -> Seq(UpMsgs)]
<1>1. up[c] \in Seq(UpMsgs) /\ Len(up[c]) \in Nat /\ Len(pending[c]) \in Nat /\ said[c].hello \in Nat
      /\ Tail(up[c]) \in Seq(UpMsgs)
  BY LenProperties, HeadTailProperties DEF TypeInv
<1>2. up'[c] = Tail(up[c]) /\ \A d \in Conns \ {c} : up'[d] = up[d]
  BY DEF TypeInv
<1>3. Cardinality(Hellos(up[c])) \in Nat /\ Cardinality(Hellos(Tail(up[c]))) \in Nat
  BY <1>1, HellosFinite, LenProperties
<1>4. Cardinality(Hellos(Tail(up[c])))
        <= Cardinality(Hellos(up[c])) - (IF Head(up[c]).type = "hello" THEN 1 ELSE 0)
  BY <1>1, HellosTail
<1>5. Cardinality(Hellos(up[c])) + Len(pending[c]) <= said[c].hello
  BY DEF HelloInv
<1>6. Cardinality(Hellos(up'[c])) + Len(pending'[c]) <= said[c].hello
  <2>1. CASE Head(up[c]).type = "hello"
    BY SMTT(30), <1>1, <1>2, <1>3, <1>4, <1>5, <2>1
  <2>2. CASE Head(up[c]).type # "hello"
    <3>1. Cardinality(Hellos(up'[c])) <= Cardinality(Hellos(up[c]))
      BY <1>2, <1>3, <1>4, <2>2
    <3>2. Len(pending'[c]) <= Len(pending[c])
      BY <1>1, <2>2
    <3> QED BY SMTT(30), <1>1, <1>2, <1>3, <1>5, <3>1, <3>2
  <2> QED BY <2>1, <2>2
<1>7. HelloInv'
  BY <1>2, <1>6 DEF HelloInv
<1> QED BY <1>1, <1>7 DEF TypeInv

LEMMA HelloStep ==
  ASSUME IInv, NEW c \in Conns, OnHello(c)
  PROVE  IInv'
<1> DEFINE hello == Head(up[c])
           named == hello.token # NoToken
           w == Pending(hello, IF named THEN "verify" ELSE "room")
<1>1. /\ up[c] # <<>> /\ hello.type = "hello" /\ up' = [up EXCEPT ![c] = Tail(@)]
      /\ shown' = [shown EXCEPT ![c] = @ \cup {hello.token}]
      /\ \/ CloseWith(c) /\ UNCHANGED <<pending, userId>>
         \/ /\ ~(requireAuth /\ ~named) /\ pending' = [pending EXCEPT ![c] = Append(@, w)]
            /\ userId' = IF named THEN userId ELSE [userId EXCEPT ![c] = UserFor(c, hello)]
            /\ UNCHANGED ready
      /\ UNCHANGED <<requireAuth, link, joined, session, members, replaced, alive, down,
                     peers, cursors, said>>
  BY DEF OnHello, Incoming, page, room
<1>2. hello.token \in Tokens /\ hello.n \in {1, 2} /\ hello.token \in TokensOf[c]
  <2>1. up[c] \in Seq(UpMsgs) /\ hello \in UpMsgs /\ Len(up[c]) \in Nat \ {0} /\ hello = up[c][1]
    BY <1>1, HeadTailProperties, LenProperties, EmptySeq DEF IInv, TypeInv
  <2>2. hello.token \in TokensOf[c]
    BY <1>1, <2>1 DEF IInv, UpInv
  <2> HIDE DEF hello
  <2> QED BY <1>1, <2>1, <2>2 DEF UpMsgs, Messages
<1>3. w \in Waiting /\ w.token = hello.token /\ w.n = hello.n /\ (named => w.stage = "verify")
      /\ UserFor(c, w) = UserFor(c, hello)
  BY <1>2 DEF Pending, Waiting, UserFor
<1>4. UserFor(c, hello) \in UsersOf(c) /\ UserFor(c, hello) \in Users /\ UserFor(c, hello) # NoUser
  BY <1>2, <1>3, UserForTypes, UsersOfTypes
<1> HIDE DEF hello, named, w
<1>5. /\ pending' \in [Conns -> Seq(Waiting)] /\ Len(pending'[c]) \in Nat
      /\ Len(pending'[c]) <= Len(pending[c]) + 1
      /\ pending'[c] = pending[c] \/ pending'[c] = Append(pending[c], w)
      /\ \A d \in Conns \ {c} : pending'[d] = pending[d]
  <2>1. pending \in [Conns -> Seq(Waiting)] /\ pending[c] \in Seq(Waiting) /\ Len(pending[c]) \in Nat
    BY LenProperties DEF IInv, TypeInv
  <2>2. Append(pending[c], w) \in Seq(Waiting) /\ Len(Append(pending[c], w)) = Len(pending[c]) + 1
    BY <1>3, <2>1, AppendProperties
  <2>3. CASE UNCHANGED pending
    BY <2>1, <2>3
  <2>4. CASE pending' = [pending EXCEPT ![c] = Append(@, w)]
    BY <2>1, <2>2, <2>4
  <2> QED BY <1>1, <2>3, <2>4
<1>6. /\ ready' \in [Conns -> {"none", "open", "closing", "closed"}]
      /\ ready'[c] = "open" => ready[c] = "open"
      /\ ready'[c] = "closed" <=> ready[c] = "closed"
      /\ \A d \in Conns \ {c} : ready'[d] = ready[d]
  <2>1. CASE CloseWith(c)
    BY <2>1, CloseWithFacts DEF IInv
  <2>2. CASE UNCHANGED ready
    BY <2>2 DEF IInv, TypeInv
  <2> QED BY <1>1, <2>1, <2>2
<1>7. HelloInv' /\ up' \in [Conns -> Seq(UpMsgs)]
  BY <1>1, <1>5, HelloTaken DEF IInv, hello
<1>8. /\ userId' \in [Conns -> Users \cup {NoUser}] /\ shown' \in [Conns -> SUBSET Tokens]
      /\ \A d \in Conns \ {c} : userId'[d] = userId[d] /\ shown'[d] = shown[d]
      /\ shown'[c] = shown[c] \cup {hello.token}
      /\ userId'[c] = userId[c]
         \/ (userId'[c] = UserFor(c, hello) /\ userId'[c] # NoUser /\ ~requireAuth)
      /\ pending'[c] = pending[c]
         \/ (pending'[c] = Append(pending[c], w) /\ (w.stage = "room" => userId'[c] # NoUser))
  <2>1. /\ userId \in [Conns -> Users \cup {NoUser}] /\ pending \in [Conns -> Seq(Waiting)]
        /\ shown \in [Conns -> SUBSET Tokens]
    BY DEF IInv, TypeInv
  <2>2. /\ shown' \in [Conns -> SUBSET Tokens] /\ shown'[c] = shown[c] \cup {hello.token}
        /\ \A d \in Conns \ {c} : shown'[d] = shown[d]
    BY <1>1, <1>2, <2>1
  <2>3. CASE UNCHANGED <<pending, userId>>
    <3>1. pending'[c] = pending[c] /\ \A d \in Conns : userId'[d] = userId[d]
      BY <2>3
    <3>2. userId' \in [Conns -> Users \cup {NoUser}]
      BY <2>1, <2>3
    <3> QED BY <2>2, <3>1, <3>2
  <2>4. CASE /\ ~(requireAuth /\ ~named) /\ pending' = [pending EXCEPT ![c] = Append(@, w)]
             /\ userId' = IF named THEN userId ELSE [userId EXCEPT ![c] = UserFor(c, hello)]
    <3>1. pending'[c] = Append(pending[c], w)
      BY <2>1, <2>4
    <3>2. CASE named
      BY <1>3, <2>1, <2>2, <2>4, <3>1, <3>2
    <3>3. CASE ~named
      BY <1>4, <2>1, <2>2, <2>4, <3>1, <3>3
    <3> QED BY <3>2, <3>3
  <2> QED BY <1>1, <2>3, <2>4
<1>9. TypeInv'
  BY <1>1, <1>5, <1>6, <1>7, <1>8 DEF IInv, TypeInv
<1>10. \A d \in Conns : Reachable(d)' => Reachable(d)
  BY <1>1, <1>6 DEF Reachable
<1>11. link[c] # "none"
  BY <1>1 DEF IInv, DoorInv, Door
<1>12. DoorInv'
  <2> SUFFICES ASSUME NEW d \in Conns PROVE Door(d)'
    BY DEF DoorInv
  <2>1. Door(d)
    BY DEF IInv, DoorInv
  <2>2. CASE d = c
    BY <1>1, <1>6, <1>10, <1>11, <2>1, <2>2 DEF Door
  <2>3. up'[d] = up[d] \/ d = c
    BY <1>1 DEF IInv, TypeInv
  <2>4. CASE d # c
    BY <1>1, <1>5, <1>6, <1>10, <2>1, <2>3, <2>4 DEF Door
  <2> QED BY <2>2, <2>4
<1>13. FollowInv' /\ CursorInv'
  BY <1>1, <1>10, PagesKeep DEF IInv, TypeInv
<1>14. UpInv'
  <2>1. up'[c] = Tail(up[c]) /\ \A d \in Conns \ {c} : up'[d] = up[d]
    BY <1>1 DEF IInv, TypeInv
  <2> QED BY <1>1, <2>1, UpKeeps DEF IInv
<1>15. IdentInv'
  <2> SUFFICES ASSUME NEW d \in Conns PROVE Ident(d)'
    BY DEF IdentInv
  <2>1. Ident(d)
    BY DEF IInv, IdentInv
  <2>2. CASE d # c
    <3>1. shown'[d] = shown[d] /\ userId'[d] = userId[d] /\ pending'[d] = pending[d]
      BY <1>5, <1>8, <2>2
    <3>2. WaitingOf(d)' = WaitingOf(d) /\ \A u : GoodFor(d, u) <=> GoodFor(d, u)'
      BY <3>1 DEF WaitingOf, GoodFor
    <3>3. joined'[d] = joined[d] /\ session'[d] = session[d] /\ requireAuth' = requireAuth
      BY <1>1
    <3> QED BY <2>1, <3>1, <3>2, <3>3 DEF Ident
  <2>3. CASE d = c
    <3>1. \A u : GoodFor(c, u) => GoodFor(c, u)'
      BY <1>8 DEF GoodFor
    <3>2. WaitingOf(c) \subseteq WaitingOf(c)'
      BY <1>8 DEF WaitingOf
    <3>3. pending[c] \in Seq(WaitingOf(c)')
      BY <2>1, <2>3, <3>2, SeqWider DEF Ident
    <3>4. pending'[c] = pending[c] \/ (pending'[c] = Append(pending[c], w) /\ w \in WaitingOf(c)')
      BY <1>2, <1>3, <1>8 DEF WaitingOf
    <3>5. pending'[c] \in Seq(WaitingOf(c)')
      <4>1. ASSUME NEW W, pending[c] \in Seq(W), w \in W PROVE Append(pending[c], w) \in Seq(W)
        BY <4>1, AppendProperties
      <4> QED BY <3>3, <3>4, <4>1
    <3>6. ASSUME userId'[c] # NoUser
          PROVE  userId'[c] \in UsersOf(c) /\ (requireAuth => GoodFor(c, userId[c])' )
      <4>1. CASE userId'[c] = userId[c]
        <5>1. userId[c] \in UsersOf(c) /\ (requireAuth => GoodFor(c, userId[c]))
          BY <2>1, <2>3, <3>6, <4>1 DEF Ident
        <5>2. GoodFor(c, userId[c]) => \E t \in shown'[c] : t.kind = "good" /\ userId'[c] = <<t.user, 0>>
          BY <1>8, <4>1 DEF GoodFor
        <5> QED BY <4>1, <5>1, <5>2 DEF GoodFor
      <4>2. CASE userId'[c] = UserFor(c, hello) /\ ~requireAuth
        BY <1>4, <4>2
      <4> QED BY <1>8, <4>1, <4>2
    <3>7. joined[c] /\ requireAuth => GoodFor(c, session[c])'
      <4>1. session'[c] = session[c]
        BY <1>1
      <4>2. GoodFor(c, session[c]) => \E t \in shown'[c] : t.kind = "good" /\ session'[c] = <<t.user, 0>>
        BY <1>8, <4>1 DEF GoodFor
      <4> QED BY <2>1, <2>3, <4>2 DEF Ident, GoodFor
    <3>8. joined'[c] = joined[c] /\ requireAuth' = requireAuth
      BY <1>1
    <3> QED BY <2>3, <3>5, <3>6, <3>7, <3>8 DEF Ident
  <2> QED BY <2>2, <2>3
<1> QED BY <1>7, <1>9, <1>12, <1>13, <1>14, <1>15 DEF IInv

\* The heartbeat and the broken connection.
LEMMA TickStep ==
  ASSUME IInv, NEW c \in Conns, Tick(c) \/ OnPong(c) \/ OnError(c)
  PROVE  IInv'
<1>1. /\ UNCHANGED <<requireAuth, link, joined, pending, userId, session, members, shown, replaced, up, down,
                     peers, cursors, said>>
      /\ alive' \in [Conns -> BOOLEAN]
      /\ CloseWith(c) \/ UNCHANGED ready
  BY DEF Tick, OnPong, OnError, door, room, wire, page, IInv, TypeInv
<1>2. /\ ready' \in [Conns -> {"none", "open", "closing", "closed"}]
      /\ ready'[c] = "open" => ready[c] = "open"
      /\ ready'[c] = "closed" <=> ready[c] = "closed"
      /\ \A d \in Conns \ {c} : ready'[d] = ready[d]
  <2>1. CASE CloseWith(c)
    BY <2>1, CloseWithFacts DEF IInv
  <2>2. CASE UNCHANGED ready
    BY <2>2 DEF IInv, TypeInv
  <2> QED BY <1>1, <2>1, <2>2
<1>3. TypeInv'
  BY <1>1, <1>2 DEF IInv, TypeInv
<1>4. \A d \in Conns : Reachable(d)' => Reachable(d)
  BY <1>1, <1>2 DEF Reachable
<1>5. DoorInv'
  <2> SUFFICES ASSUME NEW d \in Conns PROVE Door(d)'
    BY DEF DoorInv
  <2>1. Door(d) /\ (ready'[d] = "closed" <=> ready[d] = "closed")
    BY <1>2 DEF IInv, DoorInv
  <2> QED BY <1>1, <1>4, <2>1 DEF Door
<1>6. FollowInv' /\ CursorInv'
  BY <1>1, <1>4, PagesKeep DEF IInv, TypeInv
<1>7. HelloInv' /\ IdentInv' /\ UpInv'
  <2>1. HelloInv'
    BY <1>1 DEF IInv, HelloInv
  <2>2. UpInv'
    BY <1>1 DEF IInv, UpInv
  <2> QED BY <1>1, <2>1, <2>2, IdentKeeps DEF IInv
<1> QED BY <1>3, <1>5, <1>6, <1>7 DEF IInv

\* What a page will show when a message more is on its way to it.
LEMMA ShownSent ==
  ASSUME TypeInv, NEW d \in Conns, NEW m \in DownMsgs, down'[d] = Append(down[d], m),
         peers'[d] = peers[d], NEW u
  PROVE  Shown(down'[d], Len(down'[d]), u, peers'[d])
           <=> IF About(m, u) THEN Shows(m, u) ELSE Shown(down[d], Len(down[d]), u, peers[d])
<1>1. down[d] \in Seq(DownMsgs) /\ Len(Append(down[d], m)) = Len(down[d]) + 1
  BY AppendProperties DEF TypeInv
<1>2. Shown(Append(down[d], m), Len(down[d]) + 1, u, peers[d])
        <=> IF About(m, u) THEN Shows(m, u) ELSE Shown(down[d], Len(down[d]), u, peers[d])
  BY <1>1, ShownAppend
<1> QED BY <1>1, <1>2

LEMMA MessageFacts ==
  ASSUME IInv, NEW c \in Conns, OnMessage(c)
  PROVE  /\ up[c] # <<>> /\ Head(up[c]).type # "hello" /\ up' = [up EXCEPT ![c] = Tail(@)]
         /\ \/ /\ c \in members /\ session[c] \in Users /\ CursorOf(c) /\ UNCHANGED ready
            \/ CloseWith(c) /\ UNCHANGED down
            \/ UNCHANGED <<ready, down>>
         /\ UNCHANGED <<requireAuth, link, joined, pending, userId, session, members, shown, replaced, alive,
                        peers, cursors, said>>
<1>1. /\ up[c] # <<>> /\ Head(up[c]).type \in Messages /\ ready[c] # "closed"
      /\ up' = [up EXCEPT ![c] = Tail(@)]
      /\ \/ joined[c] /\ CursorOf(c) /\ UNCHANGED ready
         \/ CloseWith(c) /\ UNCHANGED down
         \/ UNCHANGED <<ready, down>>
      /\ UNCHANGED <<requireAuth, link, joined, pending, userId, session, members, shown, replaced, alive,
                     peers, cursors, said>>
  BY DEF OnMessage, Incoming, door, room, page
<1>2. joined[c] => c \in members /\ session[c] \in Users
  BY <1>1 DEF IInv, TypeInv, DoorInv, Door
<1>3. Head(up[c]).type # "hello"
  BY <1>1 DEF Messages
<1> QED BY <1>1, <1>2, <1>3

\* The cursor of c, for everybody else who can be reached.
LEMMA CursorFacts ==
  ASSUME IInv, NEW c \in members, session[c] \in Users, CursorOf(c)
  PROVE  LET m == [type |-> "cursor", user |-> session[c]] IN
         /\ m \in DownMsgs /\ \A u : ~About(m, u)
         /\ down' \in [Conns -> Seq(DownMsgs)]
         /\ \A d \in Conns : down'[d] = IF d \in members \ {c} /\ Reachable(d)
                                        THEN Append(down[d], m) ELSE down[d]
<1> DEFINE m == [type |-> "cursor", user |-> session[c]]
<1>1. m \in DownMsgs /\ \A u : ~About(m, u)
  BY DEF DownMsgs, About
<1>2. down' = [d \in Conns |-> IF d \in members \ {c} /\ Reachable(d) THEN down[d] \o <<m>> ELSE down[d]]
  BY DEF CursorOf, Send
<1> HIDE DEF m
<1>3. ASSUME NEW d \in Conns
      PROVE  /\ down[d] \in Seq(DownMsgs) /\ down[d] \o <<m>> = Append(down[d], m)
             /\ Append(down[d], m) \in Seq(DownMsgs)
  BY <1>1, AppendIsConcat, AppendProperties DEF IInv, TypeInv
<1> QED BY <1>1, <1>2, <1>3 DEF m

LEMMA MessageStep ==
  ASSUME IInv, NEW c \in Conns, OnMessage(c)
  PROVE  IInv'
<1>1. /\ up[c] # <<>> /\ Head(up[c]).type # "hello" /\ up' = [up EXCEPT ![c] = Tail(@)]
      /\ \/ /\ c \in members /\ session[c] \in Users /\ CursorOf(c) /\ UNCHANGED ready
         \/ CloseWith(c) /\ UNCHANGED down
         \/ UNCHANGED <<ready, down>>
      /\ UNCHANGED <<requireAuth, link, joined, pending, userId, session, members, shown, replaced, alive,
                     peers, cursors, said>>
  BY MessageFacts
<1>2. /\ ready' \in [Conns -> {"none", "open", "closing", "closed"}]
      /\ ready'[c] = "open" => ready[c] = "open"
      /\ ready'[c] = "closed" <=> ready[c] = "closed"
      /\ \A d \in Conns \ {c} : ready'[d] = ready[d]
  <2>1. CASE CloseWith(c)
    BY <2>1, CloseWithFacts DEF IInv
  <2>2. CASE UNCHANGED ready
    BY <2>2 DEF IInv, TypeInv
  <2> QED BY <1>1, <2>1, <2>2
<1>3. HelloInv' /\ up' \in [Conns -> Seq(UpMsgs)]
  <2>1. Len(pending[c]) \in Nat
    BY LenProperties DEF IInv, TypeInv
  <2>2. Len(pending'[c]) \in Nat
        /\ Len(pending'[c]) <= Len(pending[c]) + (IF Head(up[c]).type = "hello" THEN 1 ELSE 0)
        /\ \A d \in Conns \ {c} : pending'[d] = pending[d]
    BY <1>1, <2>1
  <2> QED BY <1>1, <2>2, HelloTaken DEF IInv
<1>4. \A d \in Conns : Reachable(d)' => Reachable(d)
  BY <1>1, <1>2 DEF Reachable
<1>5. link[c] # "none"
  BY <1>1 DEF IInv, DoorInv, Door
<1>6. \A d \in Conns \ {c} : up'[d] = up[d]
  BY <1>1 DEF IInv, TypeInv
<1>7. IdentInv' /\ UpInv'
  <2>1. up'[c] = Tail(up[c])
    BY <1>1 DEF IInv, TypeInv
  <2>2. UpInv'
    BY <1>1, <1>6, <2>1, UpKeeps DEF IInv
  <2> QED BY <1>1, <2>2, IdentKeeps DEF IInv
<1>8. CASE UNCHANGED down
  <2>1. TypeInv'
    BY <1>1, <1>2, <1>3, <1>8 DEF IInv, TypeInv
  <2>2. DoorInv'
    <3> SUFFICES ASSUME NEW d \in Conns PROVE Door(d)'
      BY DEF DoorInv
    <3>1. Door(d) /\ (ready'[d] = "closed" <=> ready[d] = "closed")
      BY <1>2 DEF IInv, DoorInv
    <3> QED BY <1>1, <1>4, <1>5, <1>6, <1>8, <3>1 DEF Door
  <2>3. FollowInv' /\ CursorInv'
    BY <1>1, <1>4, <1>8, PagesKeep DEF IInv, TypeInv
  <2> QED BY <1>3, <1>7, <2>1, <2>2, <2>3 DEF IInv
<1>9. CASE c \in members /\ session[c] \in Users /\ CursorOf(c) /\ UNCHANGED ready
  <2> DEFINE m == [type |-> "cursor", user |-> session[c]]
  <2>1. /\ m \in DownMsgs /\ \A u : ~About(m, u)
        /\ down' \in [Conns -> Seq(DownMsgs)]
        /\ \A d \in Conns : down'[d] = IF d \in members \ {c} /\ Reachable(d)
                                       THEN Append(down[d], m) ELSE down[d]
    BY <1>9, CursorFacts
  <2>2. m.type = "cursor" /\ m.user = session[c]
    OBVIOUS
  <2> HIDE DEF m
  <2>3. TypeInv'
    BY <1>1, <1>2, <1>3, <2>1 DEF IInv, TypeInv
  <2>4. DoorInv'
    <3> SUFFICES ASSUME NEW d \in Conns PROVE Door(d)'
      BY DEF DoorInv
    <3>1. Door(d) /\ (ready'[d] = "closed" <=> ready[d] = "closed")
      BY <1>2 DEF IInv, DoorInv
    <3>2. d \notin members => down'[d] = down[d]
      BY <2>1
    <3> QED BY <1>1, <1>4, <1>5, <1>6, <3>1, <3>2 DEF Door
  <2>5. ASSUME NEW d \in members, Reachable(d) PROVE Follows(d)'
    <3>1. d \in Conns /\ Follows(d)
      BY <2>5 DEF IInv, TypeInv, FollowInv
    <3>2. CASE d = c
      BY <1>1, <2>1, <3>1, <3>2, PageKeeps
    <3>3. CASE d # c
      <4>1. down'[d] = Append(down[d], m)
        BY <2>1, <2>5, <3>1, <3>3
      <4>2. \A u : Shown(down'[d], Len(down'[d]), u, peers'[d]) <=> Shown(down[d], Len(down[d]), u, peers[d])
        BY <1>1, <2>1, <3>1, <4>1, ShownSent DEF IInv
      <4> QED BY <1>1, <3>1, <4>2 DEF Follows
    <3> QED BY <3>2, <3>3
  <2>6. FollowInv'
    BY <1>1, <1>4, <2>5 DEF FollowInv, IInv, TypeInv
  <2>7. ASSUME NEW d \in Conns, NEW u \in Users \ (Shared \cup replaced) PROVE Cursor(d, u)'
    <3>1. Cursor(d, u)
      BY DEF IInv, CursorInv
    <3>2. CASE d \in members \ {c} /\ Reachable(d)
      <4>1. down'[d] = Append(down[d], m)
        BY <2>1, <3>2
      <4>2. Follows(d)
        BY <3>2 DEF IInv, FollowInv
      <4>3. m.user = u => Shown(down[d], Len(down[d]), u, peers[d])
        BY <1>9, <2>2, <3>2, <4>2 DEF Follows
      <4> QED BY <1>1, <2>1, <2>2, <3>1, <4>1, <4>3, PageAppend DEF IInv
    <3>3. CASE ~(d \in members \ {c} /\ Reachable(d))
      BY <1>1, <2>1, <3>1, <3>3, PageKeeps
    <3> QED BY <3>2, <3>3
  <2>8. CursorInv'
    BY <1>1, <2>7 DEF CursorInv
  <2> QED BY <1>3, <1>7, <2>3, <2>4, <2>6, <2>8 DEF IInv
<1> QED BY <1>1, <1>8, <1>9

\* The news that the user of c is gone, for everybody else who can be reached.
LEMMA LeftFacts ==
  ASSUME IInv, NEW c \in members, OnClose(c)
  PROVE  LET m == PeerMsg(session[c], FALSE) IN
         /\ session[c] \in Users /\ m \in DownMsgs
         /\ \A u : /\ About(m, u) <=> u = session[c]
                   /\ ~Shows(m, u)
         /\ m.type = "peer"
         /\ down' \in [Conns -> Seq(DownMsgs)]
         /\ \A d \in Conns : down'[d] = IF d \in members \ {c} /\ Reachable(d)
                                        THEN Append(down[d], m) ELSE down[d]
<1> DEFINE m == PeerMsg(session[c], FALSE)
<1>1. session[c] \in Users
  BY UsersOfTypes DEF IInv, TypeInv, DoorInv, Door
<1>2. /\ m \in DownMsgs /\ m.type = "peer" /\ \A u : (About(m, u) <=> u = session[c]) /\ ~Shows(m, u)
  BY <1>1 DEF DownMsgs, PeerMsg, About, Shows
<1>3. down' = [d \in Conns |-> IF d \in members \ {c} /\ Reachable(d) THEN down[d] \o <<m>> ELSE down[d]]
  BY DEF OnClose, Send
<1> HIDE DEF m
<1>4. ASSUME NEW d \in Conns
      PROVE  /\ down[d] \in Seq(DownMsgs) /\ down[d] \o <<m>> = Append(down[d], m)
             /\ Append(down[d], m) \in Seq(DownMsgs)
  BY <1>2, AppendIsConcat, AppendProperties DEF IInv, TypeInv
<1> QED BY <1>1, <1>2, <1>3, <1>4 DEF m

LEMMA CloseStep ==
  ASSUME IInv, NEW c \in Conns, OnClose(c)
  PROVE  IInv'
<1>1. /\ ready[c] \in {"open", "closing"}
      /\ ready' = [ready EXCEPT ![c] = "closed"]
      /\ link' = [link EXCEPT ![c] = "gone"]
      /\ up' = [up EXCEPT ![c] = <<>>]
      /\ members' = members \ {c}
      /\ UNCHANGED <<requireAuth, joined, pending, userId, session, shown, replaced, alive, peers, cursors, said>>
  BY DEF OnClose, page
<1>2. /\ up' \in [Conns -> Seq(UpMsgs)] /\ up'[c] = <<>> /\ \A d \in Conns \ {c} : up'[d] = up[d]
      /\ link' \in [Conns -> {"none", "up", "leaving", "lost", "gone"}]
      /\ ready' \in [Conns -> {"none", "open", "closing", "closed"}]
      /\ ready'[c] = "closed" /\ link'[c] = "gone"
      /\ \A d \in Conns \ {c} : ready'[d] = ready[d] /\ link'[d] = link[d]
  <2>1. <<>> \in Seq(UpMsgs)
    OBVIOUS
  <2> QED BY <1>1, <2>1 DEF IInv, TypeInv
<1>3. ~Reachable(c)' /\ \A d \in Conns \ {c} : Reachable(d)' <=> Reachable(d)
  BY <1>2 DEF Reachable
<1>4. HelloInv'
  <2> SUFFICES ASSUME NEW d \in Conns
               PROVE  Cardinality(Hellos(up'[d])) + Len(pending[d]) <= said[d].hello
    BY <1>1 DEF HelloInv
  <2>1. Cardinality(Hellos(up[d])) + Len(pending[d]) <= said[d].hello
    BY DEF IInv, HelloInv
  <2>2. Cardinality(Hellos(up[d])) \in Nat /\ Len(pending[d]) \in Nat /\ said[d].hello \in Nat
    BY HellosFinite, LenProperties DEF IInv, TypeInv
  <2>3. CASE d # c
    BY <1>2, <2>1, <2>3
  <2>4. CASE d = c
    <3>1. Hellos(<<>>) = {}
      BY DEF Hellos
    <3>2. Cardinality(Hellos(up'[d])) = 0
      BY <1>2, <2>4, <3>1, FS_EmptySet
    <3> QED BY <2>1, <2>2, <3>2
  <2> QED BY <2>3, <2>4
<1>5. IdentInv' /\ UpInv'
  <2>1. UpInv'
    BY <1>2, UpKeeps DEF IInv
  <2> QED BY <1>1, <2>1, IdentKeeps DEF IInv
<1>6. /\ down' \in [Conns -> Seq(DownMsgs)]
      /\ \A d \in Conns : d \notin members => down'[d] = down[d]
      /\ c \notin members => \A d \in Conns : down'[d] = down[d]
  <2>1. CASE c \in members
    BY <2>1, LeftFacts
  <2>2. CASE c \notin members
    BY <2>2 DEF OnClose, Send, IInv, TypeInv
  <2> QED BY <2>1, <2>2
<1>7. TypeInv'
  BY <1>1, <1>2, <1>6 DEF IInv, TypeInv
<1>8. DoorInv'
  <2> SUFFICES ASSUME NEW d \in Conns PROVE Door(d)'
    BY DEF DoorInv
  <2>1. Door(d)
    BY DEF IInv, DoorInv
  <2>2. CASE d = c
    BY <1>1, <1>2, <1>3, <2>1, <2>2 DEF Door
  <2>3. CASE d # c
    BY <1>1, <1>2, <1>3, <1>6, <2>1, <2>3 DEF Door
  <2> QED BY <2>2, <2>3
<1>9. CASE c \notin members
  <2>1. ASSUME NEW d \in members, Reachable(d)' PROVE Follows(d)'
    <3>1. d \in Conns \ {c} /\ Follows(d)
      BY <1>3, <1>9, <2>1 DEF IInv, TypeInv, FollowInv
    <3>2. members' = members
      BY <1>1, <1>9
    <3> QED BY <1>1, <1>6, <1>9, <3>1, <3>2, PageKeeps
  <2>2. FollowInv'
    BY <1>1, <1>9, <2>1 DEF FollowInv
  <2>3. CursorInv'
    BY <1>1, <1>6, <1>9, PageKeeps DEF IInv, CursorInv
  <2> QED BY <1>4, <1>5, <1>7, <1>8, <2>2, <2>3 DEF IInv
<1>10. CASE c \in members
  <2> DEFINE m == PeerMsg(session[c], FALSE)
  <2>1. /\ session[c] \in Users /\ m \in DownMsgs
        /\ \A u : (About(m, u) <=> u = session[c]) /\ ~Shows(m, u)
        /\ m.type = "peer"
        /\ \A d \in Conns : down'[d] = IF d \in members \ {c} /\ Reachable(d)
                                       THEN Append(down[d], m) ELSE down[d]
    BY <1>10, LeftFacts
  <2> HIDE DEF m
  <2>2. ASSUME NEW d \in members', Reachable(d)' PROVE Follows(d)'
    <3>1. d \in Conns /\ d # c /\ d \in members /\ Follows(d) /\ down'[d] = Append(down[d], m)
      BY <1>1, <1>3, <2>1, <2>2 DEF IInv, TypeInv, FollowInv
    <3> SUFFICES ASSUME NEW u \in Users
                 PROVE  LET isMember == u \in {session[e] : e \in members' \ {d}}
                            isShown  == Shown(down'[d], Len(down'[d]), u, peers'[d])
                        IN  (isShown /\ ~isMember => u \in replaced) /\ (isMember /\ ~isShown => u \in Shared)
      BY <1>1 DEF Follows
    <3>2. Shown(down'[d], Len(down'[d]), u, peers'[d])
            <=> IF u = session[c] THEN FALSE ELSE Shown(down[d], Len(down[d]), u, peers[d])
      <4>1. Shown(down'[d], Len(down'[d]), u, peers'[d])
              <=> IF About(m, u) THEN Shows(m, u) ELSE Shown(down[d], Len(down[d]), u, peers[d])
        BY <1>1, <2>1, <3>1, ShownSent DEF IInv
      <4> QED BY <2>1, <4>1
    <3>3. CASE u = session[c]
      <4>1. ASSUME NEW e \in members' \ {d}, session[e] = u PROVE u \in Shared
        <5>1. e \in Conns /\ e # c /\ u \in UsersOf(e) /\ u \in UsersOf(c)
          BY <1>1, <1>10, <3>3, <4>1 DEF IInv, TypeInv, DoorInv, Door
        <5> QED BY <5>1, SharedUsers
      <4> QED BY <3>2, <3>3, <4>1
    <3>4. CASE u # session[c]
      <4>1. u \in {session[e] : e \in members' \ {d}} <=> u \in {session[e] : e \in members \ {d}}
        BY <1>1, <3>4
      <4> QED BY <3>1, <3>2, <3>4, <4>1 DEF Follows
    <3> QED BY <3>3, <3>4
  <2>3. FollowInv'
    BY <2>2 DEF FollowInv
  <2>4. ASSUME NEW d \in Conns, NEW u \in Users \ (Shared \cup replaced) PROVE Cursor(d, u)'
    <3>1. Cursor(d, u)
      BY DEF IInv, CursorInv
    <3>2. CASE d \in members \ {c} /\ Reachable(d)
      BY <1>1, <2>1, <3>1, <3>2, PageAppend DEF IInv
    <3>3. CASE ~(d \in members \ {c} /\ Reachable(d))
      BY <1>1, <2>1, <3>1, <3>3, PageKeeps
    <3> QED BY <3>2, <3>3
  <2>5. CursorInv'
    BY <1>1, <2>4 DEF CursorInv
  <2> QED BY <1>4, <1>5, <1>7, <1>8, <2>3, <2>5 DEF IInv
<1> QED BY <1>9, <1>10

\* One of a sequence replaced.
LEMMA WithOneReplaced ==
  ASSUME NEW S, NEW s \in Seq(S), NEW i \in 1 .. Len(s), NEW x \in S
  PROVE  [s EXCEPT ![i] = x] \in Seq(S) /\ Len([s EXCEPT ![i] = x]) = Len(s)
OBVIOUS

\* One of a sequence left out.
LEMMA RemoveAtProperties ==
  ASSUME NEW S, NEW s \in Seq(S), NEW i \in 1 .. Len(s)
  PROVE  RemoveAt(s, i) \in Seq(S) /\ Len(RemoveAt(s, i)) = Len(s) - 1
<1>1. Len(s) \in Nat /\ i \in Nat /\ 1 <= i /\ i <= Len(s)
  BY LenProperties
<1>2. \A k \in 1 .. Len(s) : s[k] \in S
  BY ElementOfSeq
<1> DEFINE before == SubSeq(s, 1, i - 1)
           after  == SubSeq(s, i + 1, Len(s))
<1>3. before \in Seq(S) /\ Len(before) = i - 1
  <2>1. \A k \in 1 .. i - 1 : s[k] \in S
    BY <1>1, <1>2
  <2>2. i - 1 \in Int /\ 1 \in Int
    BY <1>1
  <2>3. before \in Seq(S) /\ Len(before) = IF 1 <= i - 1 THEN (i - 1) - 1 + 1 ELSE 0
    BY <2>1, <2>2, SubSeqProperties
  <2> QED BY <1>1, <2>3
<1>4. after \in Seq(S) /\ Len(after) = Len(s) - i
  <2>1. \A k \in i + 1 .. Len(s) : s[k] \in S
    BY <1>1, <1>2
  <2>2. i + 1 \in Int /\ Len(s) \in Int
    BY <1>1
  <2>3. after \in Seq(S) /\ Len(after) = IF i + 1 <= Len(s) THEN Len(s) - (i + 1) + 1 ELSE 0
    BY <2>1, <2>2, SubSeqProperties
  <2> QED BY <1>1, <2>3
<1> HIDE DEF before, after
<1>5. before \o after \in Seq(S) /\ Len(before \o after) = Len(before) + Len(after)
  BY <1>3, <1>4, ConcatProperties
<1>6. RemoveAt(s, i) = before \o after
  BY DEF RemoveAt, before, after
<1>7. Len(before) + Len(after) = Len(s) - 1
  BY <1>1, <1>3, <1>4
<1> QED BY <1>5, <1>6, <1>7

\* What addClient sends to the new member.
WelcomeFor(c) == [type |-> "welcome", peers |-> {session[e] : e \in members \ {c}}]

\* What letting c in does.
LEMMA EnterFacts ==
  ASSUME IInv, NEW c \in Conns, Enter(c)
  PROVE  LET u == userId[c] IN
         /\ u \in UsersOf(c) /\ u \in Users /\ u # NoUser
         /\ (requireAuth => GoodFor(c, u))
         /\ members' = members \cup {c} /\ joined' = [joined EXCEPT ![c] = TRUE]
         /\ session' = [session EXCEPT ![c] = u]
         /\ replaced \subseteq replaced' /\ replaced' \subseteq Users
         /\ c \in members /\ session[c] # u => session[c] \in replaced'
         /\ WelcomeFor(c) \in DownMsgs /\ PeerMsg(u, TRUE) \in DownMsgs
         /\ down' \in [Conns -> Seq(DownMsgs)]
         /\ down'[c] = IF Reachable(c) THEN Append(down[c], WelcomeFor(c)) ELSE down[c]
         /\ \A d \in Conns \ {c} : down'[d] = IF d \in members /\ Reachable(d)
                                              THEN Append(down[d], PeerMsg(u, TRUE)) ELSE down[d]
<1> DEFINE u == userId[c]
           msg(d) == IF d = c THEN WelcomeFor(c) ELSE PeerMsg(u, TRUE)
<1>1. u \in UsersOf(c) /\ u \in Users /\ u # NoUser /\ (requireAuth => GoodFor(c, u))
  <2>1. PICK i \in DOMAIN pending[c] : pending[c][i].stage = "room"
    BY DEF Enter, Resume, Waits
  <2>2. Ident(c)
    BY DEF IInv, IdentInv
  <2>3. pending[c][i] \in WaitingOf(c)
    BY <2>1, <2>2, ElementOfSeq, LenProperties DEF Ident
  <2>4. u # NoUser
    BY <2>1, <2>3 DEF WaitingOf
  <2> QED BY <2>2, <2>4, UsersOfTypes DEF Ident
<1>2. /\ members' = members \cup {c} /\ joined' = [joined EXCEPT ![c] = TRUE]
      /\ session' = [session EXCEPT ![c] = u]
      /\ replaced' = replaced \cup ({session[d] : d \in members \cap {c}} \ {u})
      /\ down' = [d \in Conns |-> IF d \in {c} \cup members /\ Reachable(d)
                                  THEN down[d] \o <<msg(d)>> ELSE down[d]]
  BY DEF Enter, Announce, Send, WelcomeFor
<1>3. \A d \in members : session[d] \in Users
  BY UsersOfTypes DEF IInv, TypeInv, DoorInv, Door
<1>4. replaced \subseteq replaced' /\ replaced' \subseteq Users
      /\ (c \in members /\ session[c] # u => session[c] \in replaced')
  <2> HIDE DEF u
  <2> QED BY <1>2, <1>3 DEF IInv, TypeInv
<1>5. WelcomeFor(c) \in DownMsgs
  BY <1>3 DEF WelcomeFor, DownMsgs
<1>6. PeerMsg(u, TRUE) \in DownMsgs
  BY <1>1 DEF PeerMsg, DownMsgs
<1>7. ASSUME NEW d \in Conns
      PROVE  /\ down[d] \in Seq(DownMsgs) /\ down[d] \o <<msg(d)>> = Append(down[d], msg(d))
             /\ Append(down[d], msg(d)) \in Seq(DownMsgs)
  <2>1. msg(d) \in DownMsgs
    BY <1>5, <1>6
  <2> HIDE DEF msg
  <2> QED BY <2>1, AppendIsConcat, AppendProperties DEF IInv, TypeInv
<1>8. \A d \in Conns : down'[d] = IF d \in {c} \cup members /\ Reachable(d)
                                  THEN Append(down[d], msg(d)) ELSE down[d]
  <2> HIDE DEF msg
  <2> QED BY <1>2, <1>7
<1>9. down' \in [Conns -> Seq(DownMsgs)]
  <2> HIDE DEF msg
  <2> QED BY <1>2, <1>7
<1> HIDE DEF u
<1> QED BY <1>1, <1>2, <1>4, <1>5, <1>6, <1>8, <1>9 DEF u

\* A connection that is let in: its page gets a welcome, the others the news.
LEMMA EnterPages ==
  ASSUME IInv, NEW c \in Conns, Enter(c)
  PROVE  FollowInv' /\ CursorInv'
<1> DEFINE u0 == userId[c]
           welcome == WelcomeFor(c)
           news == PeerMsg(u0, TRUE)
<1>1. /\ u0 \in UsersOf(c) /\ u0 \in Users
      /\ members' = members \cup {c} /\ session' = [session EXCEPT ![c] = u0]
      /\ replaced \subseteq replaced' /\ (c \in members /\ session[c] # u0 => session[c] \in replaced')
      /\ welcome \in DownMsgs /\ news \in DownMsgs
      /\ down'[c] = IF Reachable(c) THEN Append(down[c], welcome) ELSE down[c]
      /\ \A d \in Conns \ {c} : down'[d] = IF d \in members /\ Reachable(d)
                                           THEN Append(down[d], news) ELSE down[d]
  BY EnterFacts
<1>1a. UNCHANGED <<link, ready, peers, cursors>>
  BY DEF Enter, page
<1>2. /\ \A u : About(welcome, u) /\ (Shows(welcome, u) <=> u \in {session[e] : e \in members \ {c}})
      /\ welcome.type = "welcome" /\ welcome.peers = {session[e] : e \in members \ {c}}
  BY DEF WelcomeFor, About, Shows
<1>3. /\ \A u : (About(news, u) <=> u = u0) /\ Shows(news, u)
      /\ news.type = "peer"
  BY DEF PeerMsg, About, Shows
<1> HIDE DEF u0, welcome, news
<1>4. session'[c] = u0 /\ (\A e \in Conns \ {c} : session'[e] = session[e]) /\ members \subseteq Conns
  BY <1>1 DEF IInv, TypeInv
<1>5. \A d \in Conns : Reachable(d)' <=> Reachable(d)
  BY <1>1a DEF Reachable
<1>6. ASSUME Reachable(c) PROVE Follows(c)'
  <2>1. \A u : Shown(down'[c], Len(down'[c]), u, peers'[c]) <=> u \in {session[e] : e \in members \ {c}}
    BY <1>1, <1>1a, <1>2, <1>6, ShownSent DEF IInv
  <2>2. {session'[e] : e \in members' \ {c}} = {session[e] : e \in members \ {c}}
    BY <1>1, <1>4
  <2> QED BY <2>1, <2>2 DEF Follows
<1>7. ASSUME NEW d \in members \ {c}, Reachable(d) PROVE Follows(d)'
  <2>1. d \in Conns /\ Follows(d) /\ down'[d] = Append(down[d], news)
    BY <1>1, <1>4, <1>7 DEF IInv, FollowInv
  <2> SUFFICES ASSUME NEW u \in Users
               PROVE  LET isMember == u \in {session'[e] : e \in members' \ {d}}
                          isShown  == Shown(down'[d], Len(down'[d]), u, peers'[d])
                      IN  (isShown /\ ~isMember => u \in replaced') /\ (isMember /\ ~isShown => u \in Shared)
    BY DEF Follows
  <2>2. Shown(down'[d], Len(down'[d]), u, peers'[d])
          <=> IF u = u0 THEN TRUE ELSE Shown(down[d], Len(down[d]), u, peers[d])
    <3>1. Shown(down'[d], Len(down'[d]), u, peers'[d])
            <=> IF About(news, u) THEN Shows(news, u) ELSE Shown(down[d], Len(down[d]), u, peers[d])
      BY <1>1, <1>1a, <2>1, ShownSent DEF IInv
    <3> QED BY <1>3, <3>1
  <2>3. CASE u = u0
    <3>1. c \in members' \ {d} /\ session'[c] = u
      BY <1>1, <1>4, <1>7, <2>3
    <3> QED BY <2>2, <2>3, <3>1
  <2>4. CASE u # u0
    <3>1. ASSUME u \in {session'[e] : e \in members' \ {d}} PROVE u \in {session[e] : e \in members \ {d}}
      <4>1. PICK e \in members' \ {d} : session'[e] = u
        BY <3>1
      <4>2. e # c
        BY <1>4, <2>4, <4>1
      <4>3. e \in members \ {d} /\ session[e] = u
        BY <1>1, <1>4, <4>1, <4>2
      <4> QED BY <4>3
    <3>2. ASSUME u \in {session[e] : e \in members \ {d}}, u \notin replaced'
          PROVE  u \in {session'[e] : e \in members' \ {d}}
      <4>1. PICK e \in members \ {d} : session[e] = u
        BY <3>2
      <4>2. e # c
        BY <1>1, <2>4, <3>2, <4>1
      <4>3. e \in members' \ {d} /\ session'[e] = u
        BY <1>1, <1>4, <4>1, <4>2
      <4> QED BY <4>3
    <3>3. Shown(down'[d], Len(down'[d]), u, peers'[d]) <=> Shown(down[d], Len(down[d]), u, peers[d])
      BY <2>2, <2>4
    <3>4. LET isMember == u \in {session[e] : e \in members \ {d}}
              isShown  == Shown(down[d], Len(down[d]), u, peers[d])
          IN  (isShown /\ ~isMember => u \in replaced) /\ (isMember /\ ~isShown => u \in Shared)
      BY <2>1 DEF Follows
    <3> QED BY <1>1, <3>1, <3>2, <3>3, <3>4
  <2> QED BY <2>3, <2>4
<1>8. FollowInv'
  <2> SUFFICES ASSUME NEW d \in members', Reachable(d)' PROVE Follows(d)'
    BY DEF FollowInv
  <2>1. d \in members \cup {c} /\ d \in Conns
    BY <1>1, <1>4
  <2>2. Reachable(d)
    BY <1>5, <2>1
  <2> QED BY <1>6, <1>7, <2>1, <2>2
<1>9. ASSUME NEW u \in Users \ (Shared \cup replaced') PROVE Cursor(c, u)'
  <2>1. Cursor(c, u)
    BY <1>1 DEF IInv, CursorInv
  <2>2. CASE ~Reachable(c)
    BY <1>1, <2>1, <2>2, <1>1a, PageKeeps
  <2>3. CASE Reachable(c) /\ c \notin members
    <3>1. down[c] = <<>> /\ peers[c] = {} /\ cursors[c] = {}
      BY <2>3 DEF IInv, DoorInv, Door
    <3>2. ~Shown(down[c], Len(down[c]), u, peers[c])
      BY <3>1 DEF Shown
    <3> QED BY <1>1, <1>2, <2>1, <2>3, <3>2, <1>1a, PageAppend DEF IInv
  <2>4. CASE Reachable(c) /\ c \in members
    <3>1. Follows(c)
      BY <2>4 DEF IInv, FollowInv
    <3>2. Shown(down[c], Len(down[c]), u, peers[c]) => u \in {session[e] : e \in members \ {c}}
      BY <1>1, <3>1 DEF Follows
    <3> QED BY <1>1, <1>2, <2>1, <2>4, <3>2, <1>1a, PageAppend DEF IInv
  <2> QED BY <2>2, <2>3, <2>4
<1>10. ASSUME NEW d \in Conns \ {c}, NEW u \in Users \ (Shared \cup replaced') PROVE Cursor(d, u)'
  <2>1. Cursor(d, u)
    BY <1>1 DEF IInv, CursorInv
  <2>2. CASE d \in members /\ Reachable(d)
    BY <1>1, <1>3, <2>1, <2>2, <1>1a, PageAppend DEF IInv
  <2>3. CASE ~(d \in members /\ Reachable(d))
    BY <1>1, <2>1, <2>3, <1>1a, PageKeeps
  <2> QED BY <2>2, <2>3
<1>11. CursorInv'
  BY <1>9, <1>10 DEF CursorInv
<1> QED BY <1>8, <1>11

\* A hello fewer that waits.
LEMMA OneFewer ==
  ASSUME IInv, NEW c \in Conns, NEW i \in DOMAIN pending[c],
         pending' = [pending EXCEPT ![c] = RemoveAt(@, i)]
  PROVE  /\ pending' \in [Conns -> Seq(Waiting)] /\ Len(pending'[c]) = Len(pending[c]) - 1
         /\ pending'[c] \in Seq(WaitingOf(c))
         /\ \A d \in Conns \ {c} : pending'[d] = pending[d]
<1>1. pending[c] \in Seq(Waiting) /\ i \in 1 .. Len(pending[c]) /\ pending[c] \in Seq(WaitingOf(c))
  BY LenProperties DEF IInv, TypeInv, IdentInv, Ident
<1>2. RemoveAt(pending[c], i) \in Seq(Waiting) /\ Len(RemoveAt(pending[c], i)) = Len(pending[c]) - 1
  BY <1>1, RemoveAtProperties
<1>3. RemoveAt(pending[c], i) \in Seq(WaitingOf(c))
  BY <1>1, RemoveAtProperties
<1> QED BY <1>2, <1>3 DEF IInv, TypeInv

\* No more hellos than before: the count stays right.
LEMMA HelloKept ==
  ASSUME IInv, NEW c \in Conns, UNCHANGED <<up, said>>,
         Len(pending'[c]) \in Nat, Len(pending'[c]) <= Len(pending[c]),
         \A d \in Conns \ {c} : pending'[d] = pending[d]
  PROVE  HelloInv'
<1> SUFFICES ASSUME NEW d \in Conns
             PROVE  Cardinality(Hellos(up[d])) + Len(pending'[d]) <= said[d].hello
  BY DEF HelloInv
<1>1. Cardinality(Hellos(up[d])) + Len(pending[d]) <= said[d].hello
  BY DEF IInv, HelloInv
<1>2. Cardinality(Hellos(up[d])) \in Nat /\ Len(pending[d]) \in Nat /\ said[d].hello \in Nat
  BY HellosFinite, LenProperties DEF IInv, TypeInv
<1>3. CASE d # c
  BY <1>1, <1>3
<1>4. CASE d = c
  BY <1>1, <1>2, <1>4
<1> QED BY <1>3, <1>4

LEMMA EnterStep ==
  ASSUME IInv, NEW c \in Conns, Enter(c)
  PROVE  IInv'
<1> DEFINE u0 == userId[c]
<1>1. /\ u0 \in UsersOf(c) /\ u0 \in Users /\ u0 # NoUser /\ (requireAuth => GoodFor(c, u0))
      /\ members' = members \cup {c} /\ joined' = [joined EXCEPT ![c] = TRUE]
      /\ session' = [session EXCEPT ![c] = u0]
      /\ replaced' \subseteq Users /\ down' \in [Conns -> Seq(DownMsgs)]
      /\ \A d \in Conns \ {c} : d \notin members => down'[d] = down[d]
  BY EnterFacts
<1>2. /\ UNCHANGED <<requireAuth, link, ready, userId, shown, alive, up, peers, cursors, said>>
      /\ \E i \in DOMAIN pending[c] : pending' = [pending EXCEPT ![c] = RemoveAt(@, i)]
  BY DEF Enter, Resume, page
<1>3. /\ pending' \in [Conns -> Seq(Waiting)] /\ Len(pending'[c]) = Len(pending[c]) - 1
      /\ pending'[c] \in Seq(WaitingOf(c))
      /\ \A d \in Conns \ {c} : pending'[d] = pending[d]
  BY <1>2, OneFewer
<1>4. pending[c] # <<>> /\ link[c] # "none"
  BY <1>2 DEF IInv, DoorInv, Door
<1> HIDE DEF u0
<1>5. TypeInv'
  BY <1>1, <1>2, <1>3 DEF IInv, TypeInv
<1>6. DoorInv'
  <2> SUFFICES ASSUME NEW d \in Conns PROVE Door(d)'
    BY DEF DoorInv
  <2>1. Door(d) /\ (Reachable(d)' <=> Reachable(d))
    BY <1>2 DEF IInv, DoorInv, Reachable
  <2>2. CASE d = c
    BY <1>1, <1>2, <1>4, <2>1, <2>2 DEF IInv, TypeInv, Door
  <2>3. CASE d # c
    <3>1. joined'[d] = joined[d] /\ session'[d] = session[d] /\ (d \in members' <=> d \in members)
      BY <1>1, <2>3 DEF IInv, TypeInv
    <3>2. link[d] = "none" => d \notin members
      BY <2>1 DEF Door
    <3>3. d \notin members => down'[d] = down[d]
      BY <1>1, <2>3
    <3>4. pending'[d] = pending[d]
      BY <1>3, <2>3
    <3> QED BY <1>2, <2>1, <3>1, <3>2, <3>3, <3>4 DEF Door
  <2> QED BY <2>2, <2>3
<1>7. HelloInv'
  <2>1. Len(pending[c]) \in Nat /\ Len(pending'[c]) \in Nat
    BY <1>3, LenProperties DEF IInv, TypeInv
  <2> QED BY <1>2, <1>3, <2>1, HelloKept
<1>8. IdentInv'
  <2> SUFFICES ASSUME NEW d \in Conns PROVE Ident(d)'
    BY DEF IdentInv
  <2>1. Ident(d) /\ WaitingOf(d)' = WaitingOf(d) /\ \A u : GoodFor(d, u)' <=> GoodFor(d, u)
    BY <1>2 DEF IInv, IdentInv, WaitingOf, GoodFor
  <2>2. CASE d = c
    BY <1>1, <1>2, <1>3, <2>1, <2>2 DEF IInv, TypeInv, Ident, u0
  <2>3. CASE d # c
    BY <1>1, <1>2, <1>3, <2>1, <2>3 DEF IInv, TypeInv, Ident
  <2> QED BY <2>2, <2>3
<1>9. UpInv'
  BY <1>2 DEF IInv, UpInv
<1>10. FollowInv' /\ CursorInv'
  BY EnterPages
<1> QED BY <1>5, <1>6, <1>7, <1>8, <1>9, <1>10 DEF IInv

LEMMA VerifiedStep ==
  ASSUME IInv, NEW c \in Conns, OnVerified(c)
  PROVE  IInv'
<1>1. PICK i \in DOMAIN pending[c] :
        /\ pending[c][i].stage # "room"
        /\ \/ /\ Authorized(pending[c][i].token)
              /\ userId' = [userId EXCEPT ![c] = UserFor(c, pending[c][i])]
              /\ pending' = [pending EXCEPT ![c][i].stage = "room"] /\ UNCHANGED ready
           \/ pending' = [pending EXCEPT ![c] = RemoveAt(@, i)] /\ CloseWith(c) /\ UNCHANGED userId
        /\ UNCHANGED <<requireAuth, link, joined, session, members, shown, replaced, alive,
                       up, down, peers, cursors, said>>
  BY DEF OnVerified, Waits, room, wire, page
<1> DEFINE w == pending[c][i]
<1>2. /\ pending[c] \in Seq(Waiting) /\ Len(pending[c]) \in Nat /\ i \in 1 .. Len(pending[c])
      /\ pending[c] \in Seq(WaitingOf(c)) /\ w \in Waiting /\ w \in WaitingOf(c)
  BY LenProperties, ElementOfSeq DEF IInv, TypeInv, IdentInv, Ident
<1>3. pending[c] # <<>> /\ link[c] # "none"
  BY <1>2 DEF IInv, DoorInv, Door
<1>4. UserFor(c, w) \in UsersOf(c) /\ UserFor(c, w) \in Users /\ UserFor(c, w) # NoUser
  BY <1>2, UserForTypes, UsersOfTypes DEF WaitingOf
<1>5. requireAuth /\ Authorized(w.token) => GoodFor(c, UserFor(c, w))
  BY <1>2 DEF Authorized, GoodFor, UserFor, WaitingOf
<1> HIDE DEF w
<1>6. /\ ready' \in [Conns -> {"none", "open", "closing", "closed"}]
      /\ ready'[c] = "open" => ready[c] = "open"
      /\ ready'[c] = "closed" <=> ready[c] = "closed"
      /\ \A d \in Conns \ {c} : ready'[d] = ready[d]
  <2>1. CASE CloseWith(c)
    BY <2>1, CloseWithFacts DEF IInv
  <2>2. CASE UNCHANGED ready
    BY <2>2 DEF IInv, TypeInv
  <2> QED BY <1>1, <2>1, <2>2
<1>7. /\ pending' \in [Conns -> Seq(Waiting)]
      /\ Len(pending'[c]) \in Nat /\ Len(pending'[c]) <= Len(pending[c])
      /\ pending'[c] \in Seq(WaitingOf(c)')
      /\ \A d \in Conns \ {c} : pending'[d] = pending[d]
      /\ userId' \in [Conns -> Users \cup {NoUser}]
      /\ \A d \in Conns \ {c} : userId'[d] = userId[d]
      /\ userId'[c] = userId[c]
         \/ (userId'[c] = UserFor(c, w) /\ userId'[c] # NoUser
             /\ (requireAuth => GoodFor(c, UserFor(c, w))))
  <2>1. CASE /\ Authorized(w.token) /\ userId' = [userId EXCEPT ![c] = UserFor(c, w)]
             /\ pending' = [pending EXCEPT ![c][i].stage = "room"]
    <3> DEFINE r == [w EXCEPT !.stage = "room"]
    <3>1. r \in Waiting /\ r.token = w.token
      BY <1>2 DEF Waiting
    <3>2. userId'[c] = UserFor(c, w) /\ \A d \in Conns \ {c} : userId'[d] = userId[d]
      BY <2>1 DEF IInv, TypeInv
    <3>3. WaitingOf(c) \subseteq WaitingOf(c)' /\ r \in WaitingOf(c)'
      BY <1>1, <1>2, <1>4, <3>1, <3>2 DEF WaitingOf
    <3> HIDE DEF r
    <3>4. pending'[c] = [pending[c] EXCEPT ![i] = r] /\ \A d \in Conns \ {c} : pending'[d] = pending[d]
      BY <2>1 DEF IInv, TypeInv, w, r
    <3>5. pending'[c] \in Seq(Waiting) /\ Len(pending'[c]) = Len(pending[c])
      BY <1>2, <3>1, <3>4, WithOneReplaced
    <3>6. pending'[c] \in Seq(WaitingOf(c)')
      <4>1. pending[c] \in Seq(WaitingOf(c)')
        BY <1>2, <3>3, SeqWider
      <4> QED BY <1>2, <3>3, <3>4, <4>1, WithOneReplaced
    <3>7. pending' \in [Conns -> Seq(Waiting)]
      BY <2>1, <3>4, <3>5 DEF IInv, TypeInv
    <3> QED BY <1>2, <1>4, <1>5, <2>1, <3>2, <3>4, <3>5, <3>6, <3>7 DEF IInv, TypeInv
  <2>2. CASE pending' = [pending EXCEPT ![c] = RemoveAt(@, i)] /\ UNCHANGED userId
    <3>1. WaitingOf(c)' = WaitingOf(c)
      BY <1>1, <2>2 DEF WaitingOf
    <3>2. /\ pending' \in [Conns -> Seq(Waiting)] /\ Len(pending'[c]) = Len(pending[c]) - 1
          /\ pending'[c] \in Seq(WaitingOf(c))
          /\ \A d \in Conns \ {c} : pending'[d] = pending[d]
      <4>1. i \in DOMAIN pending[c] /\ pending' = [pending EXCEPT ![c] = RemoveAt(@, i)]
        BY <2>2
      <4> QED BY <4>1, OneFewer
    <3>3. Len(pending'[c]) \in Nat /\ Len(pending[c]) \in Nat
      BY <3>2, LenProperties DEF IInv, TypeInv
    <3>4. Len(pending'[c]) <= Len(pending[c])
      BY <3>2, <3>3
    <3>5. userId' \in [Conns -> Users \cup {NoUser}] /\ \A d \in Conns : userId'[d] = userId[d]
      BY <2>2 DEF IInv, TypeInv
    <3>6. pending'[c] \in Seq(WaitingOf(c)')
      BY <3>1, <3>2
    <3> QED BY <3>2, <3>3, <3>4, <3>5, <3>6
  <2> QED BY <1>1, <2>1, <2>2 DEF w
<1>8. HelloInv'
  BY <1>1, <1>7, HelloKept
<1>9. TypeInv'
  BY <1>1, <1>6, <1>7 DEF IInv, TypeInv
<1>10. \A d \in Conns : Reachable(d)' => Reachable(d)
  BY <1>1, <1>6 DEF Reachable
<1>11. DoorInv'
  <2> SUFFICES ASSUME NEW d \in Conns PROVE Door(d)'
    BY DEF DoorInv
  <2>1. Door(d) /\ (ready'[d] = "closed" <=> ready[d] = "closed")
    BY <1>6 DEF IInv, DoorInv
  <2>2. link[d] = "none" => pending'[d] = pending[d]
    BY <1>3, <1>7
  <2> QED BY <1>1, <1>10, <2>1, <2>2 DEF Door
<1>12. FollowInv' /\ CursorInv'
  BY <1>1, <1>10, PagesKeep DEF IInv, TypeInv
<1>13. UpInv'
  BY <1>1 DEF IInv, UpInv
<1>14. IdentInv'
  <2> SUFFICES ASSUME NEW d \in Conns PROVE Ident(d)'
    BY DEF IdentInv
  <2>1. Ident(d) /\ \A u : GoodFor(d, u)' <=> GoodFor(d, u)
    BY <1>1 DEF IInv, IdentInv, GoodFor
  <2>2. CASE d = c
    BY <1>1, <1>4, <1>7, <2>1, <2>2 DEF Ident
  <2>3. CASE d # c
    BY <1>1, <1>7, <2>1, <2>3 DEF Ident, WaitingOf
  <2> QED BY <2>2, <2>3
<1> QED BY <1>8, <1>9, <1>11, <1>12, <1>13, <1>14 DEF IInv

LEMMA StepIInv == IInv /\ [Next]_vars => IInv'
<1> SUFFICES ASSUME IInv, [Next]_vars PROVE IInv'
  OBVIOUS
<1>1. CASE Next
  <2>1. PICK c \in Conns :
          \/ Dial(c) \/ Greet(c) \/ Say(c) \/ Leave(c) \/ Lose(c) \/ Receive(c)
          \/ OnHello(c) \/ OnVerified(c) \/ Enter(c) \/ OnMessage(c) \/ OnClose(c)
          \/ Tick(c) \/ OnPong(c) \/ OnError(c)
    BY <1>1 DEF Next
  <2> QED BY <2>1, DialStep, SayStep, LeaveStep, ReceiveStep, HelloStep, VerifiedStep, EnterStep, MessageStep,
             CloseStep, TickStep
<1>2. CASE UNCHANGED vars
  <2>1. UNCHANGED <<requireAuth, link, ready, joined, pending, userId, session, members, shown, replaced, alive,
                    up, down, peers, cursors, said>>
    BY <1>2 DEF vars, door, room, wire, page
  <2>2. FollowInv' /\ CursorInv'
    BY <2>1, PagesKeep DEF IInv, TypeInv, Reachable
  <2>3. IdentInv'
    BY <2>1, IdentKeeps DEF IInv
  <2>4. TypeInv' /\ HelloInv' /\ UpInv'
    BY <2>1 DEF IInv, TypeInv, HelloInv, UpInv
  <2>5. DoorInv'
    BY <2>1 DEF IInv, DoorInv, Door, Reachable
  <2> QED BY <2>2, <2>3, <2>4, <2>5 DEF IInv
<1> QED BY <1>1, <1>2

-------------------------------------------------------------------------------
(* The theorems *)

\* Whatever connections come, greet, speak and go, however many hellos are being
\* verified at once: the room, the messages on their way and the pages stay consistent
\* in the way IInv says.
THEOREM Invariance == Spec => []IInv
<1>1. Init => IInv
  BY InitIInv
<1>2. IInv /\ [Next]_vars => IInv'
  BY StepIInv
<1> QED BY <1>1, <1>2, PTL DEF Spec

\* The variables keep their shapes; whoever is in the room finished the handshake and has a
\* user (handleConnection of index.ts:145-266).
THEOREM TypeCorrect == Spec => []TypeOK
<1>1. IInv => TypeOK
  <2> SUFFICES ASSUME IInv PROVE TypeOK
    OBVIOUS
  <2>1. ASSUME NEW c \in Conns
        PROVE  /\ Len(pending[c]) <= said[c].hello
               /\ ToSet(pending[c]) \subseteq [token : Tokens, n : {1, 2}, stage : {"verify", "room"}]
               /\ userId[c] \in Users \cup {NoUser} /\ (Resuming(c) => userId[c] # NoUser)
               /\ session[c] \in Users \cup {NoUser} /\ (joined[c] <=> session[c] # NoUser)
               /\ peers[c] \cup cursors[c] \subseteq Users
               /\ said[c] \in [hello : 0 .. MaxHellos[c], other : 0 .. MaxSays[c]]
    <3>1. /\ Cardinality(Hellos(up[c])) \in Nat /\ Len(pending[c]) \in Nat /\ said[c].hello \in Nat
          /\ pending[c] \in Seq(Waiting)
      BY HellosFinite, LenProperties DEF IInv, TypeInv
    <3>2. Len(pending[c]) <= said[c].hello
      BY <3>1 DEF IInv, HelloInv
    <3>3. ToSet(pending[c]) \subseteq [token : Tokens, n : {1, 2}, stage : {"verify", "room"}]
      <4>1. \A i \in 1 .. Len(pending[c]) : pending[c][i] \in Waiting
        BY <3>1, ElementOfSeq
      <4>2. DOMAIN pending[c] = 1 .. Len(pending[c])
        BY <3>1, LenProperties
      <4>3. ToSet(pending[c]) \subseteq Waiting
        BY <4>1, <4>2 DEF ToSet
      <4> QED BY <4>3 DEF Waiting
    <3>3a. Resuming(c) => userId[c] # NoUser
      <4>1. \A i \in DOMAIN pending[c] : pending[c][i] \in WaitingOf(c)
        BY ElementOfSeq, LenProperties DEF IInv, IdentInv, Ident
      <4> QED BY <4>1 DEF Resuming, Waits, WaitingOf
    <3>4. joined[c] <=> session[c] # NoUser
      BY DEF IInv, DoorInv, Door
    <3>5. said[c] \in [hello : 0 .. MaxHellos[c], other : 0 .. MaxSays[c]]
      <4>1. MaxHellos[c] \in Nat /\ MaxSays[c] \in Nat
        BY ConfigAssumption
      <4> QED BY <4>1 DEF IInv, TypeInv
    <3> QED BY <3>2, <3>3, <3>3a, <3>4, <3>5 DEF IInv, TypeInv
  <2>2. members \subseteq {c \in Conns : joined[c]}
    BY DEF IInv, TypeInv, DoorInv, Door
  <2> QED BY <2>1, <2>2 DEF IInv, TypeInv, TypeOK
<1> QED BY <1>1, Invariance, PTL

\* The page of every member that can be reached is on its way to show the users of the
\* other members: welcome and peer messages are sent in the order in which the room
\* changes (addClient and removeClient of room.ts:57-86, handle of useRoom.ts:93-131).
\* The exceptions are what they are for any number of connections: the user of a session
\* that a second hello overwrote, and a user with several connections.
THEOREM PeersFollow == Spec => []PeersFollowMembers
<1>1. IInv => PeersFollowMembers
  <2> SUFFICES ASSUME IInv, NEW c \in members, Reachable(c)
               PROVE  LET list   == {u \in Users : WillShow(c, u)}
                          others == {session[d] : d \in members \ {c}}
                      IN  list \ others \subseteq replaced /\ others \ list \subseteq Shared
    BY DEF PeersFollowMembers
  <2>1. Follows(c)
    BY DEF IInv, FollowInv
  <2>2. \A u : WillShow(c, u) <=> Shown(down[c], Len(down[c]), u, peers[c])
    BY DEF WillShow, Shown
  <2>3. \A d \in members : session[d] \in Users
    BY UsersOfTypes DEF IInv, TypeInv, DoorInv, Door
  <2> QED BY <2>1, <2>2, <2>3 DEF Follows
<1> QED BY <1>1, Invariance, PTL

\* A cursor on the screen belongs to somebody in the list of peers: relayCursor sends it
\* for a member only, of whom everybody was told before, and the news that the member is
\* gone takes both away (room.ts:57-86, 145-151, useRoom.ts:109-131), with the same two
\* exceptions.
THEOREM CursorsFollow == Spec => []CursorsHavePeers
<1>1. IInv => CursorsHavePeers
  BY DEF IInv, TypeInv, CursorInv, Cursor, CursorsHavePeers
<1> QED BY <1>1, Invariance, PTL

\* Where authentication is required, nobody is in the room as a user for whom its connection
\* has not shown a token that is good for this room.  With any number of hellos that share
\* userId between their awaits, this takes that each sets it only after authorizeRoom
\* (index.ts:173-206).
THEOREM AuthorizedOnly == Spec => []OnlyAuthorized
<1>1. IInv => OnlyAuthorized
  BY DEF IInv, TypeInv, DoorInv, Door, IdentInv, Ident, GoodFor, OnlyAuthorized
<1> QED BY <1>1, Invariance, PTL
===============================================================================
