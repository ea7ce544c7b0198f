------------------------------- MODULE Presence -------------------------------
(***************************************************************************)
(* The connections of one room: handleConnection of server/src/index.ts    *)
(* with the handshake and its await, addClient, removeClient and           *)
(* relayCursor of server/src/room.ts, the heartbeat, and the peers and     *)
(* cursors that useRoom keeps in the page.  Ops are in CanvasLive.         *)
(*                                                                         *)
(* A connection is used once: a page that is reloaded is another one,      *)
(* perhaps of the same user.  A user is named by a token, <<u, 0>>, or is  *)
(* anonymous, <<c, n>> for the id made for the n-th hello of connection c. *)
(***************************************************************************)
EXTENDS Naturals, Sequences, SequencesExt

CONSTANTS Conns,        \* connections
          Subjects,     \* the users that tokens name
          TokensOf,     \* TokensOf[c]: what the hellos of c may carry
          Fragile,      \* bound: the connections whose network may fail or stall
          Says,         \* Says[c]: the other messages c sends
          MaxSays,      \* bound: MaxSays[c] of them
          MaxHellos     \* bound: MaxHellos[c] hellos of c; the page sends one

\* No token; one that verifies, for this room or for others, and names a user; one
\* that does not verify.
NoToken == [kind |-> "none"]
Tokens == {NoToken, [kind |-> "bad"]} \cup [kind : {"good", "elsewhere"}, user : Subjects]

\* A cursor; a message that only its sender notices, if anybody (an op, an ack, a
\* ping); one that is never accepted (binary, not JSON, another room, another user).
Messages == {"cursor", "quiet", "bad"}

ASSUME ConfigAssumption ==
  /\ Fragile \subseteq Conns
  /\ TokensOf \in [Conns -> SUBSET Tokens] /\ Says \in [Conns -> SUBSET Messages]
  /\ MaxSays \in [Conns -> Nat] /\ MaxHellos \in [Conns -> {1, 2}]

VARIABLES
  requireAuth,  \* config.requireAuth, read when the process starts
  link,      \* link[c]: the network and the page, as the page sees them
  ready,     \* ready[c]: ws.readyState at the server; "closed" once "close" was emitted
  joined,    \* joined[c]: the flag of that name in the handler
  pending,   \* pending[c]: the hellos that wait, each at its first or second await
  userId,    \* userId[c]: the variable of that name, which all hellos of c share
  alive,     \* alive[c]: the flag of the heartbeat
  members,   \* the connections with a session in Room.clients
  session,   \* session[c]: the userId in it, or in the last one c had
  up, down,  \* the messages on their way
  peers,     \* peers[c]: the keys of peersRef.current
  cursors,   \* cursors[c]: the keys of cursorsRef.current
  said,      \* said[c]: messages and hellos sent so far
  shown,     \* history: shown[c], the tokens in the hellos of c that were handled
  replaced   \* history: the users whose session was overwritten

wire == <<up, down>>
page == <<peers, cursors, said>>
room == <<members, session, replaced>>
door == <<joined, pending, userId, shown, room>>
vars == <<requireAuth, link, ready, door, alive, wire, page>>

NoUser == <<>>

Init ==
  /\ requireAuth \in BOOLEAN
  /\ link = [c \in Conns |-> "none"]
  /\ ready = [c \in Conns |-> "none"]
  /\ joined = [c \in Conns |-> FALSE]
  /\ pending = [c \in Conns |-> <<>>]
  /\ userId = [c \in Conns |-> NoUser]
  /\ alive = [c \in Conns |-> TRUE]
  /\ members = {} /\ session = [c \in Conns |-> NoUser]
  /\ up = [c \in Conns |-> <<>>] /\ down = [c \in Conns |-> <<>>]
  /\ peers = [c \in Conns |-> {}] /\ cursors = [c \in Conns |-> {}]
  /\ said = [c \in Conns |-> [hello |-> 0, other |-> 0]]
  /\ shown = [c \in Conns |-> {}] /\ replaced = {}

-------------------------------------------------------------------------------
(* The page *)

HelloMsg(token, n) == [type |-> "hello", token |-> token, n |-> n]

\* The socket opens and onopen sends hello.
Dial(c) ==
  /\ link[c] = "none"
  /\ link' = [link EXCEPT ![c] = "up"]
  /\ ready' = [ready EXCEPT ![c] = "open"]
  /\ \E token \in TokensOf[c] : up' = [up EXCEPT ![c] = <<HelloMsg(token, 1)>>]
  /\ said' = [said EXCEPT ![c].hello = 1]
  /\ UNCHANGED <<requireAuth, door, alive, down, peers, cursors>>

\* A client that greets again.
Greet(c) ==
  /\ link[c] = "up" /\ said[c].hello < MaxHellos[c]
  /\ said' = [said EXCEPT ![c].hello = @ + 1]
  /\ \E token \in TokensOf[c] :
       up' = [up EXCEPT ![c] = Append(@, HelloMsg(token, said[c].hello + 1))]
  /\ UNCHANGED <<requireAuth, link, ready, door, alive, down, peers, cursors>>

\* send, from sendCursor for one: it asks whether the socket is open, not whether the
\* hello was answered.
Say(c) ==
  /\ link[c] = "up" /\ said[c].other < MaxSays[c]
  /\ said' = [said EXCEPT ![c].other = @ + 1]
  /\ \E m \in Says[c] : up' = [up EXCEPT ![c] = Append(@, [type |-> m])]
  /\ UNCHANGED <<requireAuth, link, ready, door, alive, down, peers, cursors>>

\* The tab is closed: what it has sent still arrives, and a close frame after it.
Leave(c) ==
  /\ link[c] = "up"
  /\ link' = [link EXCEPT ![c] = "leaving"]
  /\ down' = [down EXCEPT ![c] = <<>>]
  /\ peers' = [peers EXCEPT ![c] = {}] /\ cursors' = [cursors EXCEPT ![c] = {}]
  /\ UNCHANGED <<requireAuth, ready, door, alive, up, said>>

\* The network goes away without a word.
Lose(c) ==
  /\ c \in Fragile /\ link[c] \in {"up", "leaving"}
  /\ link' = [link EXCEPT ![c] = "lost"]
  /\ up' = [up EXCEPT ![c] = <<>>] /\ down' = [down EXCEPT ![c] = <<>>]
  /\ UNCHANGED <<requireAuth, ready, door, alive, page>>

\* handle, for the messages about presence
Receive(c) ==
  /\ down[c] # <<>>
  /\ LET m == Head(down[c]) IN
     \/ /\ m.type = "welcome"
        /\ peers' = [peers EXCEPT ![c] = m.peers]
        /\ UNCHANGED cursors
     \/ /\ m.type = "peer" /\ m.joined
        /\ peers' = [peers EXCEPT ![c] = @ \cup {m.user}]
        /\ UNCHANGED cursors
     \/ /\ m.type = "peer" /\ ~m.joined
        /\ peers' = [peers EXCEPT ![c] = @ \ {m.user}]
        /\ cursors' = [cursors EXCEPT ![c] = @ \ {m.user}]
     \/ /\ m.type = "cursor"
        /\ cursors' = [cursors EXCEPT ![c] = @ \cup {m.user}]
        /\ UNCHANGED peers
  /\ down' = [down EXCEPT ![c] = Tail(@)]
  /\ UNCHANGED <<requireAuth, link, ready, door, alive, up, said>>

-------------------------------------------------------------------------------
(* The server *)

\* safeSend, and a page that still listens.
Reachable(c) == ready[c] = "open" /\ link[c] = "up"

\* Every connection of "to" gets the messages msgs[c].
Send(to, msgs) ==
  down' = [c \in Conns |-> IF c \in to /\ Reachable(c) THEN down[c] \o msgs[c] ELSE down[c]]

PeerMsg(u, here) == [type |-> "peer", user |-> u, joined |-> here]

\* The welcome for c, the news of user u for the other members.
Announce(c, u, told) ==
  Send({c} \cup told, [d \in Conns |->
    <<IF d = c THEN [type |-> "welcome", peers |-> {session[e] : e \in members \ {c}}]
               ELSE PeerMsg(u, TRUE)>>])

\* closeWith: no message of ours is sent after the close frame.
CloseWith(c) == ready' = [ready EXCEPT ![c] = IF @ = "open" THEN "closing" ELSE @]

\* The first await of the hello handler is for auth.verify, the second for
\* getOrCreateRoom, whose promise is already settled.  A handler at the second one
\* goes on before anything else happens, but after what is done in the same turn:
\* other frames of the same read, which ws emits one after the other, if it has not
\* awaited auth.verify; and another hello of the connection that settles with it.
Waits(c, i) == pending[c][i].stage = "room"
Resuming(c) == \E i \in DOMAIN pending[c] : Waits(c, i)
Turn(c) == \A d \in Conns \ {c} : ~Resuming(d)
Idle == \A d \in Conns : ~Resuming(d)

\* A message can be handled until the close event.
Incoming(c, types) ==
  /\ Turn(c) /\ \A i \in DOMAIN pending[c] : Waits(c, i) => pending[c][i].token = NoToken
  /\ ready[c] # "closed"
  /\ up[c] # <<>> /\ Head(up[c]).type \in types

Pending(hello, stage) == [token |-> hello.token, n |-> hello.n, stage |-> stage]

\* The user for whom this hello asks.  A token that does not verify makes it anonymous,
\* like none.
UserFor(c, hello) ==
  IF hello.token.kind \in {"good", "elsewhere"} THEN <<hello.token.user, 0>> ELSE <<c, hello.n>>

\* Up to the first await, or, without a token, to the second.
OnHello(c) ==
  /\ Incoming(c, {"hello"})
  /\ up' = [up EXCEPT ![c] = Tail(@)]
  /\ LET hello == Head(up[c])
         named == hello.token # NoToken
     IN  /\ shown' = [shown EXCEPT ![c] = @ \cup {hello.token}]
         /\ IF joined[c] \/ (requireAuth /\ ~named)
              THEN CloseWith(c) /\ UNCHANGED <<pending, userId>>
              ELSE /\ pending' = [pending EXCEPT ![c] =
                                  Append(@, Pending(hello, IF named THEN "verify" ELSE "room"))]
                   /\ userId' = IF named THEN userId ELSE [userId EXCEPT ![c] = UserFor(c, hello)]
                   /\ UNCHANGED ready
  /\ UNCHANGED <<requireAuth, link, joined, room, alive, down, page>>

\* Mutant: a token for other rooms is good for this one.
Authorized_AnyRoom(token) == requireAuth => token.kind \in {"good", "elsewhere"}

\* verify and authorizeRoom, where authentication is required.
Authorized(token) == requireAuth => token.kind = "good"

\* Mutant: userId is set before authorizeRoom is asked.
OnVerified_UserFirst(c) ==
  /\ Turn(c)
  /\ \E i \in DOMAIN pending[c] :
       /\ ~Waits(c, i)
       /\ userId' = [userId EXCEPT ![c] = UserFor(c, pending[c][i])]
       /\ IF Authorized(pending[c][i].token)
            THEN pending' = [pending EXCEPT ![c][i].stage = "room"] /\ UNCHANGED ready
            ELSE pending' = [pending EXCEPT ![c] = RemoveAt(@, i)] /\ CloseWith(c)
  /\ UNCHANGED <<requireAuth, link, joined, shown, room, alive, wire, page>>

\* auth.verify settles, of two hellos in either order: from the first await to the
\* second.
OnVerified(c) ==
  /\ Turn(c)
  /\ \E i \in DOMAIN pending[c] :
       /\ ~Waits(c, i)
       /\ IF Authorized(pending[c][i].token)
            THEN /\ userId' = [userId EXCEPT ![c] = UserFor(c, pending[c][i])]
                 /\ pending' = [pending EXCEPT ![c][i].stage = "room"]
                 /\ UNCHANGED ready
            ELSE /\ pending' = [pending EXCEPT ![c] = RemoveAt(@, i)]
                 /\ CloseWith(c) /\ UNCHANGED userId
  /\ UNCHANGED <<requireAuth, link, joined, shown, room, alive, wire, page>>

\* A hello of c at its second await is done.
Resume(c) ==
  \E i \in DOMAIN pending[c] : Waits(c, i) /\ pending' = [pending EXCEPT ![c] = RemoveAt(@, i)]

\* Mutant: the flag "joined" is not set.
Enter_NotJoined(c) ==
  /\ Turn(c) /\ Resume(c)
  /\ members' = members \cup {c}
  /\ session' = [session EXCEPT ![c] = userId[c]]
  /\ Announce(c, userId[c], members)
  /\ UNCHANGED <<requireAuth, link, ready, joined, userId, shown, replaced, alive, up, page>>

\* Mutant: the others are not told.
Enter_Unannounced(c) ==
  /\ Turn(c) /\ Resume(c)
  /\ joined' = [joined EXCEPT ![c] = TRUE]
  /\ members' = members \cup {c}
  /\ session' = [session EXCEPT ![c] = userId[c]]
  /\ replaced' = replaced \cup ({session[d] : d \in members \cap {c}} \ {userId[c]})
  /\ Announce(c, userId[c], {})
  /\ UNCHANGED <<requireAuth, link, ready, userId, shown, alive, up, page>>

\* From the second await to the end: addClient with whatever userId is by now, and
\* the welcome.  It asks neither whether the socket is still there nor whether
\* another hello came first; then the session under this wsId is overwritten.
Enter(c) ==
  /\ Turn(c) /\ Resume(c)
  /\ joined' = [joined EXCEPT ![c] = TRUE]
  /\ members' = members \cup {c}
  /\ session' = [session EXCEPT ![c] = userId[c]]
  /\ replaced' = replaced \cup ({session[d] : d \in members \cap {c}} \ {userId[c]})
  /\ Announce(c, userId[c], members)
  /\ UNCHANGED <<requireAuth, link, ready, userId, shown, alive, up, page>>

CursorOf(c) == Send(members \ {c}, [d \in Conns |-> <<[type |-> "cursor", user |-> session[c]]>>])

\* Mutant: relayed without asking whether the sender has joined.
OnMessage_Unchecked(c) ==
  /\ Incoming(c, Messages)
  /\ up' = [up EXCEPT ![c] = Tail(@)]
  /\ CursorOf(c)
  /\ UNCHANGED <<requireAuth, link, ready, door, alive, page>>

\* Any other message.  A cursor is relayed when joined; before that it is as bad as
\* any: "hello required first".
OnMessage(c) ==
  /\ Incoming(c, Messages)
  /\ up' = [up EXCEPT ![c] = Tail(@)]
  /\ IF joined[c] /\ Head(up[c]).type # "bad"
       THEN /\ IF Head(up[c]).type = "cursor" THEN CursorOf(c) ELSE UNCHANGED down
            /\ UNCHANGED ready
       ELSE CloseWith(c) /\ UNCHANGED down
  /\ UNCHANGED <<requireAuth, link, door, alive, page>>

\* Mutant: the others are not told.
OnClose_Quiet(c) ==
  /\ Idle
  /\ ready[c] = "closing" \/ (ready[c] = "open" /\ link[c] = "leaving" /\ up[c] = <<>>)
  /\ ready' = [ready EXCEPT ![c] = "closed"]
  /\ link' = [link EXCEPT ![c] = "gone"]
  /\ up' = [up EXCEPT ![c] = <<>>]
  /\ members' = members \ {c}
  /\ UNCHANGED <<requireAuth, joined, pending, userId, session, shown, replaced, alive, down, page>>

\* The socket is down: after terminate or the close handshake, or when the close
\* frame of the page has come.  removeClient tells the others.
OnClose(c) ==
  /\ Idle
  /\ ready[c] = "closing" \/ (ready[c] = "open" /\ link[c] = "leaving" /\ up[c] = <<>>)
  /\ ready' = [ready EXCEPT ![c] = "closed"]
  /\ link' = [link EXCEPT ![c] = "gone"]
  /\ up' = [up EXCEPT ![c] = <<>>]
  /\ members' = members \ {c}
  /\ Send(IF c \in members THEN members' ELSE {}, [d \in Conns |-> <<PeerMsg(session[c], FALSE)>>])
  /\ UNCHANGED <<requireAuth, joined, pending, userId, session, shown, replaced, alive, page>>

\* Mutant: a ping that was not answered is repeated for ever.
Tick_Patient(c) ==
  /\ Idle /\ c \in Fragile /\ ready[c] \in {"open", "closing"}
  /\ alive' = [alive EXCEPT ![c] = FALSE]
  /\ UNCHANGED <<requireAuth, link, ready, door, wire, page>>

\* The 20 s interval: whoever has not answered the last ping is terminated.  On a
\* network that does not stall the answer is there long before the next tick.
Tick(c) ==
  /\ Idle /\ c \in Fragile /\ ready[c] \in {"open", "closing"}
  /\ IF alive[c]
       THEN alive' = [alive EXCEPT ![c] = FALSE] /\ UNCHANGED ready
       ELSE CloseWith(c) /\ UNCHANGED alive
  /\ UNCHANGED <<requireAuth, link, door, wire, page>>

\* The answer to a ping, which the page's browser gives by itself.
OnPong(c) ==
  /\ Idle /\ Reachable(c) /\ ~alive[c]
  /\ alive' = [alive EXCEPT ![c] = TRUE]
  /\ UNCHANGED <<requireAuth, link, ready, door, wire, page>>

\* The "error" event of a broken connection: terminate.
OnError(c) ==
  /\ Idle /\ link[c] = "lost" /\ ready[c] = "open"
  /\ CloseWith(c)
  /\ UNCHANGED <<requireAuth, link, door, alive, wire, page>>

Next == \E c \in Conns :
  \/ Dial(c) \/ Greet(c) \/ Say(c) \/ Leave(c) \/ Lose(c) \/ Receive(c)
  \/ OnHello(c) \/ OnVerified(c) \/ Enter(c) \/ OnMessage(c) \/ OnClose(c)
  \/ Tick(c) \/ OnPong(c) \/ OnError(c)

Spec == Init /\ [][Next]_vars

\* The event loop runs what has happened: messages, settled promises, timers and
\* close events.  Nobody has to connect, speak, leave or answer.
Fairness == \A c \in Conns :
  /\ WF_vars(OnHello(c) \/ OnMessage(c)) /\ WF_vars(OnVerified(c)) /\ WF_vars(Enter(c))
  /\ WF_vars(OnClose(c)) /\ WF_vars(Tick(c)) /\ WF_vars(Receive(c))
FairSpec == Spec /\ Fairness

-------------------------------------------------------------------------------
(* Properties *)

Users == (Subjects \X {0}) \cup (Conns \X {1, 2})

\* The shapes of the variables; only sessions that finished the handshake are in
\* the room, and each has a user, as has a hello that is about to make one.
TypeOK ==
  /\ requireAuth \in BOOLEAN
  /\ link \in [Conns -> {"none", "up", "leaving", "lost", "gone"}]
  /\ ready \in [Conns -> {"none", "open", "closing", "closed"}]
  /\ joined \in [Conns -> BOOLEAN] /\ alive \in [Conns -> BOOLEAN]
  /\ members \subseteq {c \in Conns : joined[c]}
  /\ shown \in [Conns -> SUBSET Tokens] /\ replaced \subseteq Users
  /\ \A c \in Conns :
       /\ Len(pending[c]) <= said[c].hello
       /\ ToSet(pending[c]) \subseteq [token : Tokens, n : {1, 2}, stage : {"verify", "room"}]
       /\ userId[c] \in Users \cup {NoUser} /\ (Resuming(c) => userId[c] # NoUser)
       /\ session[c] \in Users \cup {NoUser} /\ (joined[c] <=> session[c] # NoUser)
       /\ peers[c] \cup cursors[c] \subseteq Users
       /\ said[c] \in [hello : 0 .. MaxHellos[c], other : 0 .. MaxSays[c]]

\* Message m decides whether user u is shown as a peer, and how.
About(m, u)  == m.type = "welcome" \/ (m.type = "peer" /\ m.user = u)
Shows(m, u)  == IF m.type = "welcome" THEN u \in m.peers ELSE m.joined

\* c shows u as a peer once it has received everything that is on its way.
WillShow(c, u) ==
  LET about == {i \in 1 .. Len(down[c]) : About(down[c][i], u)}
  IN  IF about = {} THEN u \in peers[c]
      ELSE \E i \in about : (\A j \in about : j <= i) /\ Shows(down[c][i], u)

\* The users that several connections may come from.
Names(c) == {<<t.user, 0>> : t \in {t \in TokensOf[c] : t.kind \in {"good", "elsewhere"}}}
Shared == {u \in Users : \E c, d \in Conns : c # d /\ u \in Names(c) \cap Names(d)}

\* The page of every member that can be reached is on its way to show the users of
\* the other members, whatever interleaving of handshakes, departures and messages
\* led here (room.ts:57-86, useRoom.ts:93-131).  Nobody else is shown, but the user of
\* a session that a second hello overwrote; nobody is missing, but a user with
\* several tabs: the list has one entry for all of them.
PeersFollowMembers ==
  \A c \in members : Reachable(c) =>
    LET list   == {u \in Users : WillShow(c, u)}
        others == {session[d] : d \in members \ {c}}
    IN  list \ others \subseteq replaced /\ others \ list \subseteq Shared

\* A cursor on the screen belongs to somebody in the list of peers: it comes after
\* its owner and goes with it (useRoom.ts:109-131), with the same two exceptions.
CursorsHavePeers == \A c \in Conns : cursors[c] \ peers[c] \subseteq Shared \cup replaced

\* Where authentication is required, whoever is in the room is a user whom a token in a
\* hello of this very connection names, and the token is good for this room: however
\* many hellos share userId while they wait, none brings in the user of another one
\* that was, or will be, turned away (index.ts:173-206).
OnlyAuthorized ==
  requireAuth => \A c \in members : \E t \in shown[c] : t.kind = "good" /\ session[c] = <<t.user, 0>>

\* "peer disconnect removes cursor" (e2e/tests/convergence.spec.ts:102-118): a
\* connection that is closed is no longer in the room, and so on nobody's screen.
MembersAreConnected == \A c \in members : ready[c] # "closed"

\* "hello required first" (index.ts:163-166): who is turned away with this message
\* has not sent a hello.
HelloWasMissing ==
  \A c \in Conns : Incoming(c, {"cursor"}) /\ ~joined[c] => pending[c] = <<>>

\* "disconnect if no pong" (index.ts:250): a connection without a token that left, with
\* or without a word, or was turned away, is taken out of the room.
LeaversAreRemoved ==
  \A c \in Conns : TokensOf[c] = {NoToken} =>
    (link[c] \in {"leaving", "lost"} \/ ready[c] = "closing"
       ~> c \notin members /\ ready[c] = "closed")

===============================================================================
