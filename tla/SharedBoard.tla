------------------------------ MODULE SharedBoard ------------------------------
(***************************************************************************)
(* What the board promises the people at it, whatever is in flight: one    *)
(* line of documents, each made from the one before by one op somebody     *)
(* drafted, every op at most once and each author's in order; and a screen *)
(* per tab that shows each edit at once, follows that line one document at *)
(* a time, never backwards, and shows nothing but the document it is at    *)
(* and the tab's own draft.  CanvasLive implements this specification.     *)
(***************************************************************************)
EXTENDS OTClient

CONSTANT Tabs

VARIABLES docs,      \* the documents, oldest first
          clock,     \* the stamp of the newest
          online,    \* the tabs that are connected
          loaded,    \* the tabs that show a board
          at,        \* at[t]: the document tab t has come to, 0 before it is opened
          draft,     \* draft[t]: its own ops that are not in that document
          done,      \* done[t]: how many of them are in a later one
          screen,    \* screen[t]: what it shows
          refused    \* the tabs an op of which was turned down
vars == <<docs, clock, online, loaded, at, draft, done, screen, refused>>

Init ==
  /\ Len(docs) = 1 /\ clock \in Nat
  /\ online = {} /\ loaded = {} /\ refused = {}
  /\ at = [t \in Tabs |-> 0]
  /\ draft = [t \in Tabs |-> <<>>] /\ done = [t \in Tabs |-> 0]
  /\ screen = [t \in Tabs |-> EmptyDoc]

\* A page is loaded once, and is sent the document of that moment,
Load(t) ==
  /\ at[t] = 0
  /\ at' = [at EXCEPT ![t] = Len(docs)]
  /\ online' = online \cup {t}
  /\ UNCHANGED <<docs, clock, loaded, draft, done, screen, refused>>

\* which is the first it shows.
Show(t) ==
  /\ t \in online \ loaded
  /\ loaded' = loaded \cup {t}
  /\ screen' = [screen EXCEPT ![t] = docs[at[t]]]
  /\ UNCHANGED <<docs, clock, online, at, draft, done, refused>>

Unplug(t) ==
  /\ t \in online
  /\ online' = online \ {t}
  /\ UNCHANGED <<docs, clock, loaded, at, draft, done, screen, refused>>

\* An edit is on the screen at once, connected or not.
Edit(t) ==
  /\ t \in loaded /\ Len(draft'[t]) = Len(draft[t]) + 1
  /\ draft' = [draft EXCEPT ![t] = Append(@, Last(draft'[t]))]
  /\ screen' = [screen EXCEPT ![t] = Apply(@, Last(draft'[t]))]
  /\ UNCHANGED <<docs, clock, online, loaded, at, done, refused>>

\* The next op of a draft, with a stamp of its own, makes the next document, whether
\* its author is still there or not.
Commit(t) ==
  /\ \E i \in DOMAIN draft[t] :
       /\ t \notin refused => i = done[t] + 1
       /\ clock' > Larger(clock, draft[t][i].lamport)
       /\ docs' = Append(docs, Apply(Last(docs),
                    [draft[t][i] EXCEPT !.lamport = clock', !.serverSeq = Len(docs)]))
  /\ done' = [done EXCEPT ![t] = @ + 1]
  /\ UNCHANGED <<online, loaded, at, draft, screen, refused>>

Refuse(t) ==
  /\ draft[t] # <<>>
  /\ refused' = refused \cup {t}
  /\ UNCHANGED <<docs, clock, online, loaded, at, draft, done, screen>>

\* The shapes that were removed twice, by others in the document and in the draft.
RemovedTwice(doc, ops) ==
  LET ids(type) == {op.id : op \in {o \in ToSet(ops) : o.type = type}}
  IN  ids("remove") \ (DOMAIN doc \cup ids("add"))

\* shown is a mixture of a document and the draft on top of it: the drawables of the
\* latter, with the fields of either.  A shape removed twice may come back: see Follow.
Mixture(shown, doc, ops) ==
  LET mine == ApplyAll(doc, ops) IN
  /\ DOMAIN mine \subseteq DOMAIN shown
  /\ DOMAIN shown \subseteq DOMAIN mine \cup RemovedTwice(doc, ops)
  /\ \A i \in DOMAIN mine : \A f \in DOMAIN shown[i].fields :
       \/ f \in DOMAIN mine[i].fields /\ shown[i].fields[f] = mine[i].fields[f]
       \/ i \in DOMAIN doc /\ f \in DOMAIN doc[i].fields /\ shown[i].fields[f] = doc[i].fields[f]

\* One document further.  If it is the tab's own op that is in it, the draft gets
\* shorter.  With nothing drafted the screen shows the document.
Follow(t) ==
  /\ t \in online \cap loaded /\ at[t] < Len(docs)
  /\ at' = [at EXCEPT ![t] = @ + 1]
  /\ \/ /\ done[t] > 0
        /\ draft' = [draft EXCEPT ![t] = Tail(@)] /\ done' = [done EXCEPT ![t] = @ - 1]
     \/ UNCHANGED <<draft, done>>
  /\ screen' = [screen EXCEPT ![t] = screen'[t]]
  /\ t \notin refused =>
       /\ draft'[t] = <<>> => screen'[t] = docs[at'[t]]
       /\ Mixture(screen'[t], docs[at'[t]], draft'[t])
  /\ UNCHANGED <<docs, clock, online, loaded, refused>>

Next == \E t \in Tabs : \/ Load(t) \/ Show(t) \/ Unplug(t) \/ Edit(t)
                        \/ Commit(t) \/ Refuse(t) \/ Follow(t)

Spec == Init /\ [][Next]_vars
===============================================================================
