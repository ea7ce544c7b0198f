------------------------------ MODULE MCPresence ------------------------------
(* The handshakes: a page without a token, a client with one, and a client     *)
(* that greets twice, as itself, as the other with a token for other rooms, or *)
(* with a token that does not verify.  And leaving: two pages, one without a   *)
(* token on a network that fails.                                              *)
EXTENDS Presence

Good(u) == [kind |-> "good", user |-> u]
Elsewhere(u) == [kind |-> "elsewhere", user |-> u]
Bad == [kind |-> "bad"]

Named == {"u", "v"}
Three == {"a", "b", "c"}
ThreeTokens == [x \in Three |-> CASE x = "a" -> {NoToken} [] x = "b" -> {Good("u")}
                                  [] x = "c" -> {Good("v"), Elsewhere("u"), Bad}]
ThreeSay == [x \in Three |-> {"cursor"}]
ThreeMaxSays == [x \in Three |-> IF x = "a" THEN 1 ELSE 0]
ThreeHellos == [x \in Three |-> IF x = "c" THEN 2 ELSE 1]

Two == {"a", "b"}
Stalling == {"a"}
TwoTokens == [x \in Two |-> IF x = "a" THEN {NoToken} ELSE {Good("u"), Bad}]
TwoSay == [x \in Two |-> IF x = "a" THEN Messages ELSE {"cursor"}]
TwoMaxSays == [x \in Two |-> 1]
NoTokens == [x \in Two |-> {NoToken}]
TwoHellos == [x \in Two |-> IF x = "a" THEN 2 ELSE 1]
===============================================================================
