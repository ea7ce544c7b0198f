----------------------------- MODULE MCCanvasLive -----------------------------
(* Two or three page loads, a shape with two fields and a stroke on the board. *)
EXTENDS CanvasLive

Shape(id) == [id |-> id, createdAt |-> 0, updatedAt |-> 0,
              fields |-> [k \in {"x", "y", "points"} |-> IF k = "points" THEN <<0>> ELSE 0]]
MCDoc == [i \in {<<0, 0>>} |-> Shape(i)]
MCNewShape(u, i) == Shape(i)

TwoTabs == {1, 2}
ThreeTabs == {1, 2, 3}
OneOrBoth == {{"x"}, {"x", "y"}}
TwoAndOne == [t \in TwoTabs |-> 3 - t]
OneOneNone == [t \in Tabs |-> IF t = 3 THEN 0 ELSE 1]
OneEach == [t \in Tabs |-> 1]
OwnUsers == [t \in Tabs |-> t]
OneUser == [t \in Tabs |-> 1]
===============================================================================
