------------------------------ MODULE MCAdmission ------------------------------
(* A token takes two milliseconds, and one of them fits into the bucket.  Ops  *)
(* on one drawable: within the limits and beyond, of another kind than their   *)
(* members belong to, with values of another form, and without any.            *)
EXTENDS Admission

MCLimit == [f \in Data |-> IF f = "points" THEN 2 ELSE 1]
D == "d"

Op(type, kind, data) == [type |-> type, id |-> D, kind |-> kind, data |-> data]
Points(v) == [f \in {"points"} |-> v]
Text(v) == [f \in {"text"} |-> v]

Value(form, n) == [append |-> FALSE, form |-> form, size |-> n]
Appended(n) == [append |-> TRUE, form |-> "list", size |-> n]

MCOps ==
  {Op("add", "stroke", Points(Value("list", 2))),
   Op("add", "stroke", Points(Value("list", 3))),      \* refused
   Op("add", "text", Points(Value("list", 3))),        \* not asked
   Op("add", "stroke", Text(Value("string", 3))),      \* not asked
   Op("patch", "stroke", Points(Value("list", 3))),    \* not asked
   Op("patch", Same, Points(Value("other", 0))),
   Op("patch", Same, Points(Appended(1))),
   Op("patch", Same, Points(Appended(2))),             \* refused
   Op("patch", "text", Text(Value("string", 3))),      \* refused
   Op("patch", "text", EmptyDoc),
   Op("patch", Same, Text(Appended(3))),
   [type |-> "remove", id |-> D]}
===============================================================================
