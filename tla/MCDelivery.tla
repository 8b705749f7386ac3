----------------------------- MODULE MCDelivery -----------------------------
(***************************************************************************)
(* Model values and plans for Delivery: the two of the deterministic       *)
(* planner, one of a model that inspects twice at once, and two that no    *)
(* validation lets pass.                                                   *)
(***************************************************************************)
EXTENDS Delivery, TLC

CONSTANTS n1, n2, n3, n4, solo, team, main_engine, ghost, torn, closed

MCNodes       == {n1, n2, n3, n4}
MCCallers     == MCNodes \cup {main_engine}
MCExecutions  == {solo, team}
MCExecutionOf == [c \in MCCallers |-> IF c = main_engine THEN solo ELSE team]

Plan(d1, d2, d3, d4, w1, w2, w3, w4) ==
  [deps |-> n1 :> d1 @@ n2 :> d2 @@ n3 :> d3 @@ n4 :> d4,
   work |-> n1 :> w1 @@ n2 :> w2 @@ n3 :> w3 @@ n4 :> w4]

MCPlans ==
  { DocumentPlan(n1, n2, n3, n4), ResearchPlan(n1, n2, n3, n4),
    Plan({}, {}, {n1, n2}, {n3}, "inspect", "inspect", "edit", "save"),
    Plan({}, {n1, n4}, {n2}, {n3}, "inspect", "edit", "save", "verify"),
    Plan({}, {n1}, {n2}, {ghost}, "inspect", "edit", "save", "verify") }

=============================================================================
