---------------------------- MODULE MCKnowledge ----------------------------
(* Instances of Knowledge for TLC.                                         *)
EXTENDS Knowledge

\* Three contents of one workflow, and one that the policy refuses.
OneName == [c \in Contents |-> "edit"]
Numbered == [c \in Contents |-> CASE c = "c1" -> 1 [] c = "c2" -> 2
                                [] c = "c3" -> 3 [] OTHER -> 4]

\* A long text of two chunks and a short one of one.
Lengths   == [t \in Texts |-> IF t = "long" THEN 2 ELSE 1]
TextRanks == [t \in Texts |-> IF t = "long" THEN 1 ELSE 2]

Local == [tenant |-> "org", workspace |-> "ws", permissions |-> {"read"}]
Owned == [d \in Docs |-> [tenant |-> "org", workspace |-> "ws", scope |-> {"read"}]]

\* A better ranked copy of a chunk that belongs to another tenant, and an
\* item of a section whose share of the small window is nothing.
Offered ==
  {[Retrieved(70, "authorized_knowledge", <<"long", 1>>, 70, "authorized_knowledge", 100)
      EXCEPT !.tenant = "other"],
   [Item(80, "approval_state", "pending", 60, "tool_output", "tool", 90, 90) EXCEPT !.sourced = TRUE]}

=============================================================================
