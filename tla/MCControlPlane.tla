----------------------------- MODULE MCControlPlane -----------------------------
(* Instances of ControlPlane for TLC.                                      *)
EXTENDS ControlPlane, TLC

\* The flagship plan cut to one step per kind: 1 prepares and verifies the
\* report, 2 requests approval, 3 sends it, 4 verifies the outcome.
FlagshipSteps  == 1..4
FlagshipDeps   == [s \in FlagshipSteps |-> IF s = 1 THEN {} ELSE {s - 1}]
FlagshipAction == [s \in FlagshipSteps |-> IF s \in {2, 3} THEN "send" ELSE "none"]

\* A plan that forgot that sending (3) depends on the approval (2): run_planning
\* stores whatever plan it is given, and only the gate is left to hold it back.
LooseDeps == [s \in FlagshipSteps |-> CASE s = 1 -> {} [] s = 4 -> {2, 3} [] OTHER -> {1}]

\* Workers are alike, and so are the requests of the clients.
SessionSymmetry == Permutations(Workers) \cup Permutations(Clients)

=============================================================================
