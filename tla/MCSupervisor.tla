------------------------------ MODULE MCSupervisor ------------------------------
(* Instances of Supervisor for TLC.                                        *)
EXTENDS Supervisor

\* Research (1) feeds a document (3), which a message (2) does not wait for;
\* research and document each need a capability only one of the agents has.
MissionTasks    == 1..3
MissionDeps     == [t \in MissionTasks |-> IF t = 3 THEN {1} ELSE {}]
MissionAgents   == 1..2
MissionName     == [a \in MissionAgents |-> 3 - a]
MissionCaps     == [a \in MissionAgents |-> IF a = 1 THEN {"read"} ELSE {"edit", "send"}]
MissionNeeds    == [t \in MissionTasks |-> CASE t = 1 -> {"read"} [] t = 2 -> {} [] t = 3 -> {"edit"}]
MissionDeclared == [t \in MissionTasks |-> IF t = 3 THEN 2 ELSE 1]
MissionRegistries == {{1}, {1, 2}}

=============================================================================
