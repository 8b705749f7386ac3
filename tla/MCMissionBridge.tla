-------------------------- MODULE MCMissionBridge --------------------------
(* Instances of MissionBridge for TLC.                                     *)
EXTENDS MissionBridge

\* A mail goal with and without the gate, a file goal, a desktop goal.
BridgeGoals == {[kind |-> "simulate", gated |-> TRUE], [kind |-> "simulate", gated |-> FALSE],
                [kind |-> "real", gated |-> FALSE], [kind |-> "desktop", gated |-> TRUE]}

=============================================================================
