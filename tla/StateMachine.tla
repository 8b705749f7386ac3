------------------------------ MODULE StateMachine ------------------------------
(***************************************************************************)
(* The lifecycle that a task and its execution share                       *)
(* (backend/app/orchestration/state_machine.py): the adjacency map of      *)
(* allowed transitions and the three questions the services ask of it.     *)
(***************************************************************************)

Status == {"QUEUED", "PLANNING", "VALIDATING", "AWAITING_APPROVAL", "RUNNING",
           "VERIFYING", "RECOVERY", "COMPLETE", "FAILED", "CANCELLED",
           "EXPIRED", "BLOCKED"}

\* _ALLOWED, the adjacency map.
Allowed ==
  [s \in Status |->
     CASE s = "QUEUED"            -> {"PLANNING", "CANCELLED"}
       [] s = "PLANNING"          -> {"VALIDATING", "FAILED", "CANCELLED"}
       [] s = "VALIDATING"        -> {"AWAITING_APPROVAL", "RUNNING", "FAILED",
                                      "CANCELLED"}
       [] s = "AWAITING_APPROVAL" -> {"RUNNING", "BLOCKED", "EXPIRED",
                                      "CANCELLED", "FAILED"}
       [] s = "RUNNING"           -> {"VERIFYING", "RECOVERY", "AWAITING_APPROVAL",
                                      "CANCELLED", "FAILED", "COMPLETE"}
       [] s = "VERIFYING"         -> {"COMPLETE", "RUNNING", "RECOVERY", "FAILED",
                                      "CANCELLED"}
       [] s = "RECOVERY"          -> {"RUNNING", "FAILED", "BLOCKED", "CANCELLED"}
       [] s = "BLOCKED"           -> {"RUNNING", "CANCELLED", "FAILED"}
       [] OTHER                   -> {}]

CanTransition(current, target) == current # target /\ target \in Allowed[current]

IsTerminal(s) ==
  /\ Allowed[s] = {}
  /\ s \in {"COMPLETE", "FAILED", "CANCELLED", "EXPIRED"}

=============================================================================
