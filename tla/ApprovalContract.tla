----------------------------- MODULE ApprovalContract -----------------------------
(***************************************************************************)
(* What a client of the control plane may rely on, without workers, queues,*)
(* sessions or locks: the committed status of an execution, the decisions  *)
(* on its approvals and the external sends it has made.                    *)
(*                                                                         *)
(*   - nothing is sent before an approval was granted;                     *)
(*   - a decision on an approval is final, and it moves the execution only *)
(*     while the execution waits for it;                                   *)
(*   - a terminal execution never changes;                                 *)
(*   - only a parked execution can be resumed, and only an execution that  *)
(*     awaits approval can be paused.                                      *)
(***************************************************************************)
CONSTANTS ApprovalIds, Sends

VARIABLES status,     \* what GET /executions answers
          decision,   \* decision[a]: what GET /approvals answers
          delivered   \* the sends the outside world has seen

contractVars == <<status, decision, delivered>>

Granted == {a \in ApprovalIds : decision[a] = "APPROVED"}

Active   == {"QUEUED", "RUNNING"}
Outcomes == {"COMPLETE", "FAILED", "CANCELLED"}

ContractInit ==
  /\ status = "QUEUED"
  /\ decision = [a \in ApprovalIds |-> "NONE"]
  /\ delivered = {}

Park(a) ==
  /\ status \in Active
  /\ decision[a] = "NONE"
  /\ status' = "AWAITING_APPROVAL"
  /\ decision' = [decision EXCEPT ![a] = "PENDING"]
  /\ UNCHANGED delivered

Finish ==
  /\ status \in Active
  /\ status' \in Outcomes
  /\ UNCHANGED <<decision, delivered>>

Deliver(s) ==
  /\ status = "RUNNING"
  /\ Granted # {}
  /\ delivered' = delivered \cup {s}
  /\ UNCHANGED <<status, decision>>

Decided(a, verdict, next) ==
  /\ decision[a] = "PENDING"
  /\ decision' = [decision EXCEPT ![a] = verdict]
  /\ status' = IF status = "AWAITING_APPROVAL" THEN next ELSE status
  /\ UNCHANGED delivered

Pause ==
  /\ status = "AWAITING_APPROVAL"
  /\ status' = "BLOCKED"
  /\ UNCHANGED <<decision, delivered>>

Resume ==
  /\ status \in {"AWAITING_APPROVAL", "BLOCKED"}
  /\ status' = "RUNNING"
  /\ UNCHANGED <<decision, delivered>>

ContractNext ==
  \/ \E a \in ApprovalIds :
       Park(a) \/ Decided(a, "APPROVED", "RUNNING") \/ Decided(a, "REJECTED", "BLOCKED")
  \/ \E s \in Sends : Deliver(s)
  \/ Finish \/ Pause \/ Resume

ContractSpec == ContractInit /\ [][ContractNext]_contractVars

=============================================================================
