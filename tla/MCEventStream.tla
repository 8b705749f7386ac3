----------------------------- MODULE MCEventStream -----------------------------
(* Instances of EventStream for TLC.                                       *)
EXTENDS EventStream

StreamKinds == {"task.created", "plan.validated", "approval.requested",
                "approval.granted", "approval.rejected", "step.completed",
                "task.cancel_requested", "execution.completed"}

StreamHeard == StreamKinds \ {"approval.rejected", "task.cancel_requested"}

\* The control plane's transactions, two events each where it emits more.
StreamTransactions ==
  {[from |-> {"QUEUED"}, emits |-> <<"plan.validated", "approval.requested">>,
    to |-> "AWAITING_APPROVAL"],
   [from |-> {"AWAITING_APPROVAL"}, emits |-> <<"approval.granted">>, to |-> "RUNNING"],
   [from |-> {"AWAITING_APPROVAL"}, emits |-> <<"approval.rejected">>, to |-> "BLOCKED"],
   [from |-> {"RUNNING"}, emits |-> <<"step.completed", "execution.completed">>,
    to |-> "COMPLETE"],
   [from |-> Status, emits |-> <<"task.cancel_requested">>, to |-> Keep]}

StreamShownAs ==
  [k \in StreamKinds |->
     CASE k = "plan.validated"      -> "VALIDATING"
       [] k = "approval.requested"  -> "AWAITING_APPROVAL"
       [] k = "approval.granted"    -> "RUNNING"
       [] k = "approval.rejected"   -> "BLOCKED"
       [] k = "execution.completed" -> "COMPLETE"
       [] OTHER                     -> Keep]

=============================================================================
