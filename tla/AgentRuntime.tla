---------------------------- MODULE AgentRuntime ----------------------------
(***************************************************************************)
(* The multi-agent runtime (src/ai-ml/src/autoflow_ai/runtime/             *)
(* multi_agent.py): a validated graph of tasks runs in batches, the ready  *)
(* nodes of a batch in a pool of threads, their tool calls one at a time   *)
(* under a lock; failed nodes block their dependants, a replanner may      *)
(* start them again a bounded number of times, and what is left when the   *)
(* run fails is cancelled.                                                 *)
(*                                                                         *)
(* Every node is a caller of the document tools, in one execution, Team.   *)
(***************************************************************************)
EXTENDS DocumentTools

CONSTANTS
  Team,            \* the execution of the graph
  Nodes,           \* its tasks
  Plans,           \* what a planner may return: dependencies and work of the tasks
  Ghost,           \* a task no plan has
  MaxConcurrency,  \* max_concurrency
  MaxReplans       \* max_replans; 0 stands for no replanner, too

Works    == {"inspect", "edit", "save", "verify", "think"}
Tools    == {"inspect", "edit", "save"}
Status   == {"pending", "ready", "blocked", "running", "succeeded", "failed", "cancelled"}
Terminal == {"succeeded", "failed", "cancelled"}

ASSUME TeamAssumption ==
  /\ Nodes = {c \in Callers : ExecutionOf[c] = Team} /\ Nodes # {}
  /\ IsFiniteSet(Nodes) /\ Team \in Executions /\ Ghost \notin Nodes
  /\ Plans \subseteq [deps : [Nodes -> SUBSET (Nodes \cup {Ghost})], work : [Nodes -> Works]]
  /\ MaxConcurrency \in Nat \ {0} /\ MaxReplans \in Nat

VARIABLES
  graph,    \* the plan at work
  status,   \* the status of each node
  main,     \* where the main loop is, and how the run ended
  replans   \* replans so far

teamVars == <<graph, status, main, replans>>

Ended == {"ok", "failed", "stuck"}

-----------------------------------------------------------------------------
(* The plans of the deterministic planner, and the validation of a plan.   *)

DocumentPlan(inspect, edit, save, verify) ==
  [deps |-> [n \in Nodes |-> CASE n = edit -> {inspect}
                               [] n = save -> {edit}
                               [] n = verify -> {save}
                               [] OTHER -> {}],
   work |-> [n \in Nodes |-> CASE n = inspect -> "inspect"
                               [] n = edit -> "edit"
                               [] n = save -> "save"
                               [] OTHER -> "verify"]]

\* Its last node asks for no tool: an agent looks at the findings.
ResearchPlan(a, b, synthesize, verify) ==
  [deps |-> [n \in Nodes |-> CASE n = synthesize -> {a, b}
                               [] n = verify -> {synthesize}
                               [] OTHER -> {}],
   work |-> [n \in Nodes |-> "think"]]

Known(plan) == \A n \in Nodes : plan.deps[n] \subseteq Nodes

\* Seeded fault: cycles are not looked for.
ValidWithCycles(plan) == Known(plan)

\* Every task can be numbered above what it depends on.
Valid(plan) ==
  /\ Known(plan)
  /\ \E rank \in [Nodes -> 1..Cardinality(Nodes)] :
       \A n \in Nodes : \A d \in plan.deps[n] : rank[d] < rank[n]

TeamInit ==
  /\ graph \in {plan \in Plans : Valid(plan)}
  /\ status = [n \in Nodes |-> "pending"]
  /\ main = "loop" /\ replans = 0

-----------------------------------------------------------------------------
(* The main loop.                                                          *)

HasFailure == \E n \in Nodes : status[n] = "failed"
IsComplete == \A n \in Nodes : status[n] \in Terminal
ReadyNodes == {n \in Nodes : /\ status[n] \in {"pending", "ready"}
                             /\ \A d \in graph.deps[n] : status[d] = "succeeded"}

CancelRemaining ==
  status' = [n \in Nodes |-> IF status[n] \in {"pending", "ready", "blocked"}
                               THEN "cancelled" ELSE status[n]]

\* Seeded fault: a replan that fails again is not counted.
CountReplanNever == replans < MaxReplans /\ UNCHANGED replans

CountReplan == replans < MaxReplans /\ replans' = replans + 1

\* The replanner, the caller's, makes some of the failed nodes ready; it
\* leaves their dependants alone.
Replan ==
  /\ main = "loop" /\ HasFailure /\ CountReplan
  /\ \E again \in SUBSET {n \in Nodes : status[n] = "failed"} :
       status' = [n \in Nodes |-> IF n \in again THEN "ready" ELSE status[n]]
  /\ UNCHANGED <<graph, main, toolVars>>

\* The replanner finds nothing to change.
ReplanRefused ==
  /\ main = "loop" /\ HasFailure /\ CountReplan
  /\ CancelRemaining /\ main' = "failed"
  /\ UNCHANGED <<graph, toolVars>>

GiveUp ==
  /\ main = "loop" /\ HasFailure /\ replans = MaxReplans
  /\ CancelRemaining /\ main' = "failed"
  /\ UNCHANGED <<graph, replans, toolVars>>

GetStuck ==
  /\ main = "loop" /\ ~HasFailure /\ ~IsComplete /\ ReadyNodes = {}
  /\ CancelRemaining /\ main' = "stuck"
  /\ UNCHANGED <<graph, replans, toolVars>>

Finish ==
  /\ main = "loop" /\ ~HasFailure /\ IsComplete
  /\ main' = "ok"
  /\ UNCHANGED <<graph, status, replans, toolVars>>

RunReadyBatch ==
  /\ main = "loop" /\ ~HasFailure /\ ~IsComplete /\ ReadyNodes # {}
  /\ status' = [n \in Nodes |-> IF n \in ReadyNodes THEN "running" ELSE status[n]]
  /\ main' = "batch"
  /\ UNCHANGED <<graph, replans, toolVars>>

BatchEnds ==
  /\ main = "batch" /\ \A n \in Nodes : status[n] # "running"
  /\ main' = "loop"
  /\ UNCHANGED <<graph, status, replans, toolVars>>

-----------------------------------------------------------------------------
(* A node in its thread.                                                   *)

Succeed(n) == status' = [status EXCEPT ![n] = "succeeded"]

\* Only the direct dependants are blocked.
Fail(n) ==
  status' = [m \in Nodes |->
               IF m = n THEN "failed"
               ELSE IF n \in graph.deps[m] /\ status[m] \in {"pending", "ready"} THEN "blocked"
               ELSE status[m]]

HasThread == Cardinality({m \in Nodes : call[m] # "idle"}) < MaxConcurrency

\* Nothing saved passes, and what was saved has only to open.
Verified == Team \notin saved \/ disk # Torn

\* propose: an agent whose step names a tool asks for that tool, once.
Proposes(n) == graph.work[n] \in Tools /\ call' = [call EXCEPT ![n] = "wanted"]

Verifies(n) == graph.work[n] = "verify" /\ Verified /\ Succeed(n)

\* The agent proposes: no action, the verifier, or a tool.  An agent that is
\* missing, fails or proposes what it may not fails its node, and so does a
\* verifier that says no.
ExecuteNode(n) ==
  /\ status[n] = "running" /\ call[n] = "idle" /\ HasThread
  /\ \/ Fail(n) /\ UNCHANGED call
     \/ graph.work[n] = "think" /\ Succeed(n) /\ UNCHANGED call
     \/ Verifies(n) /\ UNCHANGED call
     \/ Proposes(n) /\ UNCHANGED status
  /\ UNCHANGED <<graph, main, replans, disk, session, saved, lost>>

CallTool(n) == UseTool(n, graph.work[n]) /\ UNCHANGED teamVars

\* Seeded fault: a tool that returned counts as a tool that worked.
WorkedIfReturned(n) == TRUE

Worked(n) == call[n] = "ok"

HandleResult(n) ==
  /\ TakesResult(n, graph.work[n])
  /\ \/ Worked(n) /\ Succeed(n)
     \/ ~Worked(n) /\ Fail(n)
  /\ UNCHANGED <<graph, main, replans>>

MainLoop == Replan \/ ReplanRefused \/ GiveUp \/ GetStuck \/ Finish \/ RunReadyBatch \/ BatchEnds
Thread(n) == ExecuteNode(n) \/ CallTool(n) \/ HandleResult(n)

-----------------------------------------------------------------------------
(* Properties                                                              *)

\* The types of the run.
TeamTypeOK ==
  /\ graph \in Plans /\ status \in [Nodes -> Status]
  /\ main \in {"loop", "batch"} \cup Ended /\ replans \in 0..MaxReplans

\* The report of a run: no failed node, and every node at an end.
ReportOk == main \in Ended /\ IsComplete /\ ~HasFailure

\* A validated plan gets stuck only after a replan: a node started again
\* leaves the dependants its failure blocked where they are
\* (validation.py:60-78, multi_agent.py:101-106, 239-242).
StuckOnlyAfterReplan == main = "stuck" => replans > 0

\* A run is reported ok when its tasks succeeded; a run in which a node
\* cannot run is not (tests/test_multi_agent.py:254-267).  A run that got
\* stuck has cancelled what was left, and a cancelled node is no failure.
OkMeansDone == ReportOk => \A n \in Nodes : status[n] = "succeeded"

=============================================================================
