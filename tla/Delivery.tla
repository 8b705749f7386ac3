------------------------------ MODULE Delivery ------------------------------
(***************************************************************************)
(* What works on one document and sends it: the agents of a graph, an      *)
(* execution of the engine, and a mail the document is attached to.  Each  *)
(* is a process or a thread pool of its own; they share the file and       *)
(* nothing else.  A behaviour has two of the three.                        *)
(***************************************************************************)
EXTENDS AgentRuntime, ExecutionEngine, Mail

VARIABLE present  \* which of them are at work

vars == <<toolVars, teamVars, engine, mailVars, present>>

Parts == {"agents", "engine", "mail"}

\* Every run makes an execution of its own.
ASSUME DeliveryAssumption == Solo # Team

Init ==
  /\ present \in {two \in SUBSET Parts : Cardinality(two) = 2}
  /\ ToolsInit /\ TeamInit /\ EngineInit /\ MailInit
  /\ "agents" \notin present => graph = CHOOSE plan \in Plans : Valid(plan)
  /\ "mail" \notin present => ~inbox

Agents    == MainLoop \/ \E n \in Nodes : Thread(n)
AgentsAct == "agents" \in present /\ Agents /\ UNCHANGED <<engine, mailVars, present>>
EngineAct == "engine" \in present /\ EngineStep /\ UNCHANGED <<teamVars, mailVars, present>>
MailAct   == "mail" \in present /\ MailStep /\ UNCHANGED <<toolVars, teamVars, engine, present>>

Next == AgentsAct \/ EngineAct \/ MailAct

\* Threads run; nothing makes a human approve or a caller send.
Fairness == WF_vars(AgentsAct) /\ WF_vars(EngineAct)

Spec == Init /\ [][Next]_vars /\ Fairness

-----------------------------------------------------------------------------
(* Properties                                                              *)

Kept(x) == x \in lost \/ (disk # Torn /\ x \in disk)

\* An execution that ended well has its edits in the file, unless another
\* has saved the file since: neither a failed save nor a save of a copy
\* without the edits is taken for success, whatever was retried or started
\* again in between (engine.py:206-246, multi_agent.py:200-209).
OkIsWritten ==
  /\ main = "ok" /\ (\E n \in Nodes : graph.work[n] = "save") => Kept(Team)
  /\ engine.status = "COMPLETE" => Kept(Solo)

\* Every run ends: retries and replans are bounded, and a batch waits for
\* nobody but its own threads (engine.py:236-240, multi_agent.py:250-255).
RunsEnd ==
  /\ "agents" \in present ~> main \in Ended
  /\ "engine" \in present ~> engine.status \in {"COMPLETE", "FAILED"}

=============================================================================
