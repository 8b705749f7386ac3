--------------------------- MODULE DeliveryProofs ---------------------------
(***************************************************************************)
(* Theorems about Delivery for all plans, bounds and executions, whichever *)
(* of its parts are at work.                                               *)
(***************************************************************************)
EXTENDS Delivery, FiniteSetTheorems, WellFoundedInduction, TLAPS

-----------------------------------------------------------------------------
(* The mail.                                                               *)

\* A message that was approved, and has the draft the approval was asked for.
Went == \E p \in posted : p.checked \in granted /\ p.sent[1] = asked[1]

\* A send that has passed the check carries an approved binding, and the draft
\* cannot change until it is over; whatever counts as a sign that the send went
\* well (the adapter's record of it, the step after it, the verdict) has a
\* message behind it.
WentInv ==
  /\ letter.step \in {"closed", "composed", "over"} => ~sentIds /\ letter.outcome # "SENT_VERIFIED"
  /\ letter.step = "sending" => checked \in granted /\ draft = asked[1]
  /\ sentIds \/ letter.step = "sent" \/ letter.outcome = "SENT_VERIFIED" => Went

\* What a step of the whole may do to the mail.
MailMoves == MailStep \/ UNCHANGED mailVars

LEMMA NextMovesMail == [Next]_vars => MailMoves
  BY DEF Next, vars, AgentsAct, EngineAct, MailAct, MailMoves

LEMMA WentKept == WentInv /\ MailMoves => WentInv'
<1> SUFFICES ASSUME WentInv, MailMoves PROVE WentInv'
  OBVIOUS
<1>1. CASE ComposeRefused \/ Compose \/ BuildApprovalRequest
  <2>1. letter.step \in {"closed", "composed"} /\ ~sentIds /\ letter.outcome # "SENT_VERIFIED"
    BY <1>1 DEF ComposeRefused, Compose, BuildApprovalRequest, WentInv
  <2>2. /\ sentIds' = sentIds /\ letter'.step \in {"over", "composed", "waiting"}
        /\ letter'.outcome # "SENT_VERIFIED"
    BY <1>1, <2>1 DEF ComposeRefused, Compose, BuildApprovalRequest, Goes
  <2> QED BY <2>1, <2>2 DEF WentInv
<1>2. CASE Approve
  <2>1. letter.step = "waiting" /\ granted = {} /\ UNCHANGED <<letter, sentIds, posted, asked>>
    BY <1>2 DEF Approve
  <2>2. ~Went
    BY <2>1 DEF Went
  <2> QED BY <2>1, <2>2 DEF WentInv
<1>3. CASE ChangeDraft
  BY <1>3 DEF ChangeDraft, WentInv, Went
<1>4. CASE CheckApproval
  <2>1. UNCHANGED <<asked, draft, granted, sentIds, posted>> /\ letter.step = "waiting"
    BY <1>4 DEF CheckApproval
  <2>2. CASE Permits /\ checked' = Live /\ Goes("sending", letter.outcome)
    <3>1. checked' \in granted /\ draft = asked[1]
      BY <2>2 DEF Permits, Live
    <3>2. letter'.step = "sending" /\ letter'.outcome = letter.outcome
      BY <2>2 DEF Goes
    <3> QED BY <2>1, <3>1, <3>2 DEF WentInv, Went
  <2>3. CASE \E o \in {"APPROVAL_INVALID", "APPROVAL_REQUIRED"} : Goes("waiting", o)
    <3>1. letter'.step = "waiting" /\ letter'.outcome # "SENT_VERIFIED"
      BY <2>3 DEF Goes
    <3> QED BY <2>1, <3>1 DEF WentInv, Went
  <2> QED BY <1>4, <2>2, <2>3 DEF CheckApproval
<1>5. CASE Send
  <2>1. /\ letter.step = "sending" /\ checked \in granted /\ draft = asked[1]
        /\ UNCHANGED <<granted, draft, checked, asked>>
    BY <1>5 DEF Send, WentInv
  <2>2. Accepts => Went'
    <3> SUFFICES ASSUME Accepts PROVE Went'
      OBVIOUS
    <3> DEFINE p == [nr |-> sends, checked |-> checked, sent |-> Live]
    <3>1. p \in posted' /\ p.checked = checked /\ p.sent[1] = draft
      BY DEF Accepts, Live
    <3> QED BY <2>1, <3>1 DEF Went
  <2>3. Went => Went'
    BY <1>5, <2>1 DEF Send, Accepts, Went
  <2>4. CASE AlreadySent /\ Goes("sent", letter.outcome) /\ UNCHANGED <<sentIds, posted, erred>>
    <3>1. Went
      BY <2>4 DEF AlreadySent, WentInv
    <3> QED BY <2>3, <2>4, <3>1 DEF WentInv, Goes
  <2>5. CASE Accepts
    BY <1>5, <2>2, <2>5 DEF WentInv, Send, SendFails, Goes
  <2>6. CASE SendFails /\ UNCHANGED sentIds
    BY <2>3, <2>6 DEF WentInv, SendFails, Goes
  <2> QED BY <1>5, <2>4, <2>5, <2>6 DEF Send
<1>6. CASE ReadSent
  <2>1. letter.step = "sent" /\ UNCHANGED <<asked, granted, posted, sentIds>> /\ Went
    BY <1>6 DEF ReadSent, WentInv
  <2>2. letter'.step = "waiting"
    BY <1>6 DEF ReadSent, Goes
  <2> QED BY <2>1, <2>2 DEF WentInv, Went
<1>7. CASE Deliver \/ UNCHANGED mailVars
  BY <1>7 DEF Deliver, mailVars, WentInv, Went
<1> QED BY <1>1, <1>2, <1>3, <1>4, <1>5, <1>6, <1>7 DEF MailMoves, MailStep

\* A send reported as verified is one the server has taken, of an approved
\* binding, whatever the mailbox holds, whichever calls fail and whoever writes
\* the file or the draft (gmail_workflow.py:9-13).
THEOREM VerifiedWasSent == Spec => []VerifiedIsSent
<1>1. Init => WentInv
  BY DEF Init, MailInit, WentInv
<1>2. WentInv => VerifiedIsSent
  BY DEF WentInv, Went, VerifiedIsSent
<1> QED BY <1>1, <1>2, NextMovesMail, WentKept, PTL DEF Spec

\* Unless a send failed after the server had accepted the message, what was
\* sent is one message, and the adapter knows it has sent it.
OnceInv == erred \/ posted = {} \/ (sentIds /\ \E p \in posted : posted = {p})

LEMMA OnceKept == OnceInv /\ MailMoves => OnceInv'
<1> SUFFICES ASSUME OnceInv, MailMoves PROVE OnceInv'
  OBVIOUS
<1>1. CASE Send
  <2>1. CASE ~sentIds /\ Accepts /\ sentIds' = TRUE /\ UNCHANGED erred
    <3>1. erred \/ posted = {}
      BY <2>1 DEF OnceInv
    <3>2. \E p : posted' = posted \cup {p}
      BY <2>1 DEF Accepts
    <3> QED BY <2>1, <3>1, <3>2 DEF OnceInv
  <2> QED BY <1>1, <2>1 DEF Send, AlreadySent, OnceInv
<1>2. CASE ~Send
  BY <1>2 DEF MailMoves, MailStep, ComposeRefused, Compose, BuildApprovalRequest, Approve,
     ChangeDraft, CheckApproval, Deliver, ReadSent, mailVars, OnceInv
<1> QED BY <1>1, <1>2

\* However often a workflow is asked to send, a second message goes out only
\* after a send that failed when the server had already accepted the first
\* (smtp_email.py:197-201, 230-234).
THEOREM SentOnce == Spec => []SentOnceUnlessError
<1>1. Init => OnceInv
  BY DEF Init, MailInit, OnceInv
<1>2. OnceInv => SentOnceUnlessError
  <2>1. ASSUME posted = {} PROVE Cardinality(posted) = 0
    BY <2>1, FS_EmptySet
  <2>2. ASSUME NEW p, posted = {p} PROVE Cardinality(posted) = 1
    BY <2>2, FS_Singleton
  <2> QED BY <2>1, <2>2 DEF OnceInv, SentOnceUnlessError
<1> QED BY <1>1, <1>2, NextMovesMail, OnceKept, PTL DEF Spec

-----------------------------------------------------------------------------
(* The graph of agents.                                                    *)

\* Of a family of subsets of a finite set one has no other below it.
LEMMA SmallestSubset ==
  ASSUME NEW S, IsFiniteSet(S), NEW F \in SUBSET SUBSET S, F # {}
  PROVE  \E x \in F : \A y \in F : ~(y \subseteq x /\ y # x)
<1>1. F \subseteq FiniteSubsetsOf(S)
  BY FS_FiniteSubsetsOfFinite
<1>2. \E x \in F : \A y \in F : <<y, x>> \notin StrictSubsetOrdering(S)
  BY <1>1, WFMin, FS_StrictSubsetOrderingWellFounded
<1> QED BY <1>2 DEF StrictSubsetOrdering

\* Every set of natural numbers that is not empty has a least one.
LEMMA LeastNatural ==
  ASSUME NEW T \in SUBSET Nat, T # {} PROVE \E m \in T : \A k \in T : m <= k
<1>1. PICK n \in T : TRUE
  OBVIOUS
<1>2. PICK S : S = 0..n
  OBVIOUS
<1>3. PICK F : F = {0..m : m \in {m \in T : m <= n}}
  OBVIOUS
<1>4. IsFiniteSet(S)
  BY <1>2, FS_Interval
<1>5. F \in SUBSET SUBSET S
  BY <1>2, <1>3
<1>6. F # {}
  BY <1>3
<1>7. PICK x \in F : \A y \in F : ~(y \subseteq x /\ y # x)
  BY <1>4, <1>5, <1>6, SmallestSubset
<1>8. PICK m \in T : m <= n /\ x = 0..m
  BY <1>3
<1>9. ASSUME NEW k \in T, k < m PROVE FALSE
  <2>1. 0..k \in F
    BY <1>3, <1>8, <1>9
  <2>2. m \in 0..m /\ m \notin 0..k /\ 0..k \subseteq 0..m
    BY <1>9
  <2> QED BY <2>1, <2>2, <1>7, <1>8
<1> QED BY <1>9

\* Among the nodes of a valid plan that wait, one waits for none of them.
LEMMA OneWaitsForNone ==
  ASSUME Valid(graph), NEW S \in SUBSET Nodes, S # {}
  PROVE  \E n \in S : graph.deps[n] \subseteq Nodes \ S
<1>1. PICK rank \in [Nodes -> 1..Cardinality(Nodes)] :
        \A n \in Nodes : \A d \in graph.deps[n] : rank[d] < rank[n]
  BY DEF Valid
<1>2. \A n \in Nodes : rank[n] \in Nat
  BY <1>1, TeamAssumption, FS_CardinalityType
<1>3. PICK T : T = {rank[n] : n \in S}
  OBVIOUS
<1>4. T \in SUBSET Nat /\ T # {}
  BY <1>2, <1>3
<1>5. PICK m \in T : \A k \in T : m <= k
  BY <1>4, LeastNatural
<1>6. PICK n \in S : rank[n] = m
  BY <1>3, <1>5
<1>7. ASSUME NEW d \in graph.deps[n] PROVE d \in Nodes \ S
  <2>1. d \in Nodes /\ n \in Nodes /\ rank[d] < rank[n]
    BY <1>1, <1>7 DEF Valid, Known
  <2>2. d \in S => rank[n] <= rank[d]
    BY <1>3, <1>5, <1>6
  <2> QED BY <1>2, <2>1, <2>2
<1> QED BY <1>7

\* While no replan has been made, a blocked node is owed to a failed one; a
\* node has a call only while it runs, so that nothing takes a failure back.
GraphInv ==
  /\ graph \in Plans /\ Valid(graph)
  /\ status \in [Nodes -> Status] /\ replans \in Nat
  /\ DOMAIN call = Callers
  /\ \A n \in Nodes : call[n] # "idle" => status[n] = "running"
  /\ main \in {"loop", "batch"} => \A n \in Nodes : status[n] # "cancelled"
  /\ main = "loop" => \A n \in Nodes : status[n] # "running"
  /\ main \in {"loop", "batch"} /\ replans = 0 =>
       \A n \in Nodes : status[n] = "blocked" => HasFailure

\* Without a failure, and before any replan, an incomplete graph has a node
\* that is ready.
LEMMA SomethingIsReady ==
  ASSUME GraphInv, main = "loop", replans = 0, ~HasFailure, ~IsComplete
  PROVE  ReadyNodes # {}
<1>1. \A n \in Nodes : status[n] \in {"pending", "ready", "succeeded"}
  BY DEF GraphInv, HasFailure, Status
<1>2. PICK S : S = {n \in Nodes : status[n] \in {"pending", "ready"}}
  OBVIOUS
<1>3. S \in SUBSET Nodes /\ S # {}
  BY <1>1, <1>2 DEF IsComplete, Terminal
<1>4. PICK n \in S : graph.deps[n] \subseteq Nodes \ S
  BY <1>3, OneWaitsForNone DEF GraphInv
<1>5. \A d \in graph.deps[n] : status[d] = "succeeded"
  BY <1>1, <1>2, <1>4
<1> QED BY <1>2, <1>3, <1>4, <1>5 DEF ReadyNodes

\* A tool call, and the result of one, is a matter of its caller.
LEMMA ToolsCall ==
  ASSUME NEW c, NEW tool, UseTool(c, tool) \/ TakesResult(c, tool)
  PROVE  \E v \in {"ok", "refused", "error", "writing", "idle"} : call' = [call EXCEPT ![c] = v]
  BY DEF UseTool, TakesResult, Inspect, Edit, Save, SaveRefused, SaveBegins, SaveEnds, Returns

LEMMA CallersKnown == Nodes \subseteq Callers /\ Engine \in Callers /\ Engine \notin Nodes
  BY TeamAssumption, EngineAssumption, DeliveryAssumption

\* What a step of the whole may do to the graph: a step of its own, or one that
\* leaves it and the calls of its nodes alone.
TeamMoves ==
  \/ MainLoop
  \/ \E n \in Nodes : Thread(n)
  \/ /\ UNCHANGED teamVars
     /\ call' = call \/ \E v : call' = [call EXCEPT ![Engine] = v]

LEMMA NextMovesTeam == [Next]_vars => TeamMoves
<1> SUFFICES ASSUME [Next]_vars PROVE TeamMoves
  OBVIOUS
<1>1. CASE AgentsAct
  BY <1>1 DEF AgentsAct, Agents, TeamMoves
<1>2. CASE EngineAct
  <2>1. UNCHANGED teamVars /\ EngineStep
    BY <1>2 DEF EngineAct
  <2>2. call' = call \/ \E v : call' = [call EXCEPT ![Engine] = v]
    BY <2>1, ToolsCall DEF EngineStep, EngineStarts, StepRefused, RunStep, EngineCalls, Recover,
       VerifyStep, toolVars
  <2> QED BY <2>1, <2>2 DEF TeamMoves
<1>3. CASE MailAct \/ UNCHANGED vars
  BY <1>3 DEF MailAct, vars, toolVars, TeamMoves
<1> QED BY <1>1, <1>2, <1>3 DEF Next

LEMMA LoopKeepsGraph == GraphInv /\ MainLoop => GraphInv'
<1> SUFFICES ASSUME GraphInv, MainLoop PROVE GraphInv'
  OBVIOUS
<1>0. UNCHANGED <<call, graph>>
  BY DEF MainLoop, Replan, ReplanRefused, GiveUp, GetStuck, Finish, RunReadyBatch, BatchEnds, toolVars
<1>1. CASE Replan
  BY <1>0, <1>1 DEF Replan, CountReplan, GraphInv, HasFailure, Status
<1>2. CASE ReplanRefused \/ GiveUp \/ GetStuck
  BY <1>0, <1>2 DEF ReplanRefused, GiveUp, GetStuck, CancelRemaining, CountReplan, GraphInv, Status
<1>3. CASE Finish \/ BatchEnds
  BY <1>0, <1>3 DEF Finish, BatchEnds, GraphInv, HasFailure
<1>4. CASE RunReadyBatch
  BY <1>0, <1>4 DEF RunReadyBatch, ReadyNodes, GraphInv, HasFailure, Status
<1> QED BY <1>1, <1>2, <1>3, <1>4 DEF MainLoop

LEMMA ThreadKeepsGraph == ASSUME GraphInv, NEW n \in Nodes, Thread(n) PROVE GraphInv'
<1>0. n \in Callers /\ UNCHANGED <<graph, main, replans>>
  BY CallersKnown DEF Thread, ExecuteNode, Proposes, Verifies, CallTool, HandleResult, teamVars
<1>1. CASE Fail(n) /\ status[n] = "running" /\ (call' = call \/ call' = [call EXCEPT ![n] = "idle"])
           /\ call'[n] = "idle"
  <2>1. main # "loop" /\ status'[n] = "failed" /\ HasFailure'
    BY <1>0, <1>1 DEF Fail, GraphInv, HasFailure
  <2>2. status' \in [Nodes -> Status]
    BY <1>1 DEF Fail, GraphInv, Status
  <2>3. \A m \in Nodes : call'[m] # "idle" => m # n /\ call[m] # "idle"
    BY <1>0, <1>1, CallersKnown DEF GraphInv
  <2>4. \A m \in Nodes : m # n => /\ status[m] = "running" => status'[m] = "running"
                                  /\ status'[m] = "cancelled" => status[m] = "cancelled"
    BY <1>1 DEF Fail
  <2> QED BY <1>0, <1>1, <2>1, <2>2, <2>3, <2>4 DEF GraphInv
<1>2. CASE Succeed(n) /\ status[n] = "running" /\ (call' = call \/ call' = [call EXCEPT ![n] = "idle"])
           /\ call'[n] = "idle"
  <2>1. main # "loop" /\ status'[n] = "succeeded" /\ (HasFailure => HasFailure')
    BY <1>0, <1>2 DEF Succeed, GraphInv, HasFailure
  <2>2. status' \in [Nodes -> Status]
    BY <1>2 DEF Succeed, GraphInv, Status
  <2>3. \A m \in Nodes : call'[m] # "idle" => m # n /\ call[m] # "idle"
    BY <1>0, <1>2, CallersKnown DEF GraphInv
  <2>4. \A m \in Nodes : m # n => status'[m] = status[m]
    BY <1>2 DEF Succeed, GraphInv
  <2> QED BY <1>0, <1>2, <2>1, <2>2, <2>3, <2>4 DEF GraphInv
<1>3. CASE UNCHANGED status /\ status[n] = "running" /\ \E v : call' = [call EXCEPT ![n] = v]
  BY <1>0, <1>3 DEF GraphInv, HasFailure
<1>4. CASE ExecuteNode(n)
  BY <1>1, <1>2, <1>3, <1>4 DEF ExecuteNode, Proposes, Verifies
<1>5. CASE CallTool(n)
  <2>1. call[n] # "idle"
    BY <1>5 DEF CallTool, UseTool, Inspect, Edit, Save, SaveRefused, SaveBegins, SaveEnds, Serves
  <2> QED BY <1>3, <1>5, <2>1, ToolsCall DEF CallTool, teamVars, GraphInv
<1>6. CASE HandleResult(n)
  <2>1. call[n] # "idle" /\ call' = [call EXCEPT ![n] = "idle"]
    BY <1>6 DEF HandleResult, TakesResult, Outcomes
  <2>2. status[n] = "running" /\ call'[n] = "idle"
    BY <1>0, <2>1 DEF GraphInv
  <2> QED BY <1>1, <1>2, <1>6, <2>1, <2>2 DEF HandleResult
<1> QED BY <1>4, <1>5, <1>6 DEF Thread

LEMMA GraphKept == GraphInv /\ [Next]_vars => GraphInv'
<1> SUFFICES ASSUME GraphInv, [Next]_vars PROVE GraphInv'
  OBVIOUS
<1>1. CASE UNCHANGED teamVars /\ (call' = call \/ \E v : call' = [call EXCEPT ![Engine] = v])
  BY <1>1, CallersKnown DEF teamVars, GraphInv, HasFailure
<1> QED BY <1>1, NextMovesTeam, LoopKeepsGraph, ThreadKeepsGraph DEF TeamMoves

\* A validated plan gets stuck only after a replan (multi_agent.py:101-106).
THEOREM ValidPlansProgress == Spec => []StuckOnlyAfterReplan
<1>1. Init => GraphInv /\ StuckOnlyAfterReplan
  BY TeamAssumption DEF Init, TeamInit, ToolsInit, GraphInv, StuckOnlyAfterReplan, Status
<1>2. GraphInv /\ StuckOnlyAfterReplan /\ [Next]_vars => StuckOnlyAfterReplan'
  <2> SUFFICES ASSUME GraphInv, StuckOnlyAfterReplan, [Next]_vars PROVE StuckOnlyAfterReplan'
    OBVIOUS
  <2>1. CASE MainLoop
    <3>1. ~GetStuck \/ replans # 0
      BY SomethingIsReady DEF GetStuck
    <3> QED BY <2>1, <3>1 DEF MainLoop, Replan, ReplanRefused, GiveUp, GetStuck, Finish,
            RunReadyBatch, BatchEnds, CountReplan, GraphInv, StuckOnlyAfterReplan
  <2>2. CASE UNCHANGED <<main, replans>>
    BY <2>2 DEF StuckOnlyAfterReplan
  <2>3. ASSUME NEW n \in Nodes, Thread(n) PROVE UNCHANGED <<main, replans>>
    BY <2>3 DEF Thread, ExecuteNode, Proposes, Verifies, CallTool, HandleResult, teamVars
  <2> QED BY <2>1, <2>2, <2>3, NextMovesTeam DEF TeamMoves, teamVars
<1> QED BY <1>1, <1>2, GraphKept, PTL DEF Spec

-----------------------------------------------------------------------------
(* What is written.                                                        *)

\* The copy of an execution is open and has its edits.
HasEdits(x) == session[x] # Closed /\ x \in session[x]

\* Who writes the file has a copy open, and takes the file from everybody else.
ToolsInv ==
  /\ ToolsTypeOK
  /\ \A c \in Callers : call[c] = "writing" =>
       /\ session[ExecutionOf[c]] # Closed
       /\ \A x \in Executions \ {ExecutionOf[c]} : x \in lost

\* What a call, or taking its result, may do to the callers and to the others.
ToolEffect(c, tool) ==
  LET x == ExecutionOf[c] IN
  /\ \A y \in Executions \ {x} : session'[y] = session[y] /\ (Kept(y) => Kept(y)')
  /\ (tool # "save" \/ call[c] = "ok") /\ Kept(x) => Kept(x)'
  /\ tool # "inspect" /\ HasEdits(x) => HasEdits(x)'
  /\ tool = "edit" /\ call'[c] = "ok" => HasEdits(x)'
  /\ tool = "save" /\ call'[c] = "ok" /\ HasEdits(x) => Kept(x)'

LEMMA ToolsKept ==
  ASSUME ToolsInv, NEW c \in Callers, NEW tool, UseTool(c, tool) \/ TakesResult(c, tool)
  PROVE  ToolsInv' /\ ToolEffect(c, tool)
<1> DEFINE x == ExecutionOf[c]
<1>0. x \in Executions /\ saved \in SUBSET Executions /\ call \in [Callers -> {"idle", "wanted", "writing"} \cup Outcomes]
  BY ToolsAssumption DEF ToolsInv, ToolsTypeOK
<1>a. session[x] = Closed \/ session[x] \in SUBSET Executions
  <2>1. session \in [Executions -> (SUBSET Executions) \cup {Closed}] /\ x \in Executions
    BY <1>0 DEF ToolsInv, ToolsTypeOK
  <2>2. session[x] \in (SUBSET Executions) \cup {Closed}
    BY ONLY <2>1
  <2> QED BY <2>2
<1>1. CASE Inspect(c) /\ tool = "inspect"
  <2>1. PICK v \in {"ok", "refused", "error"} : call' = [call EXCEPT ![c] = v]
    BY <1>1 DEF Inspect, Returns
  <2>2. UNCHANGED <<disk, saved, lost>> /\ call[c] = "wanted"
    BY <1>1 DEF Inspect, Serves
  <2>3. UNCHANGED session \/ (disk \in SUBSET Executions /\ session' = [session EXCEPT ![x] = disk])
    BY <1>1 DEF Inspect, Opens, ToolsInv, ToolsTypeOK
  <2>4. session' \in [Executions -> (SUBSET Executions) \cup {Closed}]
    BY <2>3 DEF ToolsInv, ToolsTypeOK
  <2>5. \A d \in Callers : call'[d] = "writing" => call[d] = "writing" /\ ExecutionOf[d] # x
    BY <2>1, <1>1, <1>0 DEF Inspect, Serves
  <2>6. \A y \in Executions \ {x} : session'[y] = session[y]
    BY <2>3, <1>0 DEF ToolsInv, ToolsTypeOK
  <2>7. call' \in [Callers -> {"idle", "wanted", "writing"} \cup Outcomes]
    BY <2>1, <1>0 DEF Outcomes
  <2>8. ToolsInv'
    BY <2>2, <2>4, <2>5, <2>6, <2>7, ToolsAssumption DEF ToolsInv, ToolsTypeOK
  <2> QED BY <1>1, <2>2, <2>6, <2>8 DEF ToolEffect, Kept
<1>2. CASE Edit(c) /\ tool = "edit"
  <2>1. PICK v \in {"ok", "refused", "error"} : call' = [call EXCEPT ![c] = v]
    BY <1>2 DEF Edit, Returns
  <2>2. UNCHANGED <<disk, saved, lost>> /\ call[c] = "wanted"
    BY <1>2 DEF Edit, Serves
  <2>3. UNCHANGED session \/ (session[x] # Closed /\ session' = [session EXCEPT ![x] = session[x] \cup {x}])
    BY <1>2 DEF Edit, Changed
  <2>4. session[x] # Closed => session[x] \cup {x} \in SUBSET Executions /\ session[x] \cup {x} # Closed
    <3>1. session[x] # Closed => session[x] \cup {x} \in SUBSET Executions
      BY <1>0, <1>a
    <3> QED BY <3>1, ToolsAssumption
  <2>5. session' \in [Executions -> (SUBSET Executions) \cup {Closed}]
    BY <2>3, <2>4 DEF ToolsInv, ToolsTypeOK
  <2>6. \A y \in Executions \ {x} : session'[y] = session[y]
    BY <2>3, <1>0 DEF ToolsInv, ToolsTypeOK
  <2>7. call' \in [Callers -> {"idle", "wanted", "writing"} \cup Outcomes]
    BY <2>1, <1>0 DEF Outcomes
  <2>8. \A d \in Callers : call'[d] = "writing" => call[d] = "writing" /\ ExecutionOf[d] # x
    BY <2>1, <1>2, <1>0 DEF Edit, Serves
  <2>9. ToolsInv'
    BY <2>2, <2>5, <2>6, <2>7, <2>8, ToolsAssumption DEF ToolsInv, ToolsTypeOK
  <2>10. HasEdits(x) => HasEdits(x)'
    BY <2>3, <2>4, <1>0 DEF HasEdits, ToolsInv, ToolsTypeOK
  <2>11. call'[c] = "ok" => session[x] # Closed /\ session' = [session EXCEPT ![x] = session[x] \cup {x}]
    BY <1>2, <1>0 DEF Edit, Returns, Changed
  <2>12. call'[c] = "ok" => HasEdits(x)'
    BY <2>4, <2>11, <1>0 DEF HasEdits, ToolsInv, ToolsTypeOK
  <2> QED BY <1>2, <2>2, <2>6, <2>9, <2>10, <2>12 DEF ToolEffect, Kept
<1>3. CASE (SaveRefused(c) /\ tool = "save") \/ TakesResult(c, tool)
  <2>1. PICK v \in {"refused", "idle"} : call' = [call EXCEPT ![c] = v]
    BY <1>3 DEF SaveRefused, TakesResult, Returns
  <2>2. UNCHANGED <<disk, session, lost>> /\ saved' \in SUBSET Executions
    BY <1>3, <1>0 DEF SaveRefused, TakesResult
  <2>3. call' \in [Callers -> {"idle", "wanted", "writing"} \cup Outcomes] /\ call'[c] # "ok"
    BY <2>1, <1>0 DEF Outcomes
  <2>4. \A d \in Callers : call'[d] = "writing" => call[d] = "writing"
    BY <2>1, <1>0
  <2> QED BY <2>2, <2>3, <2>4 DEF ToolsInv, ToolsTypeOK, ToolEffect, Kept, HasEdits
<1>4. CASE SaveBegins(c) /\ tool = "save"
  <2>1. call' = [call EXCEPT ![c] = "writing"] /\ UNCHANGED <<session, saved>> /\ session[x] # Closed
        /\ disk' = Torn /\ call[c] = "wanted"
    BY <1>4 DEF SaveBegins, Serves, Returns
  <2>2. lost' = {y \in Executions : y # x \/ \E z \in Executions \ {x} : Writing(z)}
    BY <1>4 DEF SaveBegins
  <2>3. call' \in [Callers -> {"idle", "wanted", "writing"} \cup Outcomes] /\ call'[c] # "ok"
    BY <2>1, <1>0
  <2>4. ASSUME NEW d \in Callers, call'[d] = "writing", NEW y \in Executions, y # ExecutionOf[d]
        PROVE  session'[ExecutionOf[d]] # Closed /\ y \in lost'
    <3>1. CASE d = c
      BY <3>1, <2>1, <2>2, <2>4
    <3>2. CASE d # c
      <4>1. call[d] = "writing" /\ ExecutionOf[d] \in Executions
        BY <3>2, <2>1, <2>4, <1>0, ToolsAssumption
      <4>2. ExecutionOf[d] # x
        BY <4>1, <1>4 DEF SaveBegins, Serves
      <4>3. Writing(ExecutionOf[d])
        BY <4>1 DEF Writing
      <4> QED BY <4>1, <4>2, <4>3, <2>1, <2>2, <2>4 DEF ToolsInv
    <3> QED BY <3>1, <3>2
  <2>5. \A d \in Callers : call'[d] = "writing" => session'[ExecutionOf[d]] # Closed
    <3>1. \A d \in Callers : call'[d] = "writing" => call[d] = "writing" \/ d = c
      BY <2>1, <1>0
    <3> QED BY <3>1, <2>1 DEF ToolsInv
  <2>6. ToolsInv'
    BY <2>1, <2>2, <2>3, <2>4, <2>5 DEF ToolsInv, ToolsTypeOK
  <2>7. \A y \in Executions \ {x} : y \in lost'
    BY <2>2
  <2> QED BY <1>4, <2>1, <2>3, <2>6, <2>7 DEF ToolEffect, Kept, HasEdits
<1>5. CASE SaveEnds(c) /\ tool = "save"
  <2>1. PICK v \in {"ok", "error", "refused"} : call' = [call EXCEPT ![c] = v]
    BY <1>5 DEF SaveEnds, Returns
  <2>2. UNCHANGED <<session, saved, lost>> /\ call[c] = "writing"
    BY <1>5 DEF SaveEnds
  <2>3. session[x] \in SUBSET Executions /\ \A y \in Executions \ {x} : y \in lost
    BY <2>2, <1>0, <1>a DEF ToolsInv
  <2>4. disk' = Torn \/ disk' = session[x]
    BY <1>5 DEF SaveEnds
  <2>5. call' \in [Callers -> {"idle", "wanted", "writing"} \cup Outcomes]
    BY <2>1, <1>0 DEF Outcomes
  <2>6. \A d \in Callers : call'[d] = "writing" => call[d] = "writing"
    BY <2>1, <1>0
  <2>7. ToolsInv'
    BY <2>2, <2>3, <2>4, <2>5, <2>6 DEF ToolsInv, ToolsTypeOK
  <2>8. call'[c] = "ok" => disk' = session[x] \/ x \in lost
    BY <1>5, <1>0 DEF SaveEnds, Returns
  <2>9. session[x] # Torn
    BY <2>3, ToolsAssumption
  <2> QED BY <1>5, <2>2, <2>3, <2>7, <2>8, <2>9 DEF ToolEffect, Kept, HasEdits
<1> QED BY <1>1, <1>2, <1>3, <1>4, <1>5 DEF UseTool, Save

\* Every document tool of a graph comes after what it needs: an edit after
\* every inspection, which would take the edits of the copy back, and a save
\* after an edit.  The deterministic planner's graphs are like this
\* (planning/planner.py:56-110); validation does not ask for it.
Orderly(plan) ==
  /\ \A e, i \in Nodes : plan.work[e] = "edit" /\ plan.work[i] = "inspect" => i \in plan.deps[e]
  /\ \A s \in Nodes : plan.work[s] = "save" => \E e \in plan.deps[s] : plan.work[e] = "edit"

Returned(n) == status[n] = "succeeded" \/ call[n] = "ok"

\* What runs has what it depends on behind it; an edit that returned is in the
\* copy; and when every save has returned, the last of them is in the file.
TeamInv ==
  /\ \A n \in Nodes : status[n] \in {"running", "succeeded"} =>
       \A d \in graph.deps[n] : status[d] = "succeeded"
  /\ (\E n \in Nodes : graph.work[n] = "edit" /\ Returned(n)) => HasEdits(Team)
  /\ (\E n \in Nodes : graph.work[n] = "save")
      /\ (\A n \in Nodes : graph.work[n] = "save" => Returned(n)) => Kept(Team)
  /\ main = "ok" => \A n \in Nodes : status[n] = "succeeded"

\* The engine takes its steps in order, and keeps what the last one left.
EngineInv ==
  /\ engine = [status |-> engine.status, step |-> engine.step, attempt |-> engine.attempt]
  /\ engine.step \in 1..4
  /\ engine.step = 4 => call[Engine] = "idle"
  /\ engine.step \in {3, 4} \/ (engine.step = 2 /\ call[Engine] = "ok") => HasEdits(Solo)
  /\ engine.step = 4 \/ (engine.step = 3 /\ call[Engine] = "ok") => Kept(Solo)
  /\ engine.status = "COMPLETE" => engine.step = 4

LEMMA WantingKeepsTools ==
  ASSUME ToolsInv, NEW c \in Callers, call' = [call EXCEPT ![c] = "wanted"],
         UNCHANGED <<disk, session, saved, lost>>
  PROVE  ToolsInv'
<1>1. call' \in [Callers -> {"idle", "wanted", "writing"} \cup Outcomes]
  BY DEF ToolsInv, ToolsTypeOK
<1>2. \A d \in Callers : call'[d] = "writing" => call[d] = "writing"
  BY DEF ToolsInv, ToolsTypeOK
<1> QED BY <1>1, <1>2 DEF ToolsInv, ToolsTypeOK

LEMMA NextKeepsTools == ToolsInv /\ [Next]_vars => ToolsInv'
<1> SUFFICES ASSUME ToolsInv, [Next]_vars PROVE ToolsInv'
  OBVIOUS
<1>1. CASE UNCHANGED toolVars
  BY <1>1 DEF toolVars, ToolsInv, ToolsTypeOK
<1>2. CASE MainLoop
  BY <1>1, <1>2 DEF MainLoop, Replan, ReplanRefused, GiveUp, GetStuck, Finish, RunReadyBatch, BatchEnds
<1>3. ASSUME NEW n \in Nodes, Thread(n) PROVE ToolsInv'
  <2>1. CASE ExecuteNode(n)
    BY <1>1, <2>1, WantingKeepsTools, CallersKnown DEF ExecuteNode, Proposes, Verifies, toolVars
  <2>2. CASE CallTool(n) \/ HandleResult(n)
    BY <2>2, ToolsKept, CallersKnown DEF CallTool, HandleResult
  <2> QED BY <1>3, <2>1, <2>2 DEF Thread
<1>4. CASE EngineStep
  <2>1. CASE RunStep
    BY <2>1, WantingKeepsTools, CallersKnown DEF RunStep
  <2>2. CASE EngineCalls \/ Recover
    BY <2>2, ToolsKept, CallersKnown DEF EngineCalls, Recover
  <2> QED BY <1>1, <1>4, <2>1, <2>2 DEF EngineStep, EngineStarts, StepRefused, VerifyStep
<1> QED BY <1>1, <1>2, <1>3, <1>4 DEF Next, vars, AgentsAct, Agents, EngineAct, MailAct

\* The engine is left alone by the agents and by the mail.
LEMMA OthersLeaveEngine ==
  ASSUME ToolsInv, AgentsAct \/ MailAct \/ UNCHANGED vars
  PROVE  /\ UNCHANGED engine /\ call'[Engine] = call[Engine]
         /\ session'[Solo] = session[Solo] /\ (Kept(Solo) => Kept(Solo)')
<1>0. Solo \in Executions /\ Solo # Team
  BY EngineAssumption, DeliveryAssumption
<1>1. CASE UNCHANGED <<toolVars, engine>>
  BY <1>1 DEF toolVars, Kept
<1>2. ASSUME AgentsAct, NEW n \in Nodes, Thread(n)
      PROVE  /\ call'[Engine] = call[Engine]
             /\ session'[Solo] = session[Solo] /\ (Kept(Solo) => Kept(Solo)')
  <2>1. n \in Callers /\ ExecutionOf[n] = Team /\ n # Engine /\ Engine \in Callers
    BY TeamAssumption, CallersKnown
  <2>2. CASE ExecuteNode(n)
    BY <2>1, <2>2 DEF ExecuteNode, Proposes, Verifies, Kept, ToolsInv, ToolsTypeOK
  <2>3. CASE CallTool(n) \/ HandleResult(n)
    <3>1. ToolEffect(n, graph.work[n])
      BY <2>1, <2>3, ToolsKept DEF CallTool, HandleResult
    <3>2. \E v : call' = [call EXCEPT ![n] = v]
      BY <2>3, ToolsCall DEF CallTool, HandleResult
    <3> QED BY <1>0, <2>1, <3>1, <3>2 DEF ToolEffect
  <2> QED BY <1>2, <2>2, <2>3 DEF Thread
<1>3. CASE AgentsAct /\ MainLoop
  BY <1>1, <1>3 DEF AgentsAct, MainLoop, Replan, ReplanRefused, GiveUp, GetStuck, Finish,
     RunReadyBatch, BatchEnds
<1> QED BY <1>1, <1>2, <1>3 DEF vars, AgentsAct, Agents, MailAct

LEMMA EngineKept == ToolsInv /\ EngineInv /\ [Next]_vars => EngineInv'
<1> SUFFICES ASSUME ToolsInv, EngineInv, [Next]_vars PROVE EngineInv'
  OBVIOUS
<1>1. CASE AgentsAct \/ MailAct \/ UNCHANGED vars
  BY <1>1, OthersLeaveEngine DEF EngineInv, HasEdits
<1>2. CASE EngineAct
  <2>0. Engine \in Callers /\ ExecutionOf[Engine] = Solo /\ DOMAIN call = Callers
    BY EngineAssumption DEF ToolsInv, ToolsTypeOK
  <2>1. CASE EngineStarts \/ StepRefused
    BY <2>1 DEF EngineStarts, StepRefused, Transition, EngineInv, HasEdits, Kept, toolVars
  <2>2. CASE RunStep
    <3>1. engine.step # 4 /\ call'[Engine] = "wanted" /\ engine'.step = engine.step /\ engine'.status = "RUNNING"
      BY <2>0, <2>2 DEF RunStep, EngineInv, Tool, Steps
    <3> QED BY <2>2, <3>1 DEF RunStep, EngineInv, HasEdits, Kept
  <2>3. CASE EngineCalls
    <3>1. ToolEffect(Engine, Tool) /\ UNCHANGED engine
      BY <2>0, <2>3, ToolsKept DEF EngineCalls
    <3>2. engine.step # 4 /\ Tool \in {"inspect", "edit", "save"}
      BY <2>3 DEF EngineCalls, UseTool, Tool, Steps
    <3>3. call[Engine] \in {"wanted", "writing"}
      BY <2>3 DEF EngineCalls, UseTool, Inspect, Edit, Save, SaveRefused, SaveBegins, SaveEnds, Serves
    <3>4. Tool = Steps[engine.step] /\ engine.step \in 1..4
      BY DEF Tool, EngineInv
    <3>5. engine.step = 3 => Tool = "save" /\ HasEdits(Solo)
      BY <3>4 DEF Steps, EngineInv
    <3>6. engine.step = 2 => Tool = "edit"
      BY <3>4 DEF Steps
    <3> QED BY <2>0, <3>1, <3>2, <3>5, <3>6 DEF ToolEffect, EngineInv
  <2>4. CASE Recover
    <3>1. UNCHANGED <<disk, session, lost>> /\ call'[Engine] = "idle" /\ call[Engine] # "idle"
      BY <2>0, <2>4 DEF Recover, TakesResult, Outcomes
    <3>2. engine.step \in 1..3
      BY <3>1 DEF EngineInv
    <3>3. CASE call[Engine] = "ok" /\ engine' = [engine EXCEPT !.step = @ + 1, !.attempt = 0]
      <4>1. engine' = [status |-> engine.status, step |-> engine.step + 1, attempt |-> 0]
        BY <3>3 DEF EngineInv
      <4>2. engine'.step \in 2..4 /\ engine'.step = engine.step + 1 /\ engine'.status # "COMPLETE"
        BY <4>1, <3>2 DEF EngineInv
      <4>3. HasEdits(Solo)' = HasEdits(Solo) /\ Kept(Solo)' = Kept(Solo)
        BY <3>1 DEF HasEdits, Kept
      <4>4. HasEdits(Solo)' \/ engine'.step = 2
        BY <3>2, <3>3, <4>2, <4>3 DEF EngineInv
      <4>5. Kept(Solo)' \/ engine'.step \in 2..3
        BY <3>2, <3>3, <4>2, <4>3 DEF EngineInv
      <4> QED BY <3>1, <4>1, <4>2, <4>4, <4>5 DEF EngineInv
    <3>4. CASE UNCHANGED engine \/ Transition("FAILED")
      BY <3>1, <3>2, <3>4 DEF EngineInv, HasEdits, Kept, Transition
    <3> QED BY <2>4, <3>3, <3>4 DEF Recover
  <2>5. CASE VerifyStep
    <3>1. engine.step = 4
      BY <2>5 DEF VerifyStep, Tool, Steps, EngineInv
    <3> QED BY <2>5, <3>1 DEF VerifyStep, Transition, EngineInv, HasEdits, Kept, toolVars
  <2> QED BY <1>2, <2>1, <2>2, <2>3, <2>4, <2>5 DEF EngineAct, EngineStep
<1> QED BY <1>1, <1>2 DEF Next

\* The agents are left alone by the engine and by the mail.
LEMMA OthersLeaveTeam ==
  ASSUME ToolsInv, EngineAct \/ MailAct \/ UNCHANGED vars
  PROVE  /\ UNCHANGED teamVars /\ \A n \in Nodes : call'[n] = call[n]
         /\ session'[Team] = session[Team] /\ (Kept(Team) => Kept(Team)')
<1>0. /\ Team \in Executions /\ Solo # Team /\ Nodes \subseteq Callers /\ Engine \notin Nodes
      /\ Engine \in Callers /\ ExecutionOf[Engine] = Solo /\ DOMAIN call = Callers
  BY TeamAssumption, EngineAssumption, DeliveryAssumption, CallersKnown DEF ToolsInv, ToolsTypeOK
<1>1. CASE UNCHANGED <<toolVars, teamVars>>
  BY <1>1 DEF toolVars, teamVars, Kept
<1>2. CASE EngineAct
  <2>1. CASE RunStep
    BY <1>0, <1>2, <2>1 DEF RunStep, Kept, EngineAct
  <2>2. CASE EngineCalls \/ Recover
    <3>1. ToolEffect(Engine, Tool)
      BY <1>0, <2>2, ToolsKept DEF EngineCalls, Recover
    <3>2. \E v : call' = [call EXCEPT ![Engine] = v]
      BY <2>2, ToolsCall DEF EngineCalls, Recover
    <3> QED BY <1>0, <1>2, <3>1, <3>2 DEF ToolEffect, EngineAct
  <2> QED BY <1>1, <1>2, <2>1, <2>2 DEF EngineAct, EngineStep, EngineStarts, StepRefused, VerifyStep
<1> QED BY <1>1, <1>2 DEF vars, MailAct

LEMMA LoopKeepsTeam == ASSUME GraphInv, TeamInv, MainLoop PROVE TeamInv'
<1>1. UNCHANGED <<graph, toolVars>>
  BY DEF MainLoop, Replan, ReplanRefused, GiveUp, GetStuck, Finish, RunReadyBatch, BatchEnds
<1>2. \A n \in Nodes : status'[n] = "succeeded" <=> status[n] = "succeeded"
  BY DEF MainLoop, Replan, ReplanRefused, GiveUp, GetStuck, Finish, RunReadyBatch, BatchEnds,
     CancelRemaining, ReadyNodes
<1>3. \A n \in Nodes : status'[n] = "running" => status[n] = "running" \/ n \in ReadyNodes
  BY DEF MainLoop, Replan, ReplanRefused, GiveUp, GetStuck, Finish, RunReadyBatch, BatchEnds,
     CancelRemaining
<1>4. main' = "ok" => \A n \in Nodes : status'[n] = "succeeded"
  <2>1. CASE Finish
    BY <1>2, <2>1 DEF Finish, GraphInv, IsComplete, HasFailure, Terminal
  <2> QED BY <2>1 DEF MainLoop, Replan, ReplanRefused, GiveUp, GetStuck, RunReadyBatch, BatchEnds
<1>5. \A n \in Nodes : graph.deps[n] \subseteq Nodes
  BY DEF GraphInv, Valid, Known
<1>6. \A n \in Nodes : status'[n] \in {"running", "succeeded"} =>
        \A d \in graph.deps[n] : status'[d] = "succeeded"
  BY <1>2, <1>3, <1>5 DEF TeamInv, ReadyNodes
<1>7. \A n \in Nodes : Returned(n)' <=> Returned(n)
  BY <1>1, <1>2 DEF Returned, toolVars
<1>8. HasEdits(Team)' = HasEdits(Team) /\ Kept(Team)' = Kept(Team)
  BY <1>1 DEF HasEdits, Kept, toolVars
<1> QED BY <1>1, <1>4, <1>6, <1>7, <1>8 DEF TeamInv

LEMMA ThreadKeepsTeam ==
  ASSUME ToolsInv, GraphInv, TeamInv, Orderly(graph), NEW n \in Nodes, Thread(n)
  PROVE  TeamInv'
<1>0. /\ n \in Callers /\ ExecutionOf[n] = Team /\ Team \in Executions /\ DOMAIN call = Callers
      /\ Nodes \subseteq Callers /\ UNCHANGED <<graph, main, replans>>
      /\ \A m \in Nodes : graph.deps[m] \subseteq Nodes
  BY TeamAssumption, CallersKnown DEF Thread, ExecuteNode, Proposes, Verifies, CallTool, HandleResult, teamVars,
     ToolsInv, ToolsTypeOK, GraphInv, Valid, Known
\* Nobody but n is concerned, and n has been running.
<1>1. status[n] = "running" /\ main # "ok"
  <2>1. ExecuteNode(n) \/ call[n] # "idle"
    BY DEF Thread, CallTool, UseTool, Inspect, Edit, Save, SaveRefused, SaveBegins, SaveEnds,
       Serves, HandleResult, TakesResult, Outcomes
  <2>2. status[n] = "running"
    BY <2>1 DEF ExecuteNode, Proposes, Verifies, GraphInv
  <2> QED BY <2>2 DEF TeamInv
<1>2. \A m \in Nodes \ {n} : call'[m] = call[m]
  <2>1. call' = call \/ \E v : call' = [call EXCEPT ![n] = v]
    BY ToolsCall DEF Thread, ExecuteNode, Proposes, Verifies, CallTool, HandleResult
  <2> QED BY <1>0, <2>1
<1>3. \A m \in Nodes \ {n} : (status'[m] \in {"running", "succeeded"} <=> status[m] \in {"running", "succeeded"})
                            /\ (status'[m] = "succeeded" <=> status[m] = "succeeded")
  BY <1>0 DEF Thread, ExecuteNode, Proposes, Verifies, CallTool, HandleResult, Fail, Succeed, GraphInv, teamVars
<1>4. \A m \in Nodes : status'[m] \in {"running", "succeeded"} =>
        \A d \in graph.deps[m] : status'[d] = "succeeded"
  <2>1. \A m \in Nodes : status[m] \in {"running", "succeeded"} => n \notin graph.deps[m]
    BY <1>1 DEF TeamInv
  <2> QED BY <1>0, <1>1, <1>3, <2>1 DEF TeamInv
<1>5. \A m \in Nodes \ {n} : Returned(m)' <=> Returned(m)
  BY <1>2, <1>3 DEF Returned
\* While an inspection runs no edit has returned.
<1>6. graph.work[n] = "inspect" => \A e \in Nodes : graph.work[e] = "edit" => ~Returned(e)
  BY <1>1 DEF Orderly, Returned, TeamInv, GraphInv
\* A save runs on a copy with the edits.
<1>7. graph.work[n] = "save" => HasEdits(Team)
  BY <1>0, <1>1 DEF Orderly, Returned, TeamInv
<1>8. CASE ExecuteNode(n)
  <2>1. UNCHANGED <<disk, session, lost>> /\ call[n] = "idle"
    BY <1>8 DEF ExecuteNode, Proposes, Verifies
  <2>2. Returned(n)' => graph.work[n] \notin {"edit", "save"}
    BY <1>0, <1>1, <1>8 DEF ExecuteNode, Proposes, Verifies, Returned, Fail, Succeed, GraphInv
  <2>3. HasEdits(Team)' = HasEdits(Team) /\ Kept(Team)' = Kept(Team)
    BY <2>1 DEF HasEdits, Kept
  <2>4. ~Returned(n)
    BY <1>1, <2>1 DEF Returned
  <2> QED BY <1>0, <1>1, <1>4, <1>5, <2>2, <2>3, <2>4 DEF TeamInv
<1>9. CASE CallTool(n)
  <2>1. ToolEffect(n, graph.work[n]) /\ UNCHANGED status
    BY <1>0, <1>9, ToolsKept DEF CallTool, teamVars
  <2>2. Returned(n)' <=> call'[n] = "ok"
    BY <1>1, <2>1 DEF Returned
  <2>3. call[n] \in {"wanted", "writing"}
    BY <1>9 DEF CallTool, UseTool, Inspect, Edit, Save, SaveRefused, SaveBegins, SaveEnds, Serves
  <2>4. ~Returned(n)
    BY <1>1, <2>3 DEF Returned
  <2>5. (\E m \in Nodes : graph.work[m] = "edit" /\ Returned(m)') => HasEdits(Team)'
    BY <1>0, <1>5, <1>6, <2>1, <2>2 DEF ToolEffect, TeamInv
  <2>6. (\E m \in Nodes : graph.work[m] = "save") /\ (\A m \in Nodes : graph.work[m] = "save" => Returned(m)')
          => Kept(Team)'
    <3>1. CASE graph.work[n] = "save"
      BY <1>0, <1>7, <2>1, <2>2, <3>1 DEF ToolEffect
    <3>2. CASE graph.work[n] # "save"
      BY <1>0, <1>5, <2>1, <3>2 DEF ToolEffect, TeamInv
    <3> QED BY <3>1, <3>2
  <2> QED BY <1>0, <1>1, <1>4, <2>5, <2>6 DEF TeamInv
<1>10. CASE HandleResult(n)
  <2>1. UNCHANGED <<disk, session, lost>> /\ call'[n] = "idle"
    BY <1>0, <1>10 DEF HandleResult, TakesResult
  <2>2. HasEdits(Team)' = HasEdits(Team) /\ Kept(Team)' = Kept(Team)
    BY <2>1 DEF HasEdits, Kept
  <2>3. Returned(n)' <=> Returned(n)
    BY <1>0, <1>1, <1>10, <2>1 DEF HandleResult, Worked, Returned, Fail, Succeed, GraphInv
  <2> QED BY <1>0, <1>1, <1>4, <1>5, <2>2, <2>3 DEF TeamInv
<1> QED BY <1>8, <1>9, <1>10 DEF Thread

LEMMA TeamKept ==
  ASSUME \A plan \in Plans : Orderly(plan), ToolsInv, GraphInv, TeamInv, [Next]_vars
  PROVE  TeamInv'
<1>1. Orderly(graph)
  BY DEF GraphInv
<1>2. CASE EngineAct \/ MailAct \/ UNCHANGED vars
  BY <1>2, OthersLeaveTeam DEF TeamInv, teamVars, Returned, HasEdits
<1>3. CASE AgentsAct
  BY <1>1, <1>3, LoopKeepsTeam, ThreadKeepsTeam DEF AgentsAct, Agents
<1> QED BY <1>2, <1>3 DEF Next

\* What ended well is in the file, unless another has saved it since, whatever
\* failed, was retried or started again in between (engine.py:206-246,
\* multi_agent.py:200-209): for plans whose document tools are in order.
THEOREM OkIsInTheFile ==
  ASSUME \A plan \in Plans : Orderly(plan) PROVE Spec => []OkIsWritten
<1> DEFINE Inv == ToolsInv /\ GraphInv /\ TeamInv /\ EngineInv
<1>1. Init => Inv
  <2> SUFFICES ASSUME Init PROVE Inv
    OBVIOUS
  <2>1. ToolsInv
    BY ToolsAssumption DEF Init, ToolsInit, ToolsInv, ToolsTypeOK, Outcomes
  <2>2. GraphInv
    BY TeamAssumption DEF Init, TeamInit, ToolsInit, GraphInv, Status
  <2>3. TeamInv
    BY CallersKnown DEF Init, TeamInit, ToolsInit, TeamInv, Returned
  <2>4. EngineInv
    BY CallersKnown DEF Init, EngineInit, ToolsInit, EngineInv
  <2> QED BY <2>1, <2>2, <2>3, <2>4
<1>2. Inv /\ [Next]_vars => Inv'
  BY NextKeepsTools, GraphKept, TeamKept, EngineKept
<1>3. Inv => OkIsWritten
  BY DEF TeamInv, EngineInv, OkIsWritten, Returned
<1> HIDE DEF Inv
<1> QED BY <1>1, <1>2, <1>3, PTL DEF Spec

=============================================================================
