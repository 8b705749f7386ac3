# AutoFlow AI: a verification development

TLA+ models of the AutoFlow AI repository, the TLC runs that check them on small
instances, and the theorems about them that TLAPS proves for every instance.
Each definition is translated from the source; `PROJECT.json` gives, for each one,
the file and lines it stands for, and lists the components, runs, hazards,
findings, theorems and, for every checked property, a seeded fault that breaks it.

All paths below are relative to the repository.

## 1. The system

AutoFlow turns an instruction into a plan, runs the plan step by step through
tools, stops for a human's approval before anything leaves the machine, verifies
the outcome and streams what happens to a desktop.

| part | where | state it keeps | operations |
|---|---|---|---|
| Lifecycle state machine | `backend/app/orchestration/state_machine.py` | none (a table) | `can_transition`, `is_terminal` |
| Task creation, idempotency | `backend/app/api/v1/tasks.py`, `services/task_service.py`, `repositories/idempotency.py` | task, execution, idempotency record | POST /tasks, cancel |
| Job queue, workers | `backend/app/workers/` | a FIFO of jobs (Redis list or in process) | enqueue, pop, `handle_job` |
| Planning service | `services/planning_service.py` | plan, steps, `executions.version` | `run_planning`, `_fail_planning` |
| Step controller, recovery | `services/execution_service.py`, `recovery/` | step status, attempts, execution status | `advance` and everything it calls |
| Approvals | `services/approval_service.py`, `api/v1/approvals.py` | approval rows | approve, reject, expiry |
| User operations | `api/v1/executions.py` | execution status, cancel flag | pause, resume, cancel |
| Sessions | `backend/app/db/session.py` | a transaction per request or job | load, flush, commit, rollback |
| Event log and stream | `services/event_service.py`, `repositories/events.py`, `api/v1/events.py` | numbered events per execution | emit, list after, SSE generator |
| Desktop event reader | `desktop/lib/api/events.ts`, `desktop/hooks/use-connected-task.ts` | timeline, last sequence, shown status | seed, connect, reconnect, end |
| Control plane's AI/ML bridge | `backend/app/intelligence/` | mission bindings | `create_plan`, `run_mission`, `resume_mission` |
| Mission server | `ai-ml/src/autoflow_ai/server/` | mission records, threads, event buses | POST /missions, simulate, run, GET, SSE, its own page |
| Desktop missions | `server/desktop_mission.py` | files, windows, a roster | write in Word or Notepad, open, mail, reassign work |
| Society | `ai-ml/src/autoflow_ai/society/` | blackboard, messages, checkpoints | supervisor rounds, delegation, critic, resume |
| Agent runtime, planning | `runtime/`, `planning/`, `agents/` | node statuses, tool sessions | batches of threads, replans, tool calls, verification |
| Mail | `society/gmail_workflow.py`, `computer_use/smtp_email.py` | draft, approval ledger, sent keys | compose, approve, send, look at the mailbox |
| Model gateway | `model_gateway/` | provider health | order, retry, fallback |
| Workflow memory | `memory/` | rows, versions, index | promote, block, deprecate, restore, search |
| Retrieval | `rag/` | chunks, a ledger in memory | ingest, delete, reindex, search |
| Context assembly | `context/` | none | authorize, rank, deduplicate, fit a budget |
| Office files | `runtime/spreadsheet_tools.py`, `computer_use/word_workflow.py` | a workbook, a document | create, validate; open, edit, save, reopen |
| Computer and browser loops | `society/autonomous.py`, `computer_use/workflow.py`, `society/websearch.py` | an application, a browser | observe, act; search, read, close |
| Desktop application's tasks | `desktop/lib`, `desktop/components` | the store, one timer | compose, decide, play, follow |

How they interact. POST /tasks commits a task and hands a *plan* job to the queue in
a background task, after the commit or, with newer releases of the framework, before
it. A worker pops it, plans, and in the same transaction advances
the execution until it finishes or parks for approval. Approve and resume put a
*resume* job in the queue, inside their transaction. Pause, resume, reject and
cancel write the same execution row. Nothing claims an execution: workers and
requests are concurrent database sessions which read rows first, take the row lock
with their first event (`allocate_event_sequence` is an UPDATE of the execution
row), and write the columns they changed at the end. Every event a session emits
goes to the log; SSE generators read the log page by page and the desktop follows
from the last sequence it saw. In integration mode the worker does not run steps: it
creates a mission on the mission server, polls its record, parks the execution when
the mission parks, and creates a second mission once the user has approved. A
mission is a thread of the server's process; what it writes on the machine (files,
windows, mails) it shares with every other mission and with the user. The AI/ML
orchestrator builds contexts from memory and retrieval, asks the gateway's models,
and hands graphs to the agent runtime or to the society's supervisor.

What is hard about it, and what should hold:

- **lost updates**: sessions read before they hold the lock and never read again.
  A gated send must still never run unapproved; retries must still be bounded.
- **decisions racing decisions**: an approve and a reject that both loaded the
  approval as pending; a resume of an execution that awaits approval.
- **delivery**: jobs delivered twice, popped by a worker that dies, enqueued
  before the transaction that makes them meaningful commits.
- **idempotency**: retries of a POST that overlap the original.
- **ordering in the log**: sequences allocated by sessions that overlap or fail.
- **reading while it changes**: a stream that reads the events and the status in
  two statements, over pages, with connections that drop.
- **missions that outlive their process**: evidence, verdicts, checkpoints and
  budgets that must agree after any crash, failed save and resume.
- **answers that come too late**: missions polled with a deadline, calls that fail
  after the server has acted, mails the server took before the connection broke.
- **files nobody locks**: sessions of tools, missions, workflows and users that write
  the same document, and saves that truncate before they write.
- **several stores, one operation**: rows, history and index; ledger and chunks.
- **what a user is shown**: *complete*, *verified* and *sent* must have been earned.
- **progress**: QUEUED tasks, cancellations, row locks, streams and missions that
  must end; loops,
  retries, replans and searches too.

`PROJECT.json` "hazards" lists these one by one at their lines, with the property
that covers each or the reason why none does.

## 2. The modules

| module | what it is |
|---|---|
| `StateMachine` | the statuses, the transition table and the terminal statuses (`enums.py`, `state_machine.py`) |
| `ControlPlane` | one execution: rows, queue, workers, user requests, sessions, crashes, redelivery |
| `ApprovalContract` | what a client may rely on, without workers, sessions, queue or locks; `ControlPlane` implements it |
| `TaskCreation` | concurrent POST /tasks with idempotency keys, up to the planning job |
| `EventStream` | the event log of one execution, the SSE generators, the desktops that watch |
| `MissionServer` | mission records, their threads, the event buses, the stream and the page of the server |
| `MissionBridge` | the control plane in integration mode, composed with `MissionServer` |
| `Supervisor` | one mission of the society: runs, critic, blackboard, message limits, checkpoint |
| `ContextAssembly` | the assembler's pipeline as operators over sets of items |
| `WorkflowMemory`, `DocumentStore` | workflow memory; ingestion of documents |
| `Knowledge` | the orchestrator's contexts, composed from the three modules before |
| `DocumentTools` | the document tools over one file that several executions share |
| `AgentRuntime`, `ExecutionEngine`, `Mail` | a graph of agents, the engine, the mail workflow, each over `DocumentTools` |
| `Delivery` | the composition of these four |
| `ModelGateway`, `DesktopMission`, `OfficeFiles`, `ComputerLoop`, `WebResearch`, `TaskPage` | what runs on the user's machine |
| `Desk` | these six, one of them in each behaviour |
| `MC...` | the instances TLC checks |
| `ControlPlaneProofs`, `TaskCreationProofs`, `EventStreamProofs`, `MissionBridgeProofs`, `SupervisorProofs`, `KnowledgeProofs`, `DeliveryProofs`, `DeskProofs` | theorems and proofs; those of a composition also cover its parts |

In a module, an operator that stands before another one and lengthens its name
(`BudgetLeftAtLimit` before `BudgetLeft`), or whose comment says *seeded fault*, is
the form a plausible bug would give the operator after it. Nothing uses it; it
exists so that each property can be shown to fail when the code is wrong in that
way.

### ControlPlane

State. `db` is the committed rows of the execution: execution and task status, the
cancel flag, the plan version, the number of plans, the steps, the approvals.
`queue` is the job list. A session (worker or HTTP request) has a `pc`, a `job`,
the rows as it loaded them (`snap`) and its own copy (`view`). `lock` is the
holder of the execution row. `sent` counts what the outside world saw, `granted`
remembers which steps ever had an approval committed; neither is in the database.

Correspondence.

- `Load` .. `Work` .. `CommitRows`: SQLAlchemy's unit of work. A session reads,
  works on its copy and at commit writes the columns whose value differs from what
  it loaded (`Flush`, `Written`), whatever the row holds by then. `Work` needs the
  row lock, because every operation emits an event (`Hold`).
- `TakeJob`/`DropJob`: the queue is popped before the job is done (`BRPOP`); a job
  that finds nothing to do is gone. `Redeliver` is at-least-once delivery.
- `Plan`, `PlanUnavailable`, `PlanInvalid`: the ends of `run_planning`; only the
  first compares versions (`SwapsVersion`).
- `CancelExecution`, `Complete`, `RaiseApproval`, `RunStep`, `AmbiguousApproval`:
  one turn each of the loop in `advance`, with verification and recovery
  (`AfterRun`), the tool's effect (`UsesTool`), the raised approval (`RaisedFor`) and
  `_fail` (`Fail`) part of the turn.
- `BeginApprove`, `Approve`, `Expire`, `Reject`, `Pause`, `Resume`, `Cancel`,
  `CommitRequest`: the requests, in two or three steps, since what they test was
  read before they wrote. A request whose test fails changes nothing and is no step.
- `Rollback`: an exception after the first write. `Crash`: the session's process
  or connection dies; its job is lost, its tools' effects stay.

Abstractions. One job is one transaction, so statuses that a transaction passes
through (PLANNING, VALIDATING, VERIFYING, ...) are not committed and do not appear.
The reads a session makes before it has the lock are one step. Step rows exist
from the start as WAITING; before planning they are the ones the plan will make.
`sent` counts only sends that need approval. The plan is the flagship plan cut to
one step per kind (`MCControlPlane`); the model takes any plan. `overlapping` uses
a plan whose send does not wait for the approval step: in the flagship plan the
dependency alone keeps the send back, so that the gate in `_handle_action` would
never be put to the test. The fixture orchestrator does not make such a plan; it
says itself that the real one decides plans (`mock_orchestrator.py:3-4`), and
neither `run_planning` nor `advance` looks for the dependency. The mock verifier
fails a step while its `force_fail` input says so (`FlakySteps`). The final outcome
check passes, as it does in mock mode for every state that can reach it. `reject`
does not look at the expiry, as in the code. `ApprovalIds` bounds how many
approvals are ever raised.

### TaskCreation

A request is `new`, has `missed` the stored answer, has its transaction `open`, is
`committed`, has its `background` task to run, or is `done`. A key stands for the
principal, the route and the Idempotency-Key header. `Waits`/`Unique` are the
unique index `uq_idem`: the second insert of a key waits for the first transaction
to end and fails if it committed, which the caller sees as a 500 (`CreateTwice`).
`api/v1/tasks.py:69` says that the job is enqueued after the commit. That order is the
framework's: `pyproject.toml` asks for `fastapi>=0.115` with no upper bound, and a
dependency with `yield`, which is where the session commits, ends before the answer and
the background tasks in older releases and after both from 0.118 on. `late` is chosen
once per behaviour and stands for the second. There a request is answered `open`, its
background task hands over the job (`handed`), and only then does it commit or fail: a
worker may take the job first and drop it (`dropped`), and an answer may name a task
that was never committed. The properties say what holds in both orders and where one
of them makes the difference.

### EventStream

A writer's transaction is the list of events it emits and the status it leaves
(`Transactions`; the instance lists the control plane's). `Emit` allocates the next
sequence under the row lock, `Commit` publishes the rows, `Abort` drops them. The
server's end of a stream alternates `ReadRows` and `ReadStatus`, the two statements
of one turn of `event_generator`, from where `Connect` has `Opened` it. The desktop loads the task, seeds its timeline
with one page, connects after the last sequence, receives (`Hears` is what one message
changes), and reconnects when the
connection is lost. Keepalives, authentication and the loading of the pending
approval are left out.

### Supervisor

State. `status` is the graph's, `verified` the supervisor's records, `known` the
mission state in memory and `disk` the one in the JSON file; `board` and `bus` are
the blackboard and what the message bus counts. `phase`, `todo` and `at` are the
program counter: between visits of a round, a worker at work, a result judged.

Correspondence.

- `Start` .. `Finish`: `run`. `NewRound` takes the ready nodes; each is then
  visited in the order of the graph: `SkipVerified` (resume), `HitLimit`,
  `FindNobody`, `Assign`. `Finish` is a round that ends the loop, with the outcome.
- `WorkBlocked`, `ToolFails`, `Produce`, `RunTool`: one call of `_delegate` up to
  the critic's verdict, by what the worker's run may bring. `Accept`, `Revise`,
  `Reassign`, `GiveUp`: what the supervisor does with the verdict.
- `Accept` posts the verdict, records it and writes the checkpoint. The save may
  fail, and `_checkpoint` ignores that; `os.replace` makes it all or nothing.
- `Crash`: the process dies between any two steps and only `disk` is left.

Abstractions. An entry of the board keeps its task, kind, whether it reads as a
failure and the tasks whose required evidence it names: keys, values and summaries
are only searched for those. A claim on the board stands for `rec.outputs` too,
which is set in the same call. A verdict's entry names nothing. Only messages that
can repeat too often first are counted by key (`Topics`): for every other kind
there is a request or a verdict that is sent at least as often. A corrupt file
loads as none. No grounding, no handoff (`_to_decision` never makes one).
`MissionOutcome.DEADLOCK` is unreachable, since every visit counts as progress.
Dependencies are tasks of the graph; `blocked` is still reached by cycles.

### MissionServer, MissionBridge

State. The mission server has a record per mission (`status`, `result`, what is
gated), the thread's place in its run, the bus as a list of events, one stream that
reads it and the server's own web page. The bridge has the committed execution (`row`), the job
a worker has taken with its place and what it has read (`work`), the queue, and the
faults spent so far.

Correspondence.

- `ThreadBegins`, `ThreadWorks`, `ThreadReports`: the body of a mission's thread. What
  it reports (status, events, result, close) is a list in the order of the code, taken
  one line at a time, since every reader may come between two of them.
- `StreamDelivers`, `StreamChecksClosed`, `StreamChecksDrained`: one turn of the generator in
  `server/app.py`; `StreamExpires` drops it. `ThreadDies` is an exception outside the
  `try` of a mission's body (`missions.py:150-172`, 196-216, 245-246, 261-291): the record
  says *running* for ever and the bus stays open. `Page...`: the page's reading of the record and the events.
- `TakeJob`, `CreateMission`, `StartMission`: the calls of `RealAiMlRuntime`
  (`PlanRequest` for `create_plan`, `CompletingRequest` for `resume_mission`).
  `CallFails`: the call is lost, and the server may have acted. `DeriveSteps`:
  planning by the mission. `PollStatus`, `PollResult`: status read before the result.
  `TimeOut`: the deadline of `run_mission`. `Reconcile`, `Commit`: `_advance_real`; the
  verification it records is the result's (`Recorded`), even when the status was read
  too early for the outcome to be COMPLETE.
- `Approve`, `Reject`, `Pause`, `Resume`, `Cancel`: one transaction each; their races
  are the subject of `ControlPlane`.
- `Restart`: the server's memory is gone. `Crash`, `Redeliver`: as in `ControlPlane`.

Abstractions. What a mission does in applications is one step with a free outcome.
Only bus lines that somebody reads are kept (`Heard`). Of the approvals of an execution
the bridge keeps how many are pending. A behaviour has either the page
or the bridge, which share nothing. `MaxTrouble` bounds crashes, redeliveries, lost
calls and restarts together.

### ContextAssembly, WorkflowMemory, DocumentStore, Knowledge

`ContextAssembly` is the assembler as operators: authorized items, then candidates
ranked and deduplicated, then sections cut to their shares and the whole to the
window. `WorkflowMemory` has the table, the version history and the vector index as
three stores that runs which learn, an operator and a search write or read one call at
a time, each in its own process and none with a lock. A run that learns looks its content
up, reads the parent, writes the row, records the version and writes the index; `raced`
remembers the workflows whose parent two runs had read before either wrote. `DocumentStore` has the chunk collection, the ledger (in memory: `ServiceRestarts`
loses it) and one ingestion at work. `Knowledge` composes them: `BuildBegins` is the
retrieval of documents, the search goes on name by name, `BuildEnds` assembles.

Abstractions. A workflow's identity is the content it was first promoted with, as its id
is made of that content's hash; `NameOf` says which contents share a name. Scores and
shares are integers in percent. Over-fetching and thresholds
are left out: what is there is found. The policy's verdict is the constant `Promotable`.
Usage and failure counters have no caller in the repository.

### DocumentTools, AgentRuntime, ExecutionEngine, Mail, Delivery

`DocumentTools` is one file, and per execution a tool session which opens, edits, saves
and inspects it. `AgentRuntime` is the batch scheduler over a graph: a batch of
threads, the wait for all, failures, replans, endings. `ExecutionEngine` is the
four-step plan with retries and verification. `Mail` is the draft, the approval bound
to it and to the attachment, the transmission and the look at the mailbox. A behaviour
of `Delivery` has two of the three on one file.

Abstractions. The content of a file is the set of executions whose edits it holds. A
save truncates and then writes, so it may leave a torn file, which does not open; how
it is torn is not told apart. `lost` remembers whose edits another execution's save has
overwritten. The replanner is external: only tests supply one. Plans are the
deterministic planner's two and three that a model could propose, of which two are
invalid. A tool call is refused (the registry
does not retry that) or raises; a save that raises may have torn the file. The draft
changes only between calls of the workflow. The mailbox may hold an older message of the
same subject from the start, and what was sent may reach it late (`Deliver`). What is sent is the file as it is at the transmission
(`smtp_email.py:214`), not as it was hashed for the check: `VerifiedIsSent` therefore
speaks of the approved draft, and `ApprovedIsSent`, which speaks of the attachment too,
is among the claims below that do not hold.

### Desk

Six parts that share no state, one of them in each behaviour:

- `ModelGateway`: the router's order (the best of the models that are left), attempts,
  fallback and health, over the replies a connection may give; the callers' deterministic answers when no model helps.
- `DesktopMission`: two missions that write in Word or Notepad, fall back, open, mail
  or reassign work, on one pair of files. Two of their texts begin alike. A mission that
  has read its file back is `verified`; its record is complete one step later (`Record`).
- `OfficeFiles`: the report built from three sources and validated against them, and the
  Word workflow that opens, edits, saves and reopens while others write. The name of
  the report's workbook is unique, so that nobody else writes it.
- `ComputerLoop`: the observing agent, the workflow's step list, or neither. `unsaved`
  remembers why a save that was reported ok saved nothing: the keys were not sent, or the
  editor asked for a name.
- `WebResearch`: searches with one browser adapter, which live through launch failures,
  refusals, a start that fails midway and leaves its driver, and closes that raise at the
  browser or at the driver. A search engine's address is always allowed. A deep
  read fails as the code is written: the browser is closed by then.
- `TaskPage`: the desktop application's store: the player of simulated tasks, the
  composer, both places of decision, the buttons above a task (`TaskHeader`: pause, resume
  and cancel set what the store shows and tell nobody), and the page on a real task, whose
  backend is free and may end COMPLETE, FAILED or CANCELLED.

## 3. The runs

| run | instance | shows |
|---|---|---|
| `serial` | 1 worker, 1 client, 4 requests, every operation and planning outcome, 1 crash | `KeepsContract`: the plane implements `ApprovalContract` (refinement) |
| `overlapping` | 2 workers, 3 clients, approve/reject/resume, 3 requests, a job delivered twice, a send that does not depend on its approval | `SendIsApproved`, `DependentsAwaitGrant`, `AwaitingHasPending`, `LatePlanIsNoOp` |
| `progress` | 1 worker, 2 clients, every operation, a job delivered twice, a step that fails until its budget of 2 is used | `AttemptsBounded`, `SendsOnce`; `EarlyCancelEnds` under fairness |
| `creation` | 5 POSTs, 3 under one key of which one has another body, both orders of commit and background task, 1 crash | `OneTaskPerKey`, `ReplayIsFaithful`, `CreatedIsPlanned` |
| `stream` | 2 writers, 1 desktop, pages of 2, 4 transactions, 1 lost connection | `GapFree`, `TimelineIsFaithful`, `StreamEnds` |
| `bridge` | 3 missions, 4 kinds of goal, 2 requests, 2 of: crash, redelivery, lost call, restart; 1 reconnect of the page; threads that die | `NoSendBeforeApproval`, `CompleteIsEarned`, `SendsOnceUnlessCrashed`, `JobEnds` of the bridge; `EndMeansSettled`, `PageSettles` of the server |
| `mission` | 3 tasks with a dependency, 1 or 2 specialists, 4 delegations, 1 revision, 1 reassignment, 3 repeated messages, 2 runs, crashes, 1 checkpoint that is not written | `CompleteIsVerified`, `CompleteIsUncontradicted`, `CheckpointHasEvidence`, `VerifiedNotRedone`; `MissionEnds` under fairness |
| `knowledge` | 2 runs that learn, 3 contents of one name and one that is refused, 1 document with 2 texts, a small and a large window, 3 operations, 2 troubles | `BlockedIsNotServed`, `VersionNamesOneContentUnlessRaced`, `OneContentUnlessForgotten`, `ContextFits`, `UnseenHasNoInfluence` |
| `delivery` | 4 tasks and 1 replan, 1 retry of the engine, 2 sends; two of the three at a time | `OkIsWritten`, `StuckOnlyAfterReplan`, `VerifiedIsSent`, `SentOnceUnlessError`, `RunsEnd` |
| `desk` | 3 requests to 3 models; 2 missions; 2 edits; 5 steps and actions; 2 searches; 4 tasks | `BestThatWorks`, `ReportedIsThere`, `VerifiedIsSaved`, `NothingLeftRunning`, `ShownIsEarned` |
| `resume_skips` | 1 worker, 1 client | **violated** `CompleteIsEarned`: resuming an execution that awaits approval completes it with its approval and send undone |
| `two_workers_send` | 2 workers, a job delivered twice | **violated** `SendsOnce`: both workers load the send step as waiting and both send |

A violated run checks one sentence of the repository's own documents or comments;
`PROJECT.json` "findings" quotes it. `CompleteIsEarned` is a property of
`ControlPlane` in `resume_skips` and another one, of the same intent, of
`MissionBridge` in `bridge`.

Six more configurations are kept beside the runs, and `Creation.cfg` serves once
more with another invariant. They check sentences
of the repository that the code does not keep, and TLC violates each of the twelve
(leave one sentence in where a configuration has several: TLC stops at the first):

| configuration | module | sentence | what happens |
|---|---|---|---|
| `ControlClaims.cfg` | `MCControlPlane` | `DecisionIsFinal` | a committed reject is overwritten by an approve that had loaded the row as pending |
| | | `CancelTerminates` | nobody has a job that would see the flag of a parked execution |
| `EndTooEarly.cfg` | `MCEventStream` | `EndMeansCaughtUp` ("Close cleanly once terminal and the client has caught up", `events.py`) | the execution ends between the two reads; the stream closes with events unsent |
| `BorrowedEvidence.cfg` | `MCSupervisor` | `OwnEvidence` | a task that needs a tool result is verified on another task's evidence |
| `Creation.cfg`, its properties replaced by `INVARIANT JobsAreForTasks` | `MCTaskCreation` | `JobsAreForTasks` ("enqueued after the request transaction commits", `api/v1/tasks.py:69`) | where the framework commits late, the job is in the queue before its task is in the table |
| `BridgeClaims.cfg` | `MCMissionBridge` | `CompletedEventIsEarned` (`docs/API.md:97`) | the replayed trace of a parked or failed simulation carries the completion event |
| | | `PageAlwaysSettles` ("never crash the server thread", `missions.py:189`, 253, 388) | the thread dies outside its `try`; the record stays *running*, the stream has no end |
| `DeliveryClaims.cfg` | `MCDelivery` | `OkMeansDone` (`tests/test_multi_agent.py:254-267`) | a replan leaves tasks blocked for ever; they are cancelled, and a cancelled task is no failure |
| | | `ApprovedIsSent` ("cryptographically bound to the EXACT message", `gmail_workflow.py:3-7`) | another execution saves the file between the check and the transmission |
| `DeskClaims.cfg` | `MCDesk` | `SavedForReal` ("never by faking success", `autonomous.py:9-11`) | the save keys were not sent and `tools.py:181-187` reports them as sent; or the editor asked for a name |
| | | `CleansUp` (`websearch.py:166`) | the adapter still holds the closed browser of the last search; closing it raises and the driver of this one stays |
| | | `ShownIsBackends` (`use-connected-task.ts:8-10`) | approving a real task starts the local script on it as well |

Where the passing properties stop holding, found while choosing the instances:

- `KeepsContract` needs one request at a time. Overlapping decisions overwrite one
  another (`DecisionIsFinal` shows it; a late approve can also reopen a COMPLETE
  execution).
- `SendsOnce` needs one worker, no crash and one gated step: `two_workers_send`, a worker
  that dies between a send and its commit, and a plan with two sends of which the second
  finds two granted approvals and rolls the record of the first back, repeat it (the
  hypotheses of `OneWorkerSendsOnce`). In integration mode a crash alone
  repeats it, hence `SendsOnceUnlessCrashed`.
- `LatePlanIsNoOp` needs the late planner to get a valid plan: `_fail_planning`
  commits without comparing the version, and writes FAILED over an execution that
  another planner has set running (the hypothesis of `LatePlansAreNoOps`).
- `CreatedIsPlanned` needs processes that do not die: a popped job is gone
  (`find_stale_running` has no caller), and so is a background task.
- `CreatedIsPlanned` and `ReplayIsFaithful` also allow for what a late commit does: a
  job dropped because its task was not there yet, and an answer whose task is undone by
  a death.
- `EarlyCancelEnds` is about a cancel that a job can still see. A parked execution has
  none (`CancelTerminates`).
- `AwaitingHasPending` does not keep one decision from overwriting another
  (`DecisionIsFinal`).
- `SendsOnceUnlessCrashed` is checked with one worker; two live workers that share a
  redelivered planning job (`planning_service.py:184`) would each start a mission.
- `PageSettles` excepts the missions whose thread died outside its `try`.
- `VersionNamesOneContentUnlessRaced`: two runs that read the same parent give one
  version two contents, as nothing locks the store between read and write
  (`memory/service.py:160-206`).
- `BlockedIsNotServed` ends with the next promotion of the same name: the upsert makes
  a blocked workflow active again (`memory/service.py:175-196`).
- `OneContentUnlessForgotten` needs the ledger, which a restart loses: the chunks of
  the earlier text then stay beside the new ones.
- `OkIsWritten` needs plans that edit after they inspect and save after they edit, as the
  deterministic planner's do (`Orderly`); validation does not ask for it, and an
  inspection that comes late takes the edits of the copy back.
- `OkIsWritten` and `ReportedIsThere` hold until another execution saves: nothing locks
  a file, and the one who ended first loses its edits. The same happens to a mission
  between its check of the file and its record.
- `VerifiedIsSaved` needs saves that were reported ok to have saved.
- `SentOnceUnlessError`: an SMTP error after the server has accepted the mail is
  reported as a failure, and the next attempt sends again.
- `BestThatWorks` allows for a health that is kept by the provider's name: both
  remote models have the same, so the failures of one count for the other.

Seen and stated without a run.

- Control plane: the job that approve or resume enqueues can be popped before their
  transaction commits, and is then dropped (`DropJob`), which leaves a RUNNING
  execution without a job; pause and resume leave `tasks.status` behind; an expired
  approval is marked EXPIRED and rolled back to PENDING by the exception that reports
  it (`approval_service.py:173-179`); two granted approvals of one action make the
  send's query raise and leave the execution RUNNING without a job
  (`execution_service.py:585`); requests that share a new key at the same moment can
  be answered 500; an empty list of artifacts counts as verified
  (`ai_ml_runtime.py:235`).
- Society: the verdicts on one task share one loop key (`messages.py:83`), so that the
  default limits can stop a mission before its reassignments are used.
- Documents: `edits_present` passes on any text (`engine.py:342-349`); a retry appends
  its text again (`docx_adapter.py:60-84`); an inspection after an edit discards the
  edit; verification passes where nothing was saved (`orchestrator.py:485-491`); the
  spreadsheet's validation compares totals and a row count only.
- Mail: the mailbox is searched by subject alone (`smtp_email.py:250-308`); the
  idempotency key leaves the body out (176-177); the file is hashed before and read
  again at the transmission (`gmail_workflow.py:228-235`).
- Gateway: errors of reading an answer that are not normalised escape the router; the
  answer to a ping is ignored (`orchestrator.py:286-305`).
- Machine: the last rung of the workflow's ladder cannot be reached
  (`workflow.py:113-124`); the limit on actions is tested once per step and may be
  exceeded by two; NO_RESULTS is reported for a page that was not ready
  (`websearch.py:16-19`); opening is called a success whatever
  `webbrowser.open` or `os.system` answers (`missions.py:304-308`); only the first
  forty characters of a text are compared (`desktop_mission.py:15-16`).
- Desktop application: no listener for `approval.rejected` (`events.ts:42`); a change of
  status between the load of the task and the first page of events is not shown until
  the next event; the approvals page approves a simulated task without continuing it;
  a composed task has no approval row and never completes; a second task's script takes
  the timer from the first.

Bounds. Two sessions that overlap are the smallest instance of every race in the
control plane, three clients let two decisions and a resume overlap; four requests take
an execution through park, resume, re-park and decision. (`overlapping` was also run
once with four requests: 1.7 million states, no error.) Two approval rows are what
those executions raise. A page of two events with up to seven in the log splits
both the seed and the stream. Three tasks are a dependency and a bystander; with
two attempts by two agents a mission overdraws its budget, repeats a message too
often and gives up; two runs are a crash and a resume. Three missions are the planning
one, the one after the approval and one that a duplicate starts; two troubles are a
dead worker and the restart that its successor meets. Three operations are a promotion,
a block and a search, or an ingestion, its repetition and a context. Four tasks
are the deterministic planner's. The router's three requests let a model fail three
times, which is when its health turns. Every bound is a CONSTANT named `Max...` (or
`ApprovalIds`, `Limit`, `RecoveryBudget`), and the theorems hold for all values.
Symmetry is used in `overlapping` only, where no property is a liveness property.
Deadlock is not checked: executions finish and users may stop.

Fairness. A worker loop never stops (`run_worker` loops forever), a request that was
accepted is served to its end, the background task of a committed POST runs, the
SSE generator polls and the desktop handles what arrives. A mission's run is one
thread that goes on while its process lives; the bridge's polling loop and its deadline
run; so do the agents' threads and the engine. That a thread dies is never fair, and
nothing goes on for one that has.
Users, callers, approvals, crashes, redeliveries, restarts, lost connections and the
passing of the TTL are never fair. Nothing
is assumed about writers in `EventStream`, nor at all in `Knowledge` and `Desk`, which
have no liveness property.

## 4. The proofs

Checked by TLAPS for every value of the constants that satisfies the named
assumptions of the modules (`SessionsAssumption`, `PlanAssumption`, `BoundAssumption`;
`CreationAssumption`; `StreamAssumption`; `ServerAssumption`, `BridgeAssumption`;
`MissionAssumption`, `LimitAssumption`; `MemoryAssumption`, `DocumentAssumption`;
`ToolsAssumption`, `TeamAssumption`, `EngineAssumption`, `MailAssumption`,
`DeliveryAssumption`; `GatewayAssumption`, `DesktopAssumption`, `OfficeAssumption`,
`LoopAssumption`, `WebAssumption`, `PageAssumption`), with any number of sessions,
requests, redeliveries and crashes. They say that the constants are sets, functions and
numbers of the kinds the code has, and that names which mean different things differ;
TLC evaluates them on the instances. Three theorems have hypotheses beyond these, which
TLC has shown to be needed: `LatePlansAreNoOps`, `OneWorkerSendsOnce`, `OkIsInTheFile`
(section 3).

| theorem | property | argument |
|---|---|---|
| `ControlPlaneProofs!TypeCorrect` | `TypeOK` | inductive as it stands |
| `ControlPlaneProofs!SendsAreApproved` | `SendIsApproved` | from `GrantInv` |
| `ControlPlaneProofs!DependentsAwait` | `DependentsAwaitGrant` | from `GrantInv` |
| `ControlPlaneProofs!RecoveryIsBounded` | `AttemptsBounded` | from `BudgetInv` |
| `ControlPlaneProofs!SomeoneCanDecide` | `AwaitingHasPending` | from `PendingInv` |
| `ControlPlaneProofs!LatePlansAreNoOps` | `LatePlanIsNoOp` | from `PlanInv`, for planners whose plans are valid |
| `ControlPlaneProofs!OneWorkerSendsOnce` | `SendsOnce` | from `SendInv`, for one worker that does not die and one gated step |
| `TaskCreationProofs!IdempotentCreation`, `FaithfulReplay` | `OneTaskPerKey`, `ReplayIsFaithful` | from `CreationInv` |
| `TaskCreationProofs!NothingForgotten`, `OneJobPerTask` | `NoTaskForgotten`, `EnqueuedOnce` (proved only) | from `CreationInv` |
| `EventStreamProofs!LogIsGapFree` | `GapFree` | from `AllocationInv` |
| `EventStreamProofs!TimelinesAreFaithful` | `TimelineIsFaithful` | from `Inv` (`AllocationInv` and `ViewInv`) |
| `MissionBridgeProofs!EndIsTheEnd`, `GateHolds`, `CompleteHasAMission`, `OneSendPerLife` | `EndMeansSettled`, `NoSendBeforeApproval`, `CompleteIsEarned`, `SendsOnceUnlessCrashed` | from `Inv` |
| `SupervisorProofs!MissionInvariant` | `MissionInv` (proved only) | inductive with `TypeOK` |
| `SupervisorProofs!CompleteMeansVerified`, `CompleteMeansUncontradicted`, `CheckpointsHaveEvidence`, `VerifiedWorkNotRedone` | `CompleteIsVerified`, `CompleteIsUncontradicted`, `CheckpointHasEvidence`, `VerifiedNotRedone` | from `MissionInv` |
| `SupervisorProofs!WorkDependsOnVerified`, `SpendingBounded` | `DependenciesVerified`, `DelegationsBounded` (proved only) | from `MissionInv` |
| `KnowledgeProofs!UnseenInfluencesNothing` | `UnseenHasNoInfluence` | filtering twice is filtering once |
| `KnowledgeProofs!VersionsAreFaithful` | `VersionNamesOneContentUnlessRaced` | with `PromotionInv` |
| `KnowledgeProofs!BlockedStaysUnserved` | `BlockedIsNotServed` | with `SearchInv` |
| `KnowledgeProofs!OneContentHolds` | `OneContentUnlessForgotten` | with `LedgerInv` |
| `DeliveryProofs!VerifiedWasSent`, `SentOnce` | `VerifiedIsSent`, `SentOnceUnlessError` | from `WentInv`; with `OnceInv` |
| `DeliveryProofs!ValidPlansProgress` | `StuckOnlyAfterReplan` | from `GraphInv` |
| `DeliveryProofs!OkIsInTheFile` | `OkIsWritten` | from `ToolsInv`, `TeamInv` and the engine's, for plans that are `Orderly` |
| `DeskProofs!BrowserIsClosed`, `GoalsAreSaved`, `DoneIsThere`, `TheBestAnswers`, `CompleteIsEarnedOnThePage` | `NothingLeftRunning`, `VerifiedIsSaved`, `ReportedIsThere`, `BestThatWorks`, `ShownIsEarned` | one invariant per part |

*Why approval survives lost updates* (`GrantInv`). The send is gated by a query
under the lock, so it sees committed approvals only, and those were granted. Steps
after an approval step start only if a *copy* of the rows shows that step COMPLETE.
So the invariant speaks of every copy, not only of the database: in the database
and in every worker's copy a complete approval step was granted (`Earned`); a
request's copy may be ahead, but then it carries the decision that its commit will
write together with the step (`Granting`), and that decision is a change of the
column, since it was taken on an approval loaded as pending (`DecidesPending`), so
that the flush does write it. A commit that overwrites other columns cannot break
this, because `granted` only grows.

*Why retries stop* (`BudgetInv`). Attempts are counted on copies, and a stale copy
may write back a smaller number. The invariant is per row: what still waits has
budget left. A worker changes a step's attempts only together with its status
away from what it loaded, unless it loaded it waiting (`RanWaiting`), so a
column-wise flush never joins an old status with a new count that has no budget.

*Why somebody can always decide* (`PendingInv`). The approval an execution parked on is
known only to sessions that loaded the rows while it waited (`Fresh`), and such a session
moves the execution when it decides. Any other decision is about an approval of an
earlier wait, so it leaves the one that counts pending.

*Why a late plan changes nothing* (`PlanInv`). Leaving QUEUED counts the version up, once.
A planner that is about to commit holds the version it loaded; one that has loaded a
lower version than the row's finds no row to swap and commits nothing.

*Why one worker sends once* (`SendInv`). A send that was made is a step that no longer
waits, in the database or in the copy of the worker that made it and is about to commit
it; nobody else writes the column back to WAITING, since nobody else changes it.

*Why the log has no gaps* (`AllocationInv`). A transaction that has allocated holds
the execution row, and its numbers continue the committed ones; so there is never
more than one such transaction, and its commit appends exactly the next numbers.

*Why a timeline is faithful* (`ViewInv`). Between what the desktop has seen and the log lie
the messages under way and the batch being read. The invariant joins them: the timeline is
faithful up to the last sequence seen, what is under way leads from there to the cursor
of the stream, and a page read from the cursor is the next piece of the log (`PageContinues`).
It holds while writers append since, by `AllocationInv`, nothing is ever inserted below a
sequence that is visible.

*Why the bridge keeps the gate and sends once* (`MissionBridgeProofs!Inv`). A mission may
send only if it was started without a gate (`Senders`), which a job of a gated goal
asks for only after it has read a grant. The number of such missions is at most one
for each worker that died and one more if the execution has `Used` its own: it is over,
or a job watches the mission or is about to end the execution. What the thread of a
mission will still report is a list, so the invariant of the server (`MissionInv`) says
what every remaining line of it promises: a status that settles comes after the result it
stands for, and the bus closes last.

*Why one task comes of one key* (`CreationInv`). A transaction that inserted a key
is the only open one of that key and the key has no record yet; a committed record
names the only task of its key.

*Why a complete mission is verified* (`MissionInv`). `RecordsInv`: the records and
the mission state name the same tasks, the checkpoint no others, and what is ready,
worked on or failed is not among them, so that it cannot be redone. `EvidenceInv`:
each of them is backed on the board in memory and on disk. Contradictions are not
withdrawn, so the invariant says what they cost: while one is on the board some
task is unverified, and since the verdict of every later review is *contradicted*,
it stays unverified; a checkpoint is written only on a verified verdict, so the
board on disk has none. `SpendingInv`: in a delegation the budget may be exceeded by
what this task has spent, which is its place among its agents' attempts (`Spent`).

*Why unseen items leave no trace.* What the caller may not see is removed before
anything is ranked or counted, so assembling the rest alone gives the same context
(`AuthorizedTwice`); the theorem holds for all items, windows and callers.

*Why a version keeps its content* (`PromotionInv`). A run writes a version above
everything the history has recorded, provided no other run has read the same parent;
then it records the row it has just written, or a lower version than the row has by
then. Two that have read the same parent put the workflow into `raced`. A run that died
half way leaves a version without a record, never a wrong one.

*Why what is verified went out* (`WentInv`). Every sign that a send went well, be it the
adapter's own record, the step after the transmission or the verdict, has a message behind
it that the server took under a granted binding and with the approved draft. Nothing but
the transmission makes the first of them, and it is reached through the check; the
mailbox, which may hold anything, is asked only after it.

*Why no task is forgotten* (`CreationInv`). Where the commit comes first, a committed
request still has its background task, has put its job into the queue or has been
planned. Where it comes last, the job was there before the task: it is still in the queue,
or a worker has taken it and the task was planned or dropped.

*Why blocked stays unserved* (`SearchInv`). A search asks the table again for every
name the index gave it. What was blocked when it began and has not been made active or
deprecated since is still blocked in the table, whatever the index says.

*Why a document has one content* (`LedgerInv`). Chunks of a document nobody has
forgotten have a ledger entry, so an ingestion of it is its second version and deletes
the old chunks first; one that finds no entry finds no chunks.

*Why a validated graph does not get stuck* (`GraphInv`). The numbering the validator found
decreases along dependencies, so among the tasks that still wait there is one of least
number; with nothing failed and nothing replanned, what it depends on has succeeded and
it is ready (`SomethingIsReady`).

*Why what ended well is written* (`TeamInv`). An edit that returned is in the copy until an
inspection, which orderly plans put before it; a save that returned has put the copy in
the file, and the last save of the plan has an edit behind it. Another execution's save
puts the name into `lost`.

*Why the machine's reports are earned* (`DeskProofs`). The parts share no state: a step of
the whole is a step of one part (`StepOfEach`), and each invariant says what the next
step of its part takes for granted: which processes the adapter still knows of, that
nothing but a save follows a confirmed save, that a file keeps its text
until somebody writes over it, which models are left for the request, and what a row of the page owes
to its approval.

Only model-checked: liveness (`EarlyCancelEnds`, `CreatedIsPlanned`, `StreamEnds`,
`JobEnds`, `PageSettles`, `MissionEnds`, `RunsEnd`), which is out of the
prover's reach, as is ENABLED; the refinement of `ApprovalContract` (`KeepsContract` holds
for one request at a time and for plans whose send depends on its approval step, which
the general specification does not say); `ContextFits`, a sum over a set that a fold
computes, so that its proof would be an induction over the data.

## 5. Not modelled

- Repositories, schemas, serializers, audit, artifacts and seed data of the control
  plane: field mapping and storage; their rows are in `ControlPlane` where a property
  needs them.
- Workspaces, agents, workflows and knowledge endpoints: single-row calls without
  interaction with executions. Authentication and roles: a lookup and role tests; the
  operations modelled are those of a permitted user.
- The lab, samples, the command line, the needle agent and the brain: offline data,
  demonstrations and model weights.
- Of the parts modelled partly: the translation of mission events into the control
  plane's stream and its artifact records; uploads and the model lab of the mission
  server; mission grounding and handoff summaries of the society; the router's backoff
  and capability requirements; compatibility scores, export and session memory;
  loaders, embeddings and similarity ranking; document formats other than .docx, the
  resolution of screen elements and Playwright's local pages; the desktop's pages that
  only render and the Electron shell.
- The loss of the in-process queue when its process dies; the Redis queue is the
  one modelled. `BRPOP` by a worker that dies is (`queue.py:54`), as a job that is gone.

## 6. Plan

Done, in this order: `StateMachine`, `ControlPlane` with `ApprovalContract`;
`TaskCreation`, `EventStream` and `Supervisor`; `MissionServer` and `MissionBridge`;
`WorkflowMemory`, `DocumentStore`, `ContextAssembly` and `Knowledge`; `DocumentTools`,
`AgentRuntime`, `ExecutionEngine`, `Mail` and `Delivery`; the parts of `Desk`. Each
composition and each component on its own has its proofs: every safety invariant of
the runs but `ContextFits` is a theorem.

Worth doing next:

1. `_advance_real` under the session discipline of `ControlPlane`: a user's request that
   overlaps the worker's long poll is one transaction in `MissionBridge`, and two workers
   that share a planning job are out of its reach.
2. Proofs: the step simulation of `ApprovalContract` under the hypotheses of the `serial`
   run; uniqueness in the desktop's timeline.
3. Session memory and the compatibility of workflows; the checks of a model's plan
   other than dependencies and cycles.
