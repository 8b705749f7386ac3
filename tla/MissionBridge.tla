--------------------------- MODULE MissionBridge ---------------------------
(***************************************************************************)
(* The control plane in integration mode: the execution is not run step by *)
(* step (ControlPlane) but handed to a mission on the mission server and   *)
(* observed over HTTP (backend/app/intelligence/ai_ml_runtime.py,          *)
(* planning_service._produce_plan, execution_service._advance_real).       *)
(*                                                                         *)
(* One execution and one worker.  A user's request is one transaction here *)
(* (ControlPlane interleaves its parts); the worker's job is not: every    *)
(* HTTP call of it is a step of its own, and so is its commit.             *)
(***************************************************************************)
EXTENDS MissionServer, StateMachine

CONSTANTS
  Goals,           \* the goals a task may have: [kind, gated]
  MaxRequests,     \* bound: requests of users
  MaxCrashes,      \* bound: workers that die with a job
  MaxRedeliveries, \* bound: jobs the queue hands out twice
  MaxFaults,       \* bound: HTTP calls that fail
  MaxTrouble       \* bound: crashes, redeliveries, faults and restarts together

ASSUME BridgeAssumption ==
  /\ Goals \subseteq Runs
  /\ MaxRequests \in Nat /\ MaxCrashes \in Nat
  /\ MaxRedeliveries \in Nat /\ MaxFaults \in Nat /\ MaxTrouble \in Nat

VARIABLES
  goal,   \* what the task's goal makes of it: target file or desktop, approval gate
  row,    \* the committed rows of the execution
  queue,  \* the job queue
  work,   \* the worker's job: its step, its session's rows, what it has read
  bound,  \* _missions of the runtime in the worker's process
  spent   \* requests, crashes, redeliveries and faults so far

bridgeVars == <<goal, row, queue, work, bound, spent>>
vars == <<serverVars, bridgeVars>>

NewRow == [status |-> "QUEUED", mission |-> NoMission, steps |-> "NONE",
           verification |-> "NONE", pending |-> 0, granted |-> FALSE,
           cancel |-> FALSE]

NoWork == [at |-> "idle", job |-> "none", row |-> NewRow, mission |-> NoMission,
           status |-> "none", result |-> NoResult]

Advanceable == {"RUNNING", "RECOVERY"}

\* allocate_event_sequence of the first event takes the row lock: planning
\* holds it from there to its commit; advance reads only, until it commits.
RowIsLocked == work.at # "idle" /\ work.job = "plan"

Spend(what, max) ==
  /\ spent[what] < max
  /\ spent' = [spent EXCEPT ![what] = @ + 1]
InTrouble == spent.crashes + spent.redeliveries + spent.faults + restarts >= MaxTrouble
Trouble(what, max) == ~InTrouble /\ Spend(what, max)

UnchangedServer == UNCHANGED serverVars
\* A step of the worker that calls nothing and changes no rows.
Working(next) ==
  /\ work' = next
  /\ UNCHANGED <<goal, row, queue>>

-----------------------------------------------------------------------------
(* The worker takes a job.                                                 *)

HasGrantAlways(r) == TRUE
HasGrant(r) == r.granted

PlansAnything(r) == TRUE
PlansOnly(r) == r.status = "QUEUED"

\* bind_mission: a mission the process knows is kept, whatever the rows say.
BindMission(m) == IF bound = NoMission THEN m ELSE bound

\* handle_job: run_planning acts on a QUEUED execution only, advance on a
\* running one; after a grant, advance resumes instead of observing.
Begun(kind) ==
  LET mine == [NoWork EXCEPT !.job = kind, !.row = row] IN
  CASE kind = "plan" /\ PlansOnly(row) ->
         [mine EXCEPT !.at = "create"]
    [] kind = "resume" /\ row.status \in Advanceable /\ HasGrant(row) ->
         [mine EXCEPT !.at = "create"]
    [] kind = "resume" /\ row.status \in Advanceable /\ ~HasGrant(row) ->
         [mine EXCEPT !.at = "poll",
                      !.mission = BindMission(row.mission)]
    [] OTHER -> NoWork

TakeJob ==
  /\ work.at = "idle" /\ queue # <<>>
  /\ queue' = Tail(queue)
  /\ work'  = Begun(Head(queue))
  /\ bound' = IF Begun(Head(queue)).at = "poll" THEN Begun(Head(queue)).mission ELSE bound
  /\ UnchangedServer /\ UNCHANGED <<goal, row, spent>>

-----------------------------------------------------------------------------
(* create_plan and resume_mission: POST /missions, then the start.         *)

\* Planning asks for the gate the goal needs; a file goal goes to /run, which
\* knows no gate.
ApprovalGate == goal.gated /\ goal.kind = "simulate"
PlanRequest  == [kind |-> goal.kind, gated |-> ApprovalGate]

\* resume_mission: a second mission, simulated and without a gate.
CompletingRequest ==
  [kind |-> IF goal.kind = "real" THEN "simulate" ELSE goal.kind, gated |-> FALSE]

\* What the worker's job asks of its mission; the server routes the goal.
Request == IF work.job = "plan" THEN PlanRequest ELSE CompletingRequest

CreateMission(m) ==
  /\ work.at = "create"
  /\ Create(m)
  /\ bound' = m
  /\ Working([work EXCEPT !.at = "start", !.mission = m])
  /\ UNCHANGED <<spent, restarts, page>>

StartMission ==
  /\ work.at = "start"
  /\ Start(work.mission, Request)
  /\ Working([work EXCEPT !.at = IF work.job = "plan" THEN "derive" ELSE "poll"])
  /\ UNCHANGED <<bound, spent, restarts, page>>

\* AiMlUnavailable.  The server may have acted before the answer was lost.
\* Planning fails and commits; a resume becomes a failed outcome.
Unavailable == [work EXCEPT !.at = "commit", !.row.status = "FAILED"]
ResumeUnavailable ==
  [work EXCEPT !.at = "commit", !.row.status = "FAILED",
               !.row.steps = "FAILED", !.row.verification = "FAILED"]

CallFails ==
  /\ work.at \in {"create", "start"}
  /\ Trouble("faults", MaxFaults)
  /\ \/ UNCHANGED missionVars
     \/ work.at = "create" /\ \E m \in Missions : Create(m)
     \/ work.at = "start" /\ Start(work.mission, Request)
  /\ Working(IF work.job = "plan" THEN Unavailable ELSE ResumeUnavailable)
  /\ UNCHANGED <<bound, restarts, page>>

\* _derive_steps reads the trace until the mission settles, five sources have
\* spoken or eight seconds have passed: whatever the mission does, the plan
\* has at least one step and names the mission.
DeriveSteps ==
  /\ work.at = "derive"
  /\ Working([work EXCEPT !.at = "poll", !.row.status = "RUNNING",
                          !.row.steps = "WAITING", !.row.mission = work.mission])
  /\ UnchangedServer /\ UNCHANGED <<bound, spent>>

-----------------------------------------------------------------------------
(* _wait_terminal: as_dict reads the status first and the result after it. *)

PollStatus ==
  /\ work.at = "poll"
  /\ StatusOf(work.mission) \in Settled
  /\ Working([work EXCEPT !.at = "result", !.status = StatusOf(work.mission)])
  /\ UnchangedServer /\ UNCHANGED <<bound, spent>>

PollResult ==
  /\ work.at = "result"
  /\ Working([work EXCEPT !.at = "reconcile", !.result = ResultOf(work.mission)])
  /\ UnchangedServer /\ UNCHANGED <<bound, spent>>

\* The deadline passes: the last record read, settled or not, is the outcome.
WaitsForever == FALSE
TimeOut ==
  /\ work.at = "poll"
  /\ StatusOf(work.mission) \notin Settled
  /\ Working([work EXCEPT !.at = "result", !.status = StatusOf(work.mission)])
  /\ UnchangedServer /\ UNCHANGED <<bound, spent>>

-----------------------------------------------------------------------------
(* _outcome_from_record and the rest of _advance_real.                     *)

\* record_mission_verification: every flag of the result has to be set.
Passed(res) == res.document /\ res.complete

OutcomeOfResult(st, res) ==
  IF st = "awaiting_approval" THEN "AWAITING_APPROVAL"
  ELSE IF res.document THEN "COMPLETE" ELSE "FAILED"
OutcomeOf(st, res) ==
  IF st = "awaiting_approval" THEN "AWAITING_APPROVAL"
  ELSE IF st = "complete" /\ Passed(res) THEN "COMPLETE" ELSE "FAILED"

\* record_mission_verification: the verdict is the result's, also when the
\* status was read too early for the outcome to be COMPLETE.
Recorded(res) == IF Passed(res) THEN "PASSED" ELSE "FAILED"

MarkAllSteps(r, to) == [r EXCEPT !.steps = to]

\* A parked mission raises an approval; any other outcome leaves its
\* verification record and marks every step.
Reconciled(r, to, res) ==
  IF to = "AWAITING_APPROVAL"
    THEN [r EXCEPT !.status = to, !.steps = "APPROVAL"]
    ELSE [MarkAllSteps(r, to) EXCEPT !.status = to, !.verification = Recorded(res)]

Reconcile ==
  /\ work.at = "reconcile"
  /\ Working([work EXCEPT !.at  = "commit",
                          !.row = Reconciled(@, OutcomeOf(work.status, work.result),
                                             work.result)])
  /\ UnchangedServer /\ UNCHANGED <<bound, spent>>

\* Only what the session wrote reaches the rows: cancel and the decisions
\* stay the users', and an approval it raised is one more.
Raised == IF work.row.status = "AWAITING_APPROVAL" THEN 1 ELSE 0

Commit ==
  /\ work.at = "commit"
  /\ row'  = [work.row EXCEPT !.cancel = row.cancel, !.granted = row.granted,
                              !.pending = row.pending + Raised]
  /\ work' = NoWork
  /\ UnchangedServer /\ UNCHANGED <<goal, queue, bound, spent>>

-----------------------------------------------------------------------------
(* Users, and what can go wrong around the worker.                         *)

UserRequest(next, jobs) ==
  /\ ~RowIsLocked
  /\ Spend("requests", MaxRequests)
  /\ row'   = next
  /\ queue' = queue \o jobs
  /\ UnchangedServer /\ UNCHANGED <<goal, work, bound>>

Decided(r, to) == IF r.status = "AWAITING_APPROVAL" THEN [r EXCEPT !.status = to] ELSE r

Approve ==
  /\ row.pending > 0
  /\ UserRequest([Decided(row, "RUNNING") EXCEPT !.pending = @ - 1, !.granted = TRUE],
                 <<"resume">>)

Reject ==
  /\ row.pending > 0
  /\ UserRequest([Decided(row, "BLOCKED") EXCEPT !.pending = @ - 1], <<>>)

Pause ==
  /\ CanTransition(row.status, "BLOCKED")
  /\ UserRequest([row EXCEPT !.status = "BLOCKED"], <<>>)

Resume ==
  /\ CanTransition(row.status, "RUNNING") /\ row.status # "QUEUED"
  /\ UserRequest([row EXCEPT !.status = "RUNNING"], <<"resume">>)

\* Recorded, and read by nobody in integration mode.
Cancel == ~row.cancel /\ UserRequest([row EXCEPT !.cancel = TRUE], <<>>)

\* The worker's process dies: its job, its session and the runtime's map go.
Crash ==
  /\ work.at # "idle"
  /\ Trouble("crashes", MaxCrashes)
  /\ work' = NoWork
  /\ bound' = NoMission
  /\ UnchangedServer /\ UNCHANGED <<goal, row, queue>>

Redeliver ==
  /\ queue # <<>>
  /\ Trouble("redeliveries", MaxRedeliveries)
  /\ queue' = Append(queue, Head(queue))
  /\ UnchangedServer /\ UNCHANGED <<goal, row, work, bound>>

-----------------------------------------------------------------------------

\* One client of the server or the other: the page on its own, or a control
\* plane with a task whose planning job is queued.
Init ==
  /\ ServerInit
  /\ row = NewRow
  /\ work = NoWork
  /\ bound = NoMission
  /\ spent = [requests |-> 0, crashes |-> 0, redeliveries |-> 0, faults |-> 0]
  /\ \/ page = NoPage /\ queue = <<"plan">> /\ goal \in Goals
     \/ /\ page = [NoPage EXCEPT !.step = "idle"] /\ queue = <<>>
        /\ goal = CHOOSE g \in Goals : TRUE

WorkerStep ==
  \/ TakeJob \/ StartMission \/ DeriveSteps \/ PollStatus \/ PollResult \/ TimeOut
  \/ Reconcile \/ Commit \/ \E m \in Missions : CreateMission(m)

UserStep == Approve \/ Reject \/ Pause \/ Resume \/ Cancel

Next ==
  \/ ServerNext /\ UNCHANGED bridgeVars
  \/ Restart /\ ~InTrouble /\ UNCHANGED bridgeVars
  \/ WorkerStep \/ CallFails \/ UserStep \/ Crash \/ Redeliver

Spec == Init /\ [][Next]_vars

\* Threads, the stream's loop and the page's script run on; the worker's loop
\* does, and its deadline passes.  Nobody has to use the page or decide.
Fairness ==
  /\ \A m \in Missions : WF_vars(ThreadStep(m) /\ UNCHANGED bridgeVars)
  /\ WF_vars(StreamStep /\ UNCHANGED bridgeVars)
  /\ WF_vars((PageReadsRecord \/ PageReadsArtifacts) /\ UNCHANGED bridgeVars)
  /\ WF_vars(WorkerStep)

FairSpec == Spec /\ Fairness

-----------------------------------------------------------------------------
(* Properties.                                                             *)

\* A gated goal's mail leaves only after the control plane has a granted
\* approval, however jobs are redelivered, workers die, calls are lost or
\* users pause and resume: the gate has to survive planning, the parked
\* mission and the second mission that completes it (ai_ml_runtime.py:280,
\* "no send before approval").
NoSendBeforeApproval ==
  page.step = "absent" /\ goal.gated /\ goal.kind = "simulate" /\ sent # {} => row.granted

\* A COMPLETE execution has a mission that completed with its document
\* verified, and for a mail goal that mission's mail went out: what the
\* worker read in three separate calls adds up to a finished mission
\* (_outcome_from_record, record_mission_verification).
CompleteIsEarned ==
  row.status = "COMPLETE" =>
    \E m \in Missions :
      /\ result[m].stored /\ Passed(result[m])
      /\ status[m] = "complete"
      /\ run[m].kind = "simulate" => m \in sent

\* Redelivered jobs, failed calls, timeouts, pauses and resumptions never
\* make the control plane send twice; only a worker that dies between the
\* start of a mission and its commit can (run_planning's guard on QUEUED,
\* advance's on the running statuses, execution_worker.py:3-5).
SendsOnceUnlessCrashed == Cardinality(sent) <= 1 + spent.crashes

\* Every job the worker takes ends, whatever happens to the mission server.
JobEnds == (work.at # "idle") ~> (work.at = "idle")

\* A page that started its mission reads the settled record in the end, on
\* every error path that a try encloses, unless the server's process is gone.
ThreadIsDead == \E m \in Missions : page.mission = m /\ at[m] = "dead"
PageSettles ==
  (page.step = "deliver") ~> (page.step \in {"done", "broken"} \/ ThreadIsDead)

\* The same without the excuse: "never crash the server thread"
\* (missions.py:189, 253, 388).  False: whatever is raised outside of these
\* try blocks leaves the status at "running" and the stream without an end.
PageAlwaysSettles == (page.step = "deliver") ~> (page.step \in {"done", "broken"})

=============================================================================
