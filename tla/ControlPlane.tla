------------------------------ MODULE ControlPlane ------------------------------
(***************************************************************************)
(* One execution of the AutoFlow control plane (backend/app): the database *)
(* rows that describe it, the job queue, the workers that plan and advance *)
(* it, and the HTTP requests that approve, reject, pause, resume or cancel *)
(* it while the workers run.                                               *)
(*                                                                         *)
(* Workers and requests are database sessions.  A session first loads the  *)
(* rows it needs (snap), then works on its own copy (view), and finally    *)
(* writes the columns that differ from what it loaded.  The first event a  *)
(* session emits updates the execution row, and that row stays locked until*)
(* the transaction ends: sessions therefore WRITE one at a time, but they  *)
(* READ before they have the lock, and nothing checks the rows again.      *)
(*                                                                         *)
(* The operator that comes right before another one and lengthens its name *)
(* (BudgetLeftAtLimit before BudgetLeft) is a seeded fault: the way a      *)
(* plausible bug would change it.  No other definition uses it.            *)
(***************************************************************************)
EXTENDS StateMachine, Naturals, Sequences, FiniteSets

CONSTANTS
  Workers,        \* worker loops (run_worker)
  Clients,        \* concurrent HTTP requests against the execution
  NoSession,      \* the holder of a free lock
  Steps,          \* the plan's steps, named by their index
  Deps,           \* Deps[s]: the steps that s depends on
  ApprovalSteps,  \* requires_approval and no tools
  GatedSteps,     \* steps whose tool needs an approval by policy
  FlakySteps,     \* steps planned with inputs.force_fail
  Action,         \* Action[s]: the material action an approval of s is bound to
  RecoveryBudget, \* recovery_budget of every step
  ApprovalIds,    \* identities of approval rows
  Operations,     \* the operations the clients use
  PlanOutcomes,   \* what the intelligence source may answer to a planning job
  MaxRequests,    \* bound: requests of all clients together
  MaxCrashes,     \* bound: sessions that die before they commit
  MaxRedeliveries \* bound: jobs the queue delivers twice

Sessions == Workers \cup Clients

ASSUME SessionsAssumption ==
  /\ NoSession \notin Sessions
  /\ Workers \cap Clients = {}

ASSUME PlanAssumption ==
  /\ Steps \subseteq Nat \ {0}
  /\ Deps \in [Steps -> SUBSET Steps]
  /\ ApprovalSteps \subseteq Steps
  /\ GatedSteps \subseteq Steps
  /\ FlakySteps \subseteq Steps
  /\ DOMAIN Action = Steps
  /\ ApprovalSteps \cap (GatedSteps \cup FlakySteps) = {}
  /\ GatedSteps \cap FlakySteps = {}

ASSUME BoundAssumption ==
  /\ RecoveryBudget \in Nat \ {0}
  /\ MaxRequests \in Nat /\ MaxCrashes \in Nat /\ MaxRedeliveries \in Nat
  /\ Operations \subseteq {"approve", "reject", "pause", "resume", "cancel"}
  /\ PlanOutcomes \subseteq {"valid", "invalid", "unavailable"}

VARIABLES
  db,           \* the committed rows of the execution
  queue,        \* the job queue
  planRequested,\* the create request has handed its planning job over
  lock,         \* the session that holds the execution row
  pc,           \* where each session is
  job,          \* what each session is doing
  target,       \* the approval a request decides
  snap,         \* the rows as a session loaded them
  view,         \* the rows as a session sees them, its writes included
  sent,         \* how often the tool of a gated step has run (outside the database)
  granted,      \* history: steps for which an approval was ever committed APPROVED
  expired,      \* approvals older than APPROVAL_TTL
  requests, crashes, redeliveries  \* counters for the bounds

vars == <<db, queue, planRequested, lock, pc, job, target, snap, view, sent,
          granted, expired, requests, crashes, redeliveries>>

-----------------------------------------------------------------------------
(* The rows.                                                               *)

StepStatus     == {"WAITING", "RECOVERY", "APPROVAL", "COMPLETE"}
ApprovalStatus == {"NONE", "PENDING", "APPROVED", "REJECTED", "EXPIRED"}
Jobs           == {"plan", "resume"}
JobKinds       == Jobs \cup {"none", "approve", "expire", "reject", "pause",
                             "unpause", "cancel"}

StepRow     == [status : StepStatus, attempts : Nat, forceFail : BOOLEAN]
ApprovalRow == [step : Steps \cup {0}, status : ApprovalStatus]
NoApproval  == [step |-> 0, status |-> "NONE"]

Row == [status    : Status,                     \* executions.status
        task      : Status,                     \* tasks.status
        cancel    : BOOLEAN,                    \* executions.cancel_requested
        version   : Nat,                        \* executions.version
        plans     : Nat,                        \* rows of task_plans
        steps     : [Steps -> StepRow],         \* rows of task_steps
        approvals : [ApprovalIds -> ApprovalRow]]

NewRow == [status    |-> "QUEUED",
           task      |-> "QUEUED",
           cancel    |-> FALSE,
           version   |-> 0,
           plans     |-> 0,
           steps     |-> [s \in Steps |-> [status    |-> "WAITING",
                                           attempts  |-> 0,
                                           forceFail |-> s \in FlakySteps]],
           approvals |-> [a \in ApprovalIds |-> NoApproval]]

SetStatus(row, s) == [row EXCEPT !.status = s, !.task = s]

\* The unit of work: only a column whose value differs from the loaded one
\* is written, and it is written whatever the row holds by then.
Written(loaded, mine, stored) == IF mine = loaded THEN stored ELSE mine

Flush(loaded, mine, stored) ==
  [status    |-> Written(loaded.status, mine.status, stored.status),
   task      |-> Written(loaded.task, mine.task, stored.task),
   cancel    |-> Written(loaded.cancel, mine.cancel, stored.cancel),
   version   |-> Written(loaded.version, mine.version, stored.version),
   plans     |-> Written(loaded.plans, mine.plans, stored.plans),
   steps     |-> [s \in Steps |->
       [status    |-> Written(loaded.steps[s].status, mine.steps[s].status,
                              stored.steps[s].status),
        attempts  |-> Written(loaded.steps[s].attempts, mine.steps[s].attempts,
                              stored.steps[s].attempts),
        forceFail |-> Written(loaded.steps[s].forceFail, mine.steps[s].forceFail,
                              stored.steps[s].forceFail)]],
   approvals |-> [a \in ApprovalIds |->
       Written(loaded.approvals[a], mine.approvals[a], stored.approvals[a])]]

-----------------------------------------------------------------------------
(* Sessions.                                                               *)

Idle(s) ==
  /\ pc'     = [pc EXCEPT ![s] = "idle"]
  /\ job'    = [job EXCEPT ![s] = "none"]
  /\ target' = [target EXCEPT ![s] = NoSession]
  /\ snap'   = [snap EXCEPT ![s] = NewRow]
  /\ view'   = [view EXCEPT ![s] = NewRow]

\* A session opens and loads the rows it works from.
Load(s, kind, a) ==
  /\ pc'     = [pc EXCEPT ![s] = "loaded"]
  /\ job'    = [job EXCEPT ![s] = kind]
  /\ target' = [target EXCEPT ![s] = a]
  /\ snap'   = [snap EXCEPT ![s] = db]
  /\ view'   = [view EXCEPT ![s] = db]

\* allocate_event_sequence updates the execution row: the first event of a
\* transaction waits for the row lock, and the lock lasts until its end.
Hold(s) == lock \in {NoSession, s} /\ lock' = s

\* The session's copy becomes row; after is where the session goes on.
Work(s, row, after) ==
  /\ Hold(s)
  /\ view' = [view EXCEPT ![s] = row]
  /\ pc'   = [pc EXCEPT ![s] = after]
  /\ UNCHANGED <<db, planRequested, job, target, snap, granted, expired,
                 requests, crashes, redeliveries>>

\* An exception: get_session and session_scope roll the transaction back.
Rollback(s) ==
  /\ pc[s] = "doomed"
  /\ Idle(s)
  /\ lock' = NoSession
  /\ UNCHANGED <<db, queue, planRequested, sent, granted, expired, requests,
                 crashes, redeliveries>>

ApprovedSteps(row) ==
  {row.approvals[a].step : a \in {b \in ApprovalIds :
                                    row.approvals[b].status = "APPROVED"}}

CommitRows(s) ==
  /\ db'      = Flush(snap[s], view[s], db)
  /\ granted' = granted \cup ApprovedSteps(db')
  /\ lock'    = NoSession
  /\ Idle(s)
  /\ UNCHANGED <<queue, planRequested, sent, expired, requests, crashes,
                 redeliveries>>

\* The session dies before its commit: the process, or its connection, is
\* gone.  Its writes are lost and so is the job it had taken; what its tools
\* did outside the database, and what it put in the queue, stays.
Crash(s) ==
  /\ pc[s] # "idle"
  /\ crashes < MaxCrashes
  /\ crashes' = crashes + 1
  /\ Idle(s)
  /\ lock' = IF lock = s THEN NoSession ELSE lock
  /\ UNCHANGED <<db, queue, planRequested, sent, granted, expired, requests,
                 redeliveries>>

-----------------------------------------------------------------------------
(* The queue.                                                              *)

\* The background task of POST /tasks, after the task row is committed.
EnqueuePlanning ==
  /\ ~planRequested
  /\ planRequested' = TRUE
  /\ queue' = Append(queue, "plan")
  /\ UNCHANGED <<db, lock, pc, job, target, snap, view, sent, granted, expired,
                 requests, crashes, redeliveries>>

\* The API process dies between that commit and the background task.
LosePlanning ==
  /\ ~planRequested
  /\ crashes < MaxCrashes
  /\ planRequested' = TRUE
  /\ crashes' = crashes + 1
  /\ UNCHANGED <<db, queue, lock, pc, job, target, snap, view, sent, granted,
                 expired, requests, redeliveries>>

\* The queue hands the job at its head out twice.
Redeliver ==
  /\ queue # <<>>
  /\ redeliveries < MaxRedeliveries
  /\ redeliveries' = redeliveries + 1
  /\ queue' = Append(queue, Head(queue))
  /\ UNCHANGED <<db, planRequested, lock, pc, job, target, snap, view, sent,
                 granted, expired, requests, crashes>>

-----------------------------------------------------------------------------
(* The worker.                                                             *)

Advanceable == {"RUNNING", "RECOVERY"}

\* What handle_job finds to do in the rows it loaded: run_planning leaves all
\* but a QUEUED execution alone, advance all but a running one.
Actionable(kind, row) ==
  \/ kind = "plan" /\ row.status = "QUEUED"
  \/ row.status \in Advanceable

TakeJob(w) ==
  /\ pc[w] = "idle"
  /\ queue # <<>>
  /\ queue' = Tail(queue)
  /\ Actionable(Head(queue), db)
  /\ Load(w, Head(queue), NoSession)
  /\ UNCHANGED <<db, planRequested, lock, sent, granted, expired, requests,
                 crashes, redeliveries>>

\* The job is gone from the queue and nothing was done for it.
DropJob(w) ==
  /\ pc[w] = "idle"
  /\ queue # <<>>
  /\ queue' = Tail(queue)
  /\ ~Actionable(Head(queue), db)
  /\ UNCHANGED <<db, planRequested, lock, pc, job, target, snap, view, sent,
                 granted, expired, requests, crashes, redeliveries>>

\* run_planning, from its first event to its last.  The plan version is read
\* under the lock; the cancel flag is read again when advance begins.
Planning(w) == pc[w] = "loaded" /\ job[w] = "plan" /\ view[w].status = "QUEUED"

PlanUnavailable(w) ==
  /\ Planning(w)
  /\ "unavailable" \in PlanOutcomes
  /\ Work(w, SetStatus(view[w], "FAILED"), "open")
  /\ UNCHANGED <<queue, sent>>

PlanInvalid(w) ==
  /\ Planning(w)
  /\ "invalid" \in PlanOutcomes
  /\ Work(w, [SetStatus(view[w], "FAILED") EXCEPT !.plans = db.plans + 1], "open")
  /\ UNCHANGED <<queue, sent>>

\* compare_and_swap_version succeeds only on the version that was loaded.
SwapsBlindly(loaded, stored) == TRUE
SwapsVersion(loaded, stored) == loaded.version = stored.version

Plan(w) ==
  /\ Planning(w)
  /\ "valid" \in PlanOutcomes
  /\ Work(w,
          [SetStatus(view[w], "RUNNING") EXCEPT
             !.plans   = db.plans + 1,
             !.version = view[w].version + 1,
             !.cancel  = db.cancel],
          IF SwapsVersion(view[w], db) THEN "open" ELSE "doomed")
  /\ UNCHANGED <<queue, sent>>

\* One turn of the loop in advance.  The cancel flag and the steps of the
\* first turn were read before the lock was taken.
Turn(w) ==
  /\ w \in Workers
  /\ pc[w] \in {"loaded", "open"}
  /\ view[w].status \in Advanceable

CancelExecutionParked(w) ==
  /\ Turn(w)
  /\ view[w].cancel
  /\ Work(w, SetStatus(view[w], "BLOCKED"), "open")
  /\ UNCHANGED <<queue, sent>>

CancelExecution(w) ==
  /\ Turn(w)
  /\ view[w].cancel
  /\ Work(w, SetStatus(view[w], "CANCELLED"), "open")
  /\ UNCHANGED <<queue, sent>>

Runs(w) == Turn(w) /\ ~view[w].cancel

DepsMetWhenParked(rows, s) ==
  \A d \in Deps[s] : rows[d].status \in {"COMPLETE", "APPROVAL"}
DepsMet(rows, s) == \A d \in Deps[s] : rows[d].status = "COMPLETE"
Ready(rows) == {s \in Steps : rows[s].status = "WAITING" /\ DepsMet(rows, s)}
NextReady(rows, s) == s \in Ready(rows) /\ \A t \in Ready(rows) : s <= t

\* _complete: no step is ready.  The verification status of a step is only
\* ever empty or PASSED here, so the final outcome check always passes.
Complete(w) ==
  /\ Runs(w)
  /\ Ready(view[w].steps) = {}
  /\ Work(w, SetStatus(view[w], "COMPLETE"), "open")
  /\ UNCHANGED <<queue, sent>>

\* _find_granted_approval, read under the lock.
GrantsUndecided(s) == {a \in ApprovalIds :
                         /\ db.approvals[a].status # "NONE"
                         /\ Action[db.approvals[a].step] = Action[s]}
Grants(s) == {a \in ApprovalIds :
                /\ db.approvals[a].status = "APPROVED"
                /\ Action[db.approvals[a].step] = Action[s]}

\* create_approval: pending, and bound to the step and the step's action.
RaisedFor(s) == [step |-> s, status |-> "PENDING"]

\* _raise_step_approval: the step parks, and so does the execution.
RaiseApproval(w, s) ==
  /\ Runs(w)
  /\ NextReady(view[w].steps, s)
  /\ s \in ApprovalSteps \/ (s \in GatedSteps /\ Grants(s) = {})
  /\ \E a \in ApprovalIds :
       /\ db.approvals[a] = NoApproval
       /\ Work(w,
               [SetStatus(view[w], "AWAITING_APPROVAL") EXCEPT
                  !.steps[s].status   = "APPROVAL",
                  !.steps[s].attempts = @ + 1,
                  !.approvals[a]      = RaisedFor(s)],
               "open")
  /\ UNCHANGED <<queue, sent>>

\* scalar_one_or_none raises when two approvals of one action were granted.
AmbiguousApproval(w, s) ==
  /\ Runs(w)
  /\ NextReady(view[w].steps, s)
  /\ s \in GatedSteps
  /\ Cardinality(Grants(s)) > 1
  /\ Work(w, view[w], "doomed")
  /\ UNCHANGED <<queue, sent>>

\* The outcome of one run of a step: verification fails while force_fail is
\* set, and the recovery manager decides by the attempts made.
BudgetLeftAtLimit(attempts) == attempts <= RecoveryBudget
BudgetLeft(attempts) == attempts < RecoveryBudget

AfterRunRetried(row) ==
  LET n == row.attempts + 1 IN
  [status |-> IF n > 1 THEN "COMPLETE" ELSE "WAITING", attempts |-> n, forceFail |-> FALSE]

AfterRun(row) ==
  LET n == row.attempts + 1 IN
  IF ~row.forceFail
    THEN [status |-> "COMPLETE", attempts |-> n, forceFail |-> FALSE]
    ELSE IF ~BudgetLeft(n)
      THEN [status |-> "RECOVERY", attempts |-> n, forceFail |-> TRUE]
      ELSE [status |-> "WAITING", attempts |-> n, forceFail |-> n <= 1]

\* The tool of a gated step acts outside the database.
UsesTool(s) ==
  sent' = IF s \in GatedSteps THEN [sent EXCEPT ![s] = @ + 1] ELSE sent

\* _fail: a running or recovering execution may always fail.
Fail(row) == SetStatus(row, "FAILED")

\* _run_step with its actions, verification and recovery; then the loop reads
\* the cancel flag again.
RunStep(w, s) ==
  /\ Runs(w)
  /\ NextReady(view[w].steps, s)
  /\ s \notin ApprovalSteps
  /\ s \in GatedSteps => Cardinality(Grants(s)) = 1
  /\ LET after == AfterRun(view[w].steps[s])
         row   == [view[w] EXCEPT !.steps[s] = after, !.cancel = db.cancel]
     IN Work(w, IF after.status = "RECOVERY" THEN Fail(row) ELSE row,
             "open")
  /\ UsesTool(s)
  /\ UNCHANGED queue

\* The job's transaction commits when the loop has left the running statuses.
CommitJob(w) ==
  /\ w \in Workers
  /\ pc[w] = "open"
  /\ view[w].status \notin Advanceable
  /\ CommitRows(w)

-----------------------------------------------------------------------------
(* Requests.  A request that the loaded rows forbid is answered with an    *)
(* error and changes nothing, so only the requests that pass are actions.  *)

Begin(c, op, kind, a) ==
  /\ pc[c] = "idle"
  /\ op \in Operations
  /\ requests < MaxRequests
  /\ requests' = requests + 1
  /\ Load(c, kind, a)
  /\ UNCHANGED <<db, queue, planRequested, lock, sent, granted, expired,
                 crashes, redeliveries>>

Pending(row, a) == row.approvals[a].status = "PENDING"

BeginApprove(c, a) ==
  /\ Pending(db, a)
  /\ Begin(c, "approve", IF a \in expired THEN "expire" ELSE "approve", a)

BeginReject(c, a) == Pending(db, a) /\ Begin(c, "reject", "reject", a)

BeginPause(c) ==
  /\ CanTransition(db.status, "BLOCKED")
  /\ Begin(c, "pause", "pause", NoSession)

BeginResume(c) ==
  /\ CanTransition(db.status, "RUNNING")
  /\ Begin(c, "resume", "unpause", NoSession)

BeginCancel(c) == Begin(c, "cancel", "cancel", NoSession)

Doing(c, kind) == pc[c] = "loaded" /\ job[c] = kind

SetApproval(row, a, s) == [row EXCEPT !.approvals[a].status = s]

\* A decision moves the execution only if it was awaiting one when loaded.
DecideAlways(row, from, to) == SetStatus(row, to)
DecideNothing(row, from, to) == row
Decide(row, from, to) == IF row.status = from THEN SetStatus(row, to) ELSE row

\* approval_service.approve.  The resume job is in the queue before the
\* transaction that makes it meaningful is committed.
Approve(c) ==
  /\ Doing(c, "approve")
  /\ LET a    == target[c]
         step == view[c].approvals[a].step
         row  == Decide(SetApproval(view[c], a, "APPROVED"),
                        "AWAITING_APPROVAL", "RUNNING")
     IN Work(c, [row EXCEPT !.steps[step].status = "COMPLETE"], "open")
  /\ queue' = Append(queue, "resume")
  /\ UNCHANGED sent

\* The same call on an approval past its TTL: marked expired, and then raised.
Expire(c) ==
  /\ Doing(c, "expire")
  /\ Work(c, SetApproval(view[c], target[c], "EXPIRED"), "doomed")
  /\ UNCHANGED <<queue, sent>>

Reject(c) ==
  /\ Doing(c, "reject")
  /\ Work(c, Decide(SetApproval(view[c], target[c], "REJECTED"),
                    "AWAITING_APPROVAL", "BLOCKED"), "open")
  /\ UNCHANGED <<queue, sent>>

\* Pause and resume set the status of the execution and leave the task's.
Pause(c) ==
  /\ Doing(c, "pause")
  /\ Work(c, [view[c] EXCEPT !.status = "BLOCKED"], "open")
  /\ UNCHANGED <<queue, sent>>

Resume(c) ==
  /\ Doing(c, "unpause")
  /\ Work(c, [view[c] EXCEPT !.status = "RUNNING"], "open")
  /\ queue' = Append(queue, "resume")
  /\ UNCHANGED sent

Cancel(c) ==
  /\ Doing(c, "cancel")
  /\ Work(c, [view[c] EXCEPT !.cancel = TRUE], "open")
  /\ UNCHANGED <<queue, sent>>

CommitRequest(c) ==
  /\ c \in Clients
  /\ pc[c] = "open"
  /\ CommitRows(c)

\* APPROVAL_TTL passes for a pending approval.
ElapseTTL(a) ==
  /\ Pending(db, a)
  /\ a \notin expired
  /\ expired' = expired \cup {a}
  /\ UNCHANGED <<db, queue, planRequested, lock, pc, job, target, snap, view,
                 sent, granted, requests, crashes, redeliveries>>

-----------------------------------------------------------------------------

\* POST /tasks has committed the task, its execution and its planned steps'
\* defaults; nothing has been enqueued yet.
Init ==
  /\ db = NewRow
  /\ queue = <<>>
  /\ planRequested = FALSE
  /\ lock = NoSession
  /\ pc = [s \in Sessions |-> "idle"]
  /\ job = [s \in Sessions |-> "none"]
  /\ target = [s \in Sessions |-> NoSession]
  /\ snap = [s \in Sessions |-> NewRow]
  /\ view = [s \in Sessions |-> NewRow]
  /\ sent = [s \in GatedSteps |-> 0]
  /\ granted = {}
  /\ expired = {}
  /\ requests = 0
  /\ crashes = 0
  /\ redeliveries = 0

PlanStep(w) == PlanUnavailable(w) \/ PlanInvalid(w) \/ Plan(w)

TurnStep(w) ==
  \/ CancelExecution(w)
  \/ Complete(w)
  \/ \E s \in Steps : RaiseApproval(w, s) \/ AmbiguousApproval(w, s) \/ RunStep(w, s)

WorkerStep(w) ==
  TakeJob(w) \/ DropJob(w) \/ PlanStep(w) \/ TurnStep(w) \/ CommitJob(w) \/ Rollback(w)

BeginRequest(c) ==
  \/ \E a \in ApprovalIds : BeginApprove(c, a) \/ BeginReject(c, a)
  \/ BeginPause(c) \/ BeginResume(c) \/ BeginCancel(c)

ServeRequest(c) ==
  \/ Approve(c) \/ Expire(c) \/ Reject(c) \/ Pause(c) \/ Resume(c) \/ Cancel(c)
  \/ CommitRequest(c) \/ Rollback(c)

Next ==
  \/ EnqueuePlanning \/ LosePlanning \/ Redeliver
  \/ \E w \in Workers : WorkerStep(w)
  \/ \E c \in Clients : BeginRequest(c) \/ ServeRequest(c)
  \/ \E s \in Sessions : Crash(s)
  \/ \E a \in ApprovalIds : ElapseTTL(a)

Spec == Init /\ [][Next]_vars

\* The worker loop never stops, an accepted request is served to its end, and
\* the background task of a committed POST runs.  Users promise nothing.
Fairness ==
  /\ WF_vars(EnqueuePlanning)
  /\ \A w \in Workers : WF_vars(WorkerStep(w))
  /\ \A c \in Clients : WF_vars(ServeRequest(c))

FairSpec == Spec /\ Fairness

-----------------------------------------------------------------------------
(* Properties.                                                             *)

TypeOK ==
  /\ db \in Row
  /\ queue \in Seq(Jobs)
  /\ planRequested \in BOOLEAN
  /\ lock \in Sessions \cup {NoSession}
  /\ pc \in [Sessions -> {"idle", "loaded", "open", "doomed"}]
  /\ job \in [Sessions -> JobKinds]
  /\ target \in [Sessions -> ApprovalIds \cup {NoSession}]
  /\ snap \in [Sessions -> Row]
  /\ view \in [Sessions -> Row]
  /\ sent \in [GatedSteps -> Nat]
  /\ granted \in SUBSET (Steps \cup {0})
  /\ expired \in SUBSET ApprovalIds
  /\ requests \in Nat /\ crashes \in Nat /\ redeliveries \in Nat

\* The tool of a gated step (email.send.mock) runs only after an approval of
\* that very action has been committed, whatever the interleaving of workers,
\* decisions, resumes and crashes (_handle_action, _find_granted_approval).
SendIsApproved ==
  \A s \in GatedSteps :
    sent[s] > 0 => \E t \in granted \cap Steps : Action[t] = Action[s]

\* No session runs a step that depends on an approval step before that step's
\* approval has been granted; resuming a parked execution does not skip it.
DependentsAwaitGrant ==
  \A s \in Steps : \A d \in Deps[s] \cap ApprovalSteps :
    /\ db.steps[s].attempts > 0 => d \in granted
    /\ \A w \in Workers : view[w].steps[s].attempts > 0 => d \in granted

\* Recovery is bounded: no step is ever started more often than its recovery
\* budget allows, stale workers and repeated jobs included (_recover_step).
AttemptsBounded ==
  \A s \in Steps \ ApprovalSteps :
    /\ db.steps[s].attempts <= RecoveryBudget
    /\ \A w \in Workers : view[w].steps[s].attempts <= RecoveryBudget

\* "A redelivered plan job for an already-advanced execution is a safe no-op,
\* never a corrupting re-plan" (run_planning): a planner that loaded the
\* execution before another planner's plan was committed changes nothing.
LatePlanIsNoOp ==
  [][\A w \in Workers :
       (job[w] = "plan" /\ pc'[w] = "idle" /\ snap[w].version < db.version) =>
         db' = db]_vars

\* An execution that awaits approval has an approval for someone to decide.
AwaitingHasPending ==
  db.status = "AWAITING_APPROVAL" => \E a \in ApprovalIds : Pending(db, a)

\* "A restart continues safely rather than replaying committed side effects"
\* (execution_worker): an external send is never made twice.
SendsOnce == \A s \in GatedSteps : sent[s] <= 1

\* PRD section 64: COMPLETE only if all required steps are completed.
CompleteIsEarned ==
  db.status = "COMPLETE" => \A s \in Steps : db.steps[s].status = "COMPLETE"

\* PRD section 32: an approval is decided only in its pending state.
DecisionIsFinal ==
  [][\A a \in ApprovalIds :
       db.approvals[a].status \in {"APPROVED", "REJECTED"} =>
         db'.approvals[a] = db.approvals[a]]_db

\* A cancellation that was accepted is carried out.
CancelTerminates == db.cancel ~> IsTerminal(db.status)

\* A cancellation accepted before planning began is honoured at the first
\* turn of the loop: nothing is prepared, nothing awaits approval.
EarlyCancelEnds == (db.cancel /\ db.status = "QUEUED") ~> IsTerminal(db.status)

\* The control plane keeps the contract its clients see.
Contract == INSTANCE ApprovalContract WITH
  Sends     <- GatedSteps,
  status    <- db.status,
  decision  <- [a \in ApprovalIds |-> db.approvals[a].status],
  delivered <- {s \in GatedSteps : sent[s] > 0}

KeepsContract == Contract!ContractSpec

-----------------------------------------------------------------------------
(* Inductive invariants: why the properties above hold of every instance.  *)

\* An approval row that exists belongs to a step.
Named(row) == \A a \in ApprovalIds :
                row.approvals[a].status # "NONE" => row.approvals[a].step \in Steps

\* A step that was started had its approval steps granted.
Started(row) == \A s \in Steps : \A d \in Deps[s] \cap ApprovalSteps :
                  row.steps[s].attempts > 0 => d \in granted

\* An approval step is complete because its approval was granted.
Earned(row) == \A d \in ApprovalSteps :
                 row.steps[d].status = "COMPLETE" => d \in granted

\* A request that completes an approval step is about to commit its grant.
Granting(loaded, mine) ==
  \A d \in ApprovalSteps : mine.steps[d].status = "COMPLETE" =>
    \/ d \in granted
    \/ \E a \in ApprovalIds : /\ mine.approvals[a] = [step |-> d, status |-> "APPROVED"]
                               /\ mine.approvals[a] # loaded.approvals[a]

\* A decision is taken on an approval that was pending when it was loaded.
DecidesPending(c) ==
  (pc[c] = "loaded" /\ job[c] \in {"approve", "expire", "reject"}) =>
    /\ target[c] \in ApprovalIds
    /\ Pending(view[c], target[c])

GrantInv ==
  /\ Named(db) /\ \A s \in Sessions : Named(view[s])
  /\ Started(db) /\ \A s \in Sessions : Started(view[s])
  /\ Earned(db) /\ \A w \in Workers : Earned(view[w])
  /\ \A c \in Clients : Granting(snap[c], view[c]) /\ DecidesPending(c)
  /\ \A s \in Sessions : pc[s] = "loaded" => view[s] = snap[s]
  /\ ApprovedSteps(db) \subseteq granted
  /\ SendIsApproved

\* A step that still waits has budget left, and only a waiting step is run.
Budgeted(row) == \A s \in Steps \ ApprovalSteps :
  /\ row.steps[s].attempts <= RecoveryBudget
  /\ row.steps[s].status = "WAITING" => row.steps[s].attempts < RecoveryBudget

RanWaiting(loaded, mine) == \A s \in Steps \ ApprovalSteps :
  loaded.steps[s].status = "WAITING" \/
    /\ mine.steps[s].status # "WAITING"
    /\ mine.steps[s].attempts = loaded.steps[s].attempts

BudgetInv ==
  /\ Budgeted(db)
  /\ \A s \in Sessions : Budgeted(view[s]) /\ RanWaiting(snap[s], view[s])

=============================================================================
