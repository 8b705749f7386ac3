--------------------------- MODULE ControlPlaneProofs ---------------------------
(***************************************************************************)
(* Theorems about ControlPlane for every set of workers, clients, steps    *)
(* and approvals and every bound.                                          *)
(***************************************************************************)
EXTENDS ControlPlane, FiniteSetTheorems, TLAPS

-----------------------------------------------------------------------------
(* The rows: what the operators on rows return.                            *)

\* The row of a new execution is a row.
LEMMA NewRowType == NewRow \in Row
  BY DEF NewRow, Row, StepRow, StepStatus, ApprovalRow, ApprovalStatus, NoApproval,
         Status

\* Setting both statuses yields a row and leaves its other columns alone.
LEMMA SetStatusType ==
  ASSUME NEW row \in Row, NEW s \in Status
  PROVE  /\ SetStatus(row, s) \in Row
         /\ SetStatus(row, s).steps = row.steps
         /\ SetStatus(row, s).approvals = row.approvals
         /\ SetStatus(row, s).version = row.version
  BY DEF SetStatus, Row

\* A value that is written back is one of the two it may be.
LEMMA WrittenType ==
  ASSUME NEW S, NEW l \in S, NEW m \in S, NEW d \in S
  PROVE  Written(l, m, d) \in S
  BY DEF Written

\* Writing a session's columns back yields a row (the commit of a session).
LEMMA FlushType ==
  ASSUME NEW l \in Row, NEW m \in Row, NEW d \in Row
  PROVE  Flush(l, m, d) \in Row
<1>1. ASSUME NEW s \in Steps
      PROVE  [status    |-> Written(l.steps[s].status, m.steps[s].status, d.steps[s].status),
              attempts  |-> Written(l.steps[s].attempts, m.steps[s].attempts,
                                    d.steps[s].attempts),
              forceFail |-> Written(l.steps[s].forceFail, m.steps[s].forceFail,
                                    d.steps[s].forceFail)] \in StepRow
  BY DEF Row, StepRow, Written
<1>2. ASSUME NEW a \in ApprovalIds
      PROVE  Written(l.approvals[a], m.approvals[a], d.approvals[a]) \in ApprovalRow
  BY DEF Row, Written
<1>3. /\ Written(l.status, m.status, d.status) \in Status
      /\ Written(l.task, m.task, d.task) \in Status
      /\ Written(l.cancel, m.cancel, d.cancel) \in BOOLEAN
      /\ Written(l.version, m.version, d.version) \in Nat
      /\ Written(l.plans, m.plans, d.plans) \in Nat
  BY DEF Row, Written
<1> QED BY <1>1, <1>2, <1>3 DEF Flush, Row

\* A run of a step leaves a step row.
LEMMA AfterRunType ==
  ASSUME NEW r \in StepRow
  PROVE  AfterRun(r) \in StepRow
  BY DEF AfterRun, StepRow, StepStatus

\* The row of a validated plan (run_planning).
LEMMA PlannedType ==
  ASSUME NEW row \in Row, NEW n \in Nat, NEW v \in Nat, NEW c \in BOOLEAN
  PROVE  [row EXCEPT !.plans = n, !.version = v, !.cancel = c] \in Row
  BY DEF Row

\* The row of a decided step (approve).
LEMMA CompletedType ==
  ASSUME NEW row \in Row, NEW s
  PROVE  [row EXCEPT !.steps[s].status = "COMPLETE"] \in Row
<1>1. [row.steps EXCEPT ![s].status = "COMPLETE"] \in [Steps -> StepRow]
  BY DEF Row, StepRow, StepStatus
<1> QED BY <1>1 DEF Row

\* The row of a parked step (_raise_step_approval).
LEMMA ParkedType ==
  ASSUME NEW row \in Row, NEW s \in Steps, NEW a
  PROVE  [row EXCEPT !.steps[s].status   = "APPROVAL",
                     !.steps[s].attempts = @ + 1,
                     !.approvals[a]      = [step |-> s, status |-> "PENDING"]] \in Row
<1>1. row.steps \in [Steps -> StepRow] /\ row.steps[s].attempts + 1 \in Nat
  BY DEF Row, StepRow
<1>2. [row.steps EXCEPT ![s].status = "APPROVAL", ![s].attempts = @ + 1]
        \in [Steps -> StepRow]
  BY <1>1 DEF StepRow, StepStatus
<1>3. [row.approvals EXCEPT ![a] = [step |-> s, status |-> "PENDING"]]
        \in [ApprovalIds -> ApprovalRow]
  BY DEF Row, ApprovalRow, ApprovalStatus
<1> QED BY <1>2, <1>3 DEF Row

-----------------------------------------------------------------------------
(* Type correctness.                                                       *)

\* Loading rows, working on them and committing them keep the types; the
\* theorem below gives the rows that each action works on.
LEMMA LoadType ==
  ASSUME TypeOK, NEW s \in Sessions, NEW kind \in JobKinds,
         NEW a \in ApprovalIds \cup {NoSession}, Load(s, kind, a)
  PROVE  /\ pc' \in [Sessions -> {"idle", "loaded", "open", "doomed"}]
         /\ job' \in [Sessions -> JobKinds]
         /\ target' \in [Sessions -> ApprovalIds \cup {NoSession}]
         /\ snap' \in [Sessions -> Row]
         /\ view' \in [Sessions -> Row]
  BY DEF TypeOK, Load

LEMMA IdleType ==
  ASSUME TypeOK, NEW s \in Sessions, Idle(s)
  PROVE  /\ pc' \in [Sessions -> {"idle", "loaded", "open", "doomed"}]
         /\ job' \in [Sessions -> JobKinds]
         /\ target' \in [Sessions -> ApprovalIds \cup {NoSession}]
         /\ snap' \in [Sessions -> Row]
         /\ view' \in [Sessions -> Row]
  BY NewRowType DEF TypeOK, Idle, JobKinds

LEMMA WorkType ==
  ASSUME TypeOK, NEW s \in Sessions, NEW row \in Row, NEW after \in {"open", "doomed"},
         Work(s, row, after), queue' \in Seq(Jobs), sent' \in [GatedSteps -> Nat]
  PROVE  TypeOK'
  BY DEF TypeOK, Work, Hold

LEMMA CommitType ==
  ASSUME TypeOK, NEW s \in Sessions, CommitRows(s)
  PROVE  TypeOK'
<1>1. db' \in Row
  BY FlushType DEF TypeOK, CommitRows
<1>2. granted' \in SUBSET (Steps \cup {0})
  BY <1>1 DEF TypeOK, CommitRows, ApprovedSteps, Row, ApprovalRow
<1> QED BY <1>1, <1>2, IdleType DEF TypeOK, CommitRows

\* The actions of a worker that has a job keep the types.
LEMMA WorkerType ==
  ASSUME TypeOK, NEW w \in Workers, PlanStep(w) \/ TurnStep(w)
  PROVE  TypeOK'
<1>0. /\ w \in Sessions /\ view[w] \in Row /\ db \in Row /\ queue \in Seq(Jobs)
      /\ sent \in [GatedSteps -> Nat]
  BY DEF TypeOK, Sessions
<1>1. ASSUME PlanUnavailable(w) PROVE TypeOK'
  <2>1. SetStatus(view[w], "FAILED") \in Row
    BY <1>0, SetStatusType DEF Status
  <2> QED BY <1>0, <1>1, <2>1, WorkType DEF PlanUnavailable
<1>2. ASSUME PlanInvalid(w) PROVE TypeOK'
  <2> DEFINE row == [SetStatus(view[w], "FAILED") EXCEPT !.plans = db.plans + 1]
  <2>1. SetStatus(view[w], "FAILED") \in Row
    BY <1>0, SetStatusType DEF Status
  <2>2. row \in Row
    BY <1>0, <2>1 DEF Row
  <2> QED BY <1>0, <1>2, <2>2, WorkType DEF PlanInvalid
<1>3. ASSUME Plan(w) PROVE TypeOK'
  <2> DEFINE row == [SetStatus(view[w], "RUNNING") EXCEPT
                       !.plans   = db.plans + 1,
                       !.version = view[w].version + 1,
                       !.cancel  = db.cancel]
  <2>1. SetStatus(view[w], "RUNNING") \in Row
    BY <1>0, SetStatusType DEF Status
  <2>2. row \in Row
    <3>1. db.plans + 1 \in Nat /\ view[w].version + 1 \in Nat /\ db.cancel \in BOOLEAN
      BY <1>0 DEF Row
    <3> QED BY <2>1, <3>1, PlannedType
  <2>3. (IF SwapsVersion(view[w], db) THEN "open" ELSE "doomed") \in {"open", "doomed"}
    OBVIOUS
  <2> QED BY <1>0, <1>3, <2>2, <2>3, WorkType DEF Plan
<1>4. ASSUME CancelExecution(w) PROVE TypeOK'
  <2>1. SetStatus(view[w], "CANCELLED") \in Row
    BY <1>0, SetStatusType DEF Status
  <2> QED BY <1>0, <1>4, <2>1, WorkType DEF CancelExecution
<1>5. ASSUME Complete(w) PROVE TypeOK'
  <2>1. SetStatus(view[w], "COMPLETE") \in Row
    BY <1>0, SetStatusType DEF Status
  <2> QED BY <1>0, <1>5, <2>1, WorkType DEF Complete
<1>6. ASSUME NEW s \in Steps, RaiseApproval(w, s) PROVE TypeOK'
  <2> DEFINE row(a) == [SetStatus(view[w], "AWAITING_APPROVAL") EXCEPT
                          !.steps[s].status   = "APPROVAL",
                          !.steps[s].attempts = @ + 1,
                          !.approvals[a]      = [step |-> s, status |-> "PENDING"]]
  <2>1. PICK a \in ApprovalIds : Work(w, row(a), "open")
    BY <1>6 DEF RaiseApproval, RaisedFor
  <2>2. SetStatus(view[w], "AWAITING_APPROVAL") \in Row
    BY <1>0, SetStatusType DEF Status
  <2>3. row(a) \in Row
    BY <2>2, ParkedType
  <2> QED BY <1>0, <1>6, <2>1, <2>3, WorkType DEF RaiseApproval, RaisedFor
<1>7. ASSUME NEW s \in Steps, AmbiguousApproval(w, s) PROVE TypeOK'
  BY <1>0, <1>7, WorkType DEF AmbiguousApproval
<1>8. ASSUME NEW s \in Steps, RunStep(w, s) PROVE TypeOK'
  <2> DEFINE after == AfterRun(view[w].steps[s])
             row   == [view[w] EXCEPT !.steps[s] = after, !.cancel = db.cancel]
             final == IF after.status = "RECOVERY" THEN SetStatus(row, "FAILED") ELSE row
  <2>1. after \in StepRow
    BY <1>0, AfterRunType DEF Row
  <2>2. row \in Row
    BY <1>0, <2>1 DEF Row
  <2>3. final \in Row
    BY <2>2, SetStatusType DEF Status
  <2>4. sent' \in [GatedSteps -> Nat]
    BY <1>0, <1>8 DEF RunStep, Fail, UsesTool
  <2>5. Work(w, final, "open") /\ queue' = queue
    BY <1>8 DEF RunStep, Fail, UsesTool
  <2> QED BY <1>0, <2>3, <2>4, <2>5, WorkType
<1> QED BY <1>1, <1>2, <1>3, <1>4, <1>5, <1>6, <1>7, <1>8 DEF PlanStep, TurnStep

\* The requests that a client has begun keep the types.
LEMMA RequestType ==
  ASSUME TypeOK, NEW c \in Clients,
         Approve(c) \/ Expire(c) \/ Reject(c) \/ Pause(c) \/ Resume(c) \/ Cancel(c)
  PROVE  TypeOK'
<1>0. /\ c \in Sessions /\ view[c] \in Row /\ queue \in Seq(Jobs)
      /\ sent \in [GatedSteps -> Nat] /\ Append(queue, "resume") \in Seq(Jobs)
  BY DEF TypeOK, Sessions, Jobs
<1> DEFINE a == target[c]
<1>1. ASSUME NEW s \in ApprovalStatus PROVE SetApproval(view[c], a, s) \in Row
  <2>1. view[c].approvals \in [ApprovalIds -> ApprovalRow]
    BY <1>0 DEF Row
  <2>2. [view[c].approvals EXCEPT ![a].status = s] \in [ApprovalIds -> ApprovalRow]
    BY <2>1 DEF ApprovalRow
  <2> QED BY <1>0, <2>2 DEF SetApproval, Row
<1>2. ASSUME NEW row \in Row, NEW from, NEW to \in Status
      PROVE  Decide(row, from, to) \in Row
  BY SetStatusType DEF Decide
<1>3. ASSUME Approve(c) PROVE TypeOK'
  <2> DEFINE step  == view[c].approvals[a].step
             row   == Decide(SetApproval(view[c], a, "APPROVED"),
                             "AWAITING_APPROVAL", "RUNNING")
             final == [row EXCEPT !.steps[step].status = "COMPLETE"]
  <2>1. row \in Row
    BY <1>1, <1>2 DEF Status, ApprovalStatus
  <2>2. final \in Row
    BY <2>1, CompletedType
  <2>3. /\ Work(c, final, "open")
        /\ queue' = Append(queue, "resume")
        /\ sent' = sent
    BY <1>3 DEF Approve
  <2> QED BY <1>0, <2>2, <2>3, WorkType
<1>4. ASSUME Expire(c) PROVE TypeOK'
  <2>1. SetApproval(view[c], a, "EXPIRED") \in Row
    BY <1>1 DEF ApprovalStatus
  <2> QED BY <1>0, <1>4, <2>1, WorkType DEF Expire
<1>5. ASSUME Reject(c) PROVE TypeOK'
  <2>1. Decide(SetApproval(view[c], a, "REJECTED"), "AWAITING_APPROVAL", "BLOCKED") \in Row
    BY <1>1, <1>2 DEF Status, ApprovalStatus
  <2> QED BY <1>0, <1>5, <2>1, WorkType DEF Reject
<1>6. ASSUME Pause(c) PROVE TypeOK'
  <2>1. [view[c] EXCEPT !.status = "BLOCKED"] \in Row
    BY <1>0 DEF Row, Status
  <2> QED BY <1>0, <1>6, <2>1, WorkType DEF Pause
<1>7. ASSUME Resume(c) PROVE TypeOK'
  <2>1. [view[c] EXCEPT !.status = "RUNNING"] \in Row
    BY <1>0 DEF Row, Status
  <2> QED BY <1>0, <1>7, <2>1, WorkType DEF Resume
<1>8. ASSUME Cancel(c) PROVE TypeOK'
  <2>1. [view[c] EXCEPT !.cancel = TRUE] \in Row
    BY <1>0 DEF Row
  <2> QED BY <1>0, <1>8, <2>1, WorkType DEF Cancel
<1> QED BY <1>3, <1>4, <1>5, <1>6, <1>7, <1>8

\* Taking a job, beginning a request and ending a session keep the types.
LEMMA SessionType ==
  ASSUME TypeOK, NEW s \in Sessions,
         \/ TakeJob(s) \/ DropJob(s) \/ BeginRequest(s) \/ Rollback(s) \/ Crash(s)
  PROVE  TypeOK'
<1>0. queue # <<>> => Head(queue) \in Jobs /\ Tail(queue) \in Seq(Jobs)
  BY DEF TypeOK
<1>1. CASE TakeJob(s)
  <2>1. Load(s, Head(queue), NoSession) /\ Head(queue) \in JobKinds
    BY <1>0, <1>1 DEF TakeJob, JobKinds
  <2> QED BY <1>0, <1>1, <2>1, LoadType DEF TypeOK, TakeJob
<1>2. CASE DropJob(s)
  BY <1>0, <1>2 DEF TypeOK, DropJob
<1>3. CASE BeginRequest(s)
  <2>1. ASSUME NEW op, NEW kind \in JobKinds, NEW a \in ApprovalIds \cup {NoSession},
               Begin(s, op, kind, a)
        PROVE  TypeOK'
    BY <2>1, LoadType DEF TypeOK, Begin
  <2> QED BY <1>3, <2>1 DEF BeginRequest, BeginApprove, BeginReject, BeginPause,
                            BeginResume, BeginCancel, JobKinds
<1>4. CASE Rollback(s)
  BY <1>4, IdleType DEF TypeOK, Rollback
<1>5. CASE Crash(s)
  BY <1>5, IdleType DEF TypeOK, Crash
<1> QED BY <1>1, <1>2, <1>3, <1>4, <1>5

\* Every variable keeps its type, for every number of workers, requests,
\* crashes and redeliveries.
THEOREM TypeCorrect == Spec => []TypeOK
<1>1. Init => TypeOK
  <2> SUFFICES ASSUME Init PROVE TypeOK
    OBVIOUS
  <2>4. queue \in Seq(Jobs)
    BY DEF Init
  <2>1. db \in Row /\ snap \in [Sessions -> Row] /\ view \in [Sessions -> Row]
    BY NewRowType DEF Init
  <2>2. /\ pc \in [Sessions -> {"idle", "loaded", "open", "doomed"}]
        /\ job \in [Sessions -> JobKinds]
        /\ target \in [Sessions -> ApprovalIds \cup {NoSession}]
        /\ sent \in [GatedSteps -> Nat]
    BY DEF Init, JobKinds
  <2>3. /\ planRequested \in BOOLEAN
        /\ lock \in Sessions \cup {NoSession}
        /\ granted \in SUBSET (Steps \cup {0}) /\ expired \in SUBSET ApprovalIds
        /\ requests \in Nat /\ crashes \in Nat /\ redeliveries \in Nat
    BY DEF Init
  <2> QED BY <2>1, <2>2, <2>3, <2>4 DEF TypeOK
<1>2. TypeOK /\ [Next]_vars => TypeOK'
  <2> SUFFICES ASSUME TypeOK, [Next]_vars PROVE TypeOK'
    OBVIOUS
  <2>1. CASE EnqueuePlanning
    <3>1. queue' \in Seq(Jobs)
      BY <2>1 DEF TypeOK, EnqueuePlanning, Jobs
    <3> QED BY <2>1, <3>1 DEF TypeOK, EnqueuePlanning
  <2>8. CASE LosePlanning
    BY <2>8 DEF TypeOK, LosePlanning
  <2>2. CASE Redeliver
    BY <2>2 DEF TypeOK, Redeliver
  <2>3. ASSUME NEW w \in Workers, WorkerStep(w) PROVE TypeOK'
    BY <2>3, WorkerType, SessionType, CommitType DEF WorkerStep, CommitJob, Sessions
  <2>4. ASSUME NEW c \in Clients, BeginRequest(c) \/ ServeRequest(c) PROVE TypeOK'
    BY <2>4, RequestType, SessionType, CommitType DEF ServeRequest, CommitRequest, Sessions
  <2>5. ASSUME NEW s \in Sessions, Crash(s) PROVE TypeOK'
    BY <2>5, SessionType
  <2>6. ASSUME NEW a \in ApprovalIds, ElapseTTL(a) PROVE TypeOK'
    BY <2>6 DEF TypeOK, ElapseTTL
  <2>7. CASE UNCHANGED vars
    BY <2>7 DEF TypeOK, vars
  <2> QED BY <2>1, <2>2, <2>3, <2>4, <2>5, <2>6, <2>7, <2>8 DEF Next
<1> QED BY <1>1, <1>2, PTL DEF Spec

-----------------------------------------------------------------------------
(* Recovery is bounded.                                                    *)

\* The part of a session's work that leaves steps and approvals alone.
Quiet(s) ==
  /\ \E row \in Row, after \in {"open", "doomed"} :
       /\ Work(s, row, after)
       /\ row.steps = view[s].steps
       /\ row.approvals = view[s].approvals
  /\ sent' = sent

LEMMA QuietWork ==
  ASSUME TypeOK, NEW w \in Workers,
         \/ PlanStep(w) \/ CancelExecution(w) \/ Complete(w)
         \/ \E s \in Steps : AmbiguousApproval(w, s)
  PROVE  Quiet(w)
<1>0. view[w] \in Row /\ db \in Row /\ w \in Sessions
  BY DEF TypeOK, Sessions
<1>1. ASSUME NEW s \in Status
      PROVE  /\ SetStatus(view[w], s) \in Row
             /\ SetStatus(view[w], s).steps = view[w].steps
             /\ SetStatus(view[w], s).approvals = view[w].approvals
  BY <1>0, SetStatusType
<1>2. CASE PlanUnavailable(w)
  BY <1>1, <1>2 DEF PlanUnavailable, Quiet, Status
<1>3. CASE PlanInvalid(w)
  <2> DEFINE row == [SetStatus(view[w], "FAILED") EXCEPT !.plans = db.plans + 1]
  <2>1. row \in Row /\ row.steps = view[w].steps /\ row.approvals = view[w].approvals
    BY <1>0, <1>1 DEF Row, Status
  <2>2. Work(w, row, "open") /\ sent' = sent
    BY <1>3 DEF PlanInvalid
  <2> QED BY <2>1, <2>2 DEF Quiet
<1>4. CASE Plan(w)
  <2> DEFINE row   == [SetStatus(view[w], "RUNNING") EXCEPT
                         !.plans   = db.plans + 1,
                         !.version = view[w].version + 1,
                         !.cancel  = db.cancel]
             after == IF SwapsVersion(view[w], db) THEN "open" ELSE "doomed"
  <2>1. db.plans + 1 \in Nat /\ view[w].version + 1 \in Nat /\ db.cancel \in BOOLEAN
    BY <1>0 DEF Row
  <2>2. SetStatus(view[w], "RUNNING") \in Row
    BY <1>1 DEF Status
  <2>3. row \in Row
    BY <2>1, <2>2, PlannedType
  <2>4. row.steps = view[w].steps /\ row.approvals = view[w].approvals
    BY <1>1, <2>2 DEF Row, Status
  <2>5. Work(w, row, after) /\ sent' = sent /\ after \in {"open", "doomed"}
    BY <1>4 DEF Plan
  <2> QED BY <2>3, <2>4, <2>5 DEF Quiet
<1>5. CASE CancelExecution(w)
  BY <1>1, <1>5 DEF CancelExecution, Quiet, Status
<1>6. CASE Complete(w)
  BY <1>1, <1>6 DEF Complete, Quiet, Status
<1>7. ASSUME NEW s \in Steps, AmbiguousApproval(w, s) PROVE Quiet(w)
  BY <1>0, <1>7 DEF AmbiguousApproval, Quiet
<1> QED BY <1>2, <1>3, <1>4, <1>5, <1>6, <1>7 DEF PlanStep

LEMMA QuietRequest ==
  ASSUME TypeOK, NEW c \in Clients, Pause(c) \/ Resume(c) \/ Cancel(c)
  PROVE  Quiet(c)
<1>0. view[c] \in Row
  BY DEF TypeOK, Sessions
<1> DEFINE ofPause  == [view[c] EXCEPT !.status = "BLOCKED"]
           ofResume == [view[c] EXCEPT !.status = "RUNNING"]
           ofCancel == [view[c] EXCEPT !.cancel = TRUE]
<1>1. \A row \in {ofPause, ofResume, ofCancel} :
        row \in Row /\ row.steps = view[c].steps /\ row.approvals = view[c].approvals
  BY <1>0 DEF Row, Status
<1>2. \E row \in {ofPause, ofResume, ofCancel} : Work(c, row, "open") /\ sent' = sent
  BY DEF Pause, Resume, Cancel
<1> QED BY <1>1, <1>2 DEF Quiet

\* What a session works on keeps within the budgets as long as its row does.
LEMMA WorkBudget ==
  ASSUME TypeOK, BudgetInv, NEW s \in Sessions, NEW row, NEW after,
         Work(s, row, after), Budgeted(row), RanWaiting(snap[s], row)
  PROVE  BudgetInv'
  BY DEF TypeOK, BudgetInv, Work, Budgeted, RanWaiting

\* Committing writes the columns one by one, yet a waiting step keeps budget.
LEMMA FlushBudget ==
  ASSUME NEW l \in Row, NEW m \in Row, NEW d \in Row,
         Budgeted(m), Budgeted(d), RanWaiting(l, m)
  PROVE  Budgeted(Flush(l, m, d))
<1> SUFFICES ASSUME NEW s \in Steps \ ApprovalSteps
             PROVE  LET r == Flush(l, m, d).steps[s]
                    IN /\ r.attempts <= RecoveryBudget
                       /\ r.status = "WAITING" => r.attempts < RecoveryBudget
  BY DEF Budgeted
<1>1. /\ Flush(l, m, d).steps[s].attempts
           = Written(l.steps[s].attempts, m.steps[s].attempts, d.steps[s].attempts)
      /\ Flush(l, m, d).steps[s].status
           = Written(l.steps[s].status, m.steps[s].status, d.steps[s].status)
  BY DEF Flush
<1> QED BY <1>1 DEF Written, Budgeted, RanWaiting

LEMMA FreshBudget == Budgeted(NewRow) /\ RanWaiting(NewRow, NewRow)
  BY BoundAssumption DEF Budgeted, RanWaiting, NewRow

LEMMA IdleBudget ==
  ASSUME TypeOK, BudgetInv, NEW s \in Sessions, Idle(s), Budgeted(db')
  PROVE  BudgetInv'
<1>1. \A r \in Sessions : \/ view'[r] = view[r] /\ snap'[r] = snap[r]
                          \/ view'[r] = NewRow /\ snap'[r] = NewRow
  BY DEF TypeOK, Idle
<1> QED BY <1>1, FreshBudget DEF BudgetInv, Budgeted, RanWaiting

\* A worker runs or parks a step only while it waits in the rows it loaded.
LEMMA RunBudget ==
  ASSUME TypeOK, BudgetInv, NEW w \in Workers, NEW s \in Steps,
         RunStep(w, s) \/ RaiseApproval(w, s)
  PROVE  BudgetInv'
<1>0. /\ w \in Sessions /\ view[w] \in Row /\ snap[w] \in Row
      /\ Budgeted(view[w]) /\ RanWaiting(snap[w], view[w])
  BY DEF TypeOK, BudgetInv, Sessions
<1>1. view[w].steps[s].status = "WAITING" /\ view[w].steps[s].attempts \in Nat
  BY <1>0 DEF RunStep, Fail, UsesTool, RaiseApproval, RaisedFor, NextReady, Ready, Row, StepRow
<1>2. CASE RunStep(w, s)
  <2> DEFINE after == AfterRun(view[w].steps[s])
             row   == [view[w] EXCEPT !.steps[s] = after, !.cancel = db.cancel]
             final == IF after.status = "RECOVERY" THEN SetStatus(row, "FAILED") ELSE row
  <2>1. s \notin ApprovalSteps /\ Work(w, final, "open")
    BY <1>2 DEF RunStep, Fail, UsesTool
  <2>2. /\ after.attempts <= RecoveryBudget
        /\ after.status = "WAITING" => after.attempts < RecoveryBudget
    BY <1>0, <1>1, <2>1, BoundAssumption DEF AfterRun, BudgetLeft, Budgeted
  <2>3. row.steps = [view[w].steps EXCEPT ![s] = after] /\ final.steps = row.steps
    BY <1>0 DEF SetStatus, Row
  <2>4. \A t \in Steps : final.steps[t] = IF t = s THEN after ELSE view[w].steps[t]
    BY <1>0, <2>3 DEF Row
  <2>5. Budgeted(final) /\ RanWaiting(snap[w], final)
    <3> HIDE DEF after, row, final
    <3> QED BY <1>0, <1>1, <2>2, <2>4 DEF Budgeted, RanWaiting
  <2> HIDE DEF after, row, final
  <2> QED BY <1>0, <2>1, <2>5, WorkBudget
<1>3. CASE RaiseApproval(w, s)
  <2> DEFINE row(a) == [SetStatus(view[w], "AWAITING_APPROVAL") EXCEPT
                          !.steps[s].status   = "APPROVAL",
                          !.steps[s].attempts = @ + 1,
                          !.approvals[a]      = [step |-> s, status |-> "PENDING"]]
  <2>1. PICK a \in ApprovalIds : Work(w, row(a), "open")
    BY <1>3 DEF RaiseApproval, RaisedFor
  <2>2. \A t \in Steps :
          IF t = s THEN /\ row(a).steps[t].status = "APPROVAL"
                        /\ row(a).steps[t].attempts = view[w].steps[t].attempts + 1
                   ELSE row(a).steps[t] = view[w].steps[t]
    BY <1>0 DEF SetStatus, Row, StepRow
  <2>3. Budgeted(row(a)) /\ RanWaiting(snap[w], row(a))
    <3> HIDE DEF row
    <3> QED BY <1>0, <1>1, <2>2, BoundAssumption DEF Budgeted, RanWaiting
  <2> HIDE DEF row
  <2> QED BY <1>0, <2>1, <2>3, WorkBudget
<1> QED BY <1>2, <1>3

\* A decided approval changes its own row and, at most, the two statuses.
LEMMA SetApprovalRow ==
  ASSUME NEW row \in Row, NEW a, NEW s \in ApprovalStatus
  PROVE  /\ SetApproval(row, a, s) \in Row
         /\ SetApproval(row, a, s).steps = row.steps
         /\ SetApproval(row, a, s).approvals = [row.approvals EXCEPT ![a].status = s]
<1>1. [row.approvals EXCEPT ![a].status = s] \in [ApprovalIds -> ApprovalRow]
  BY DEF Row, ApprovalRow
<1> QED BY <1>1 DEF SetApproval, Row

LEMMA DecideRow ==
  ASSUME NEW row \in Row, NEW from, NEW to \in Status
  PROVE  /\ Decide(row, from, to) \in Row
         /\ Decide(row, from, to).steps = row.steps
         /\ Decide(row, from, to).approvals = row.approvals
  BY SetStatusType DEF Decide

\* A decision completes at most one step and counts no attempt.
LEMMA DecideBudget ==
  ASSUME TypeOK, BudgetInv, NEW c \in Clients, Approve(c) \/ Expire(c) \/ Reject(c)
  PROVE  BudgetInv'
<1>0. /\ c \in Sessions /\ view[c] \in Row
      /\ Budgeted(view[c]) /\ RanWaiting(snap[c], view[c])
  BY DEF TypeOK, BudgetInv, Sessions
<1>1. ASSUME NEW row, NEW after, Work(c, row, after),
             \A t \in Steps :
               /\ row.steps[t].attempts = view[c].steps[t].attempts
               /\ row.steps[t].status \in {"COMPLETE", view[c].steps[t].status}
      PROVE  BudgetInv'
  <2>1. Budgeted(row) /\ RanWaiting(snap[c], row)
    BY <1>0, <1>1 DEF Budgeted, RanWaiting
  <2> QED BY <1>0, <1>1, <2>1, WorkBudget
<1>2. CASE Approve(c)
  <2> DEFINE a     == target[c]
             step  == view[c].approvals[a].step
             row   == Decide(SetApproval(view[c], a, "APPROVED"),
                             "AWAITING_APPROVAL", "RUNNING")
             final == [row EXCEPT !.steps[step].status = "COMPLETE"]
  <2>1. Work(c, final, "open")
    BY <1>2 DEF Approve
  <2>2. row \in Row /\ row.steps = view[c].steps
    <3>1. /\ SetApproval(view[c], a, "APPROVED") \in Row
          /\ SetApproval(view[c], a, "APPROVED").steps = view[c].steps
      BY <1>0, SetApprovalRow DEF ApprovalStatus
    <3> QED BY <3>1, DecideRow DEF Status
  <2>3. \A t \in Steps :
          /\ final.steps[t].attempts = view[c].steps[t].attempts
          /\ final.steps[t].status \in {"COMPLETE", view[c].steps[t].status}
    <3> HIDE DEF row, step
    <3> QED BY <2>2 DEF Row, StepRow
  <2> HIDE DEF final
  <2> QED BY <1>1, <2>1, <2>3
<1>3. CASE Expire(c)
  <2> DEFINE final == SetApproval(view[c], target[c], "EXPIRED")
  <2>1. final.steps = view[c].steps
    BY <1>0, SetApprovalRow DEF ApprovalStatus
  <2>2. Work(c, final, "doomed")
    BY <1>3 DEF Expire
  <2> HIDE DEF final
  <2> QED BY <1>1, <2>1, <2>2
<1>4. CASE Reject(c)
  <2> DEFINE row   == SetApproval(view[c], target[c], "REJECTED")
             final == Decide(row, "AWAITING_APPROVAL", "BLOCKED")
  <2>1. row \in Row /\ row.steps = view[c].steps
    BY <1>0, SetApprovalRow DEF ApprovalStatus
  <2>2. final.steps = view[c].steps
    BY <2>1, DecideRow DEF Status
  <2>3. Work(c, final, "open")
    BY <1>4 DEF Reject
  <2> HIDE DEF final
  <2> QED BY <1>1, <2>2, <2>3
<1> QED BY <1>2, <1>3, <1>4

\* Every step of the control plane preserves the budget invariant.
LEMMA BudgetStep == TypeOK /\ BudgetInv /\ [Next]_vars => BudgetInv'
<1> SUFFICES ASSUME TypeOK, BudgetInv, [Next]_vars PROVE BudgetInv'
  OBVIOUS
<1>1. ASSUME db' = db, view' = view, snap' = snap PROVE BudgetInv'
  BY <1>1 DEF BudgetInv, Budgeted, RanWaiting
<1>2. ASSUME NEW s \in Sessions, Rollback(s) \/ Crash(s) PROVE BudgetInv'
  BY <1>2, IdleBudget DEF Rollback, Crash, BudgetInv, Budgeted
<1>3. ASSUME NEW s \in Sessions, CommitRows(s) PROVE BudgetInv'
  <2>1. Budgeted(db')
    BY <1>3, FlushBudget DEF CommitRows, TypeOK, BudgetInv
  <2> QED BY <1>3, <2>1, IdleBudget DEF CommitRows
<1>4. ASSUME NEW s \in Sessions, NEW kind, NEW a, Load(s, kind, a), db' = db
      PROVE  BudgetInv'
  BY <1>4 DEF Load, TypeOK, BudgetInv, Budgeted, RanWaiting
<1>5. ASSUME NEW s \in Sessions, Quiet(s) PROVE BudgetInv'
  <2>1. PICK row \in Row, after \in {"open", "doomed"} :
          Work(s, row, after) /\ row.steps = view[s].steps
    BY <1>5 DEF Quiet
  <2>2. Budgeted(row) /\ RanWaiting(snap[s], row)
    BY <2>1 DEF BudgetInv, Budgeted, RanWaiting
  <2> QED BY <2>1, <2>2, WorkBudget
<1>6. ASSUME NEW w \in Workers, WorkerStep(w) PROVE BudgetInv'
  <2>0. w \in Sessions
    BY DEF Sessions
  <2>1. CASE TakeJob(w)
    BY <1>4, <2>0, <2>1 DEF TakeJob
  <2>2. CASE DropJob(w)
    BY <1>1, <2>2 DEF DropJob
  <2>3. CASE PlanStep(w) \/ TurnStep(w)
    BY <1>5, <2>0, <2>3, QuietWork, RunBudget DEF TurnStep
  <2> QED BY <1>2, <1>3, <1>6, <2>0, <2>1, <2>2, <2>3 DEF WorkerStep, CommitJob
<1>7. ASSUME NEW c \in Clients, BeginRequest(c) PROVE BudgetInv'
  <2>1. ASSUME NEW op, NEW kind, NEW a, Begin(c, op, kind, a) PROVE BudgetInv'
    BY <1>4, <2>1 DEF Begin, Sessions
  <2> QED BY <1>7, <2>1 DEF BeginRequest, BeginApprove, BeginReject, BeginPause,
                            BeginResume, BeginCancel
<1>8. ASSUME NEW c \in Clients, ServeRequest(c) PROVE BudgetInv'
  BY <1>2, <1>3, <1>5, <1>8, DecideBudget, QuietRequest
  DEF ServeRequest, CommitRequest, Sessions
<1>9. CASE \/ EnqueuePlanning \/ LosePlanning \/ Redeliver \/ UNCHANGED vars
           \/ \E a \in ApprovalIds : ElapseTTL(a)
  BY <1>1, <1>9 DEF EnqueuePlanning, LosePlanning, Redeliver, ElapseTTL, vars
<1> QED BY <1>2, <1>6, <1>7, <1>8, <1>9 DEF Next

\* Recovery is bounded in every instance: no step starts more often than its
\* budget allows (_recover_step), whatever workers and requests overlap.
THEOREM RecoveryIsBounded == Spec => []AttemptsBounded
<1>1. Init => BudgetInv
  BY FreshBudget DEF Init, BudgetInv
<1>2. TypeOK /\ BudgetInv => AttemptsBounded
  BY DEF BudgetInv, Budgeted, AttemptsBounded, Sessions
<1> QED BY <1>1, <1>2, BudgetStep, TypeCorrect, PTL DEF Spec

-----------------------------------------------------------------------------
(* Nothing that needs an approval happens before the approval is granted.  *)

\* What a session works on keeps the grant invariant as long as its row does.
LEMMA WorkGrants ==
  ASSUME TypeOK, GrantInv, NEW s \in Sessions, NEW row, NEW after \in {"open", "doomed"},
         Work(s, row, after), Named(row), Started(row),
         s \in Workers => Earned(row), s \in Clients => Granting(snap[s], row),
         SendIsApproved'
  PROVE  GrantInv'
<1>1. \A r \in Sessions : \/ view'[r] = view[r] /\ pc'[r] = pc[r]
                          \/ r = s /\ view'[r] = row /\ pc'[r] # "loaded"
  BY DEF TypeOK, Work
<1>2. db' = db /\ granted' = granted /\ snap' = snap /\ job' = job /\ target' = target
  BY DEF Work
<1>3. \A r \in Sessions : Named(view'[r])
  BY <1>1 DEF GrantInv
<1>4. \A r \in Sessions : Started(view[r])'
  BY <1>1, <1>2 DEF GrantInv, Started
<1>5. \A w \in Workers : Earned(view[w])'
  BY <1>1, <1>2 DEF GrantInv, Earned, Sessions
<1>6. \A c \in Clients : Granting(snap[c], view[c])' /\ DecidesPending(c)'
  BY <1>1, <1>2 DEF GrantInv, Granting, DecidesPending, Sessions
<1>7. \A r \in Sessions : pc'[r] = "loaded" => view'[r] = snap'[r]
  BY <1>1, <1>2 DEF GrantInv
<1>8. Named(db') /\ Started(db)' /\ Earned(db)' /\ ApprovedSteps(db') \subseteq granted'
  BY <1>2 DEF GrantInv, Started, Earned
<1> QED BY <1>3, <1>4, <1>5, <1>6, <1>7, <1>8 DEF GrantInv, Named

\* A new execution has no grants and needs none.
LEMMA FreshGrants ==
  /\ Named(NewRow) /\ Started(NewRow) /\ Earned(NewRow) /\ Granting(NewRow, NewRow)
  /\ ApprovedSteps(NewRow) = {}
  BY PlanAssumption DEF Named, Started, Earned, Granting, ApprovedSteps, NewRow, NoApproval

\* A session that ends forgets its rows; grants are only added.
LEMMA IdleGrants ==
  ASSUME TypeOK, GrantInv, NEW s \in Sessions, Idle(s), granted \subseteq granted',
         Named(db'), Started(db)', Earned(db)', ApprovedSteps(db') \subseteq granted',
         sent' = sent
  PROVE  GrantInv'
<1>1. \A r \in Sessions :
        \/ /\ view'[r] = view[r] /\ snap'[r] = snap[r] /\ pc'[r] = pc[r]
           /\ job'[r] = job[r] /\ target'[r] = target[r]
        \/ view'[r] = NewRow /\ snap'[r] = NewRow /\ pc'[r] = "idle"
  BY DEF TypeOK, Idle
<1>2. \A r \in Sessions : Named(view'[r])
  BY <1>1, FreshGrants DEF GrantInv
<1>3. \A r \in Sessions : Started(view[r])'
  BY <1>1, FreshGrants DEF GrantInv, Started
<1>4. \A w \in Workers : Earned(view[w])'
  BY <1>1, FreshGrants DEF GrantInv, Earned, Sessions
<1>5. ASSUME NEW c \in Clients PROVE Granting(snap[c], view[c])'
  <2>1. CASE view'[c] = view[c] /\ snap'[c] = snap[c]
    <3>1. Granting(snap[c], view[c])
      BY DEF GrantInv
    <3> QED BY <2>1, <3>1 DEF Granting
  <2>2. CASE view'[c] = NewRow /\ snap'[c] = NewRow
    BY <2>2, FreshGrants DEF Granting
  <2> QED BY <1>1, <2>1, <2>2 DEF Sessions
<1>6. \A c \in Clients : DecidesPending(c)'
  BY <1>1 DEF GrantInv, DecidesPending, Sessions
<1>7. \A r \in Sessions : pc'[r] = "loaded" => view'[r] = snap'[r]
  BY <1>1 DEF GrantInv
<1>8. SendIsApproved'
  BY DEF GrantInv, SendIsApproved
<1> QED BY <1>2, <1>3, <1>4, <1>5, <1>6, <1>7, <1>8 DEF GrantInv, Named

\* A commit grants the approvals it writes, and completes what they granted.
LEMMA CommitGrants ==
  ASSUME TypeOK, GrantInv, NEW s \in Sessions, CommitRows(s)
  PROVE  GrantInv'
<1> DEFINE l == snap[s]
           m == view[s]
<1>0. /\ db' = Flush(l, m, db) /\ granted' = granted \cup ApprovedSteps(db')
      /\ Idle(s) /\ sent' = sent
  BY DEF CommitRows
<1>1. \A a \in ApprovalIds :
        /\ db'.approvals[a] \in {m.approvals[a], db.approvals[a]}
        /\ m.approvals[a] # l.approvals[a] => db'.approvals[a] = m.approvals[a]
  BY <1>0 DEF Flush, Written
<1>2. \A t \in Steps :
        /\ db'.steps[t].status \in {m.steps[t].status, db.steps[t].status}
        /\ db'.steps[t].attempts \in {m.steps[t].attempts, db.steps[t].attempts}
  BY <1>0 DEF Flush, Written
<1>3. Named(db')
  BY <1>1 DEF GrantInv, Named
<1>4. Started(db)'
  BY <1>0, <1>2 DEF GrantInv, Started
<1>5. Earned(db)'
  <2> SUFFICES ASSUME NEW d \in ApprovalSteps, db'.steps[d].status = "COMPLETE"
               PROVE  d \in granted'
    BY DEF Earned
  <2>1. d \in Steps
    BY PlanAssumption
  <2>2. CASE db.steps[d].status = "COMPLETE"
    BY <1>0, <2>2 DEF GrantInv, Earned
  <2>3. CASE m.steps[d].status = "COMPLETE"
    <3>1. CASE s \in Workers
      BY <1>0, <2>3, <3>1 DEF GrantInv, Earned
    <3>2. CASE s \in Clients
      <4>1. CASE d \in granted
        BY <1>0, <4>1
      <4>2. ASSUME NEW a \in ApprovalIds,
                   m.approvals[a] = [step |-> d, status |-> "APPROVED"],
                   m.approvals[a] # l.approvals[a]
            PROVE  d \in granted'
        <5>1. db'.approvals[a] = [step |-> d, status |-> "APPROVED"]
          BY <1>1, <4>2
        <5> QED BY <1>0, <5>1 DEF ApprovedSteps
      <4> QED BY <2>3, <3>2, <4>1, <4>2 DEF GrantInv, Granting
    <3> QED BY <3>1, <3>2 DEF Sessions
  <2> QED BY <1>2, <2>1, <2>2, <2>3
<1> QED BY <1>0, <1>3, <1>4, <1>5, IdleGrants

\* A session that loads the committed rows finds every grant they need.
LEMMA LoadGrants ==
  ASSUME TypeOK, GrantInv, NEW s \in Sessions, NEW kind, NEW a, Load(s, kind, a),
         db' = db, granted' = granted, sent' = sent,
         kind \in {"approve", "expire", "reject"} => a \in ApprovalIds /\ Pending(db, a)
  PROVE  GrantInv'
<1>1. \A r \in Sessions :
        \/ /\ view'[r] = view[r] /\ snap'[r] = snap[r] /\ pc'[r] = pc[r]
           /\ job'[r] = job[r] /\ target'[r] = target[r]
        \/ /\ view'[r] = db /\ snap'[r] = db /\ job'[r] = kind /\ target'[r] = a
  BY DEF TypeOK, Load
<1>2. \A r \in Sessions : Named(view'[r])
  BY <1>1 DEF GrantInv
<1>3. \A r \in Sessions : Started(view[r])'
  BY <1>1 DEF GrantInv, Started
<1>4. \A w \in Workers : Earned(view[w])'
  BY <1>1 DEF GrantInv, Earned, Sessions
<1>5. ASSUME NEW c \in Clients PROVE Granting(snap[c], view[c])'
  <2>1. CASE view'[c] = view[c] /\ snap'[c] = snap[c]
    <3>1. Granting(snap[c], view[c])
      BY DEF GrantInv
    <3> QED BY <2>1, <3>1 DEF Granting
  <2>2. CASE view'[c] = db /\ snap'[c] = db
    BY <2>2 DEF GrantInv, Granting, Earned
  <2> QED BY <1>1, <2>1, <2>2 DEF Sessions
<1>6. \A c \in Clients : DecidesPending(c)'
  BY <1>1 DEF GrantInv, DecidesPending, Sessions
<1>7. \A r \in Sessions : pc'[r] = "loaded" => view'[r] = snap'[r]
  BY <1>1 DEF GrantInv
<1>8. Named(db') /\ Started(db)' /\ Earned(db)' /\ ApprovedSteps(db') \subseteq granted'
  BY DEF GrantInv, Started, Earned
<1>9. SendIsApproved'
  BY DEF GrantInv, SendIsApproved
<1> QED BY <1>2, <1>3, <1>4, <1>5, <1>6, <1>7, <1>8, <1>9 DEF GrantInv, Named

LEMMA QuietGrants ==
  ASSUME TypeOK, GrantInv, NEW s \in Sessions, Quiet(s)
  PROVE  GrantInv'
<1>1. PICK row \in Row, after \in {"open", "doomed"} :
        Work(s, row, after) /\ row.steps = view[s].steps
                            /\ row.approvals = view[s].approvals
  BY DEF Quiet
<1>2. Named(row) /\ Started(row)
  BY <1>1 DEF GrantInv, Named, Started
<1>3. s \in Workers => Earned(row)
  BY <1>1 DEF GrantInv, Earned
<1>4. ASSUME s \in Clients PROVE Granting(snap[s], row)
  <2>1. Granting(snap[s], view[s])
    BY <1>4 DEF GrantInv
  <2> QED BY <1>1, <2>1 DEF Granting
<1>5. SendIsApproved'
  BY <1>1 DEF GrantInv, SendIsApproved, Quiet, Work
<1> QED BY <1>1, <1>2, <1>3, <1>4, <1>5, WorkGrants

\* A worker starts a step only when the approval steps before it are granted,
\* and runs a gated step only when its action is.
LEMMA RunGrants ==
  ASSUME TypeOK, GrantInv, NEW w \in Workers, NEW s \in Steps,
         RunStep(w, s) \/ RaiseApproval(w, s)
  PROVE  GrantInv'
<1>0. /\ w \in Sessions /\ w \notin Clients /\ view[w] \in Row /\ db \in Row
      /\ Named(view[w]) /\ Started(view[w]) /\ Earned(view[w])
  BY SessionsAssumption DEF TypeOK, GrantInv, Sessions
<1>1. \A d \in Deps[s] \cap ApprovalSteps : d \in granted
  BY <1>0 DEF RunStep, Fail, UsesTool, RaiseApproval, RaisedFor, NextReady, Ready, DepsMet, Earned
<1>2. CASE RunStep(w, s)
  <2> DEFINE after == AfterRun(view[w].steps[s])
             row   == [view[w] EXCEPT !.steps[s] = after, !.cancel = db.cancel]
             final == IF after.status = "RECOVERY" THEN SetStatus(row, "FAILED") ELSE row
  <2>1. s \notin ApprovalSteps /\ Work(w, final, "open")
    BY <1>2 DEF RunStep, Fail, UsesTool
  <2>2. \A t \in Steps : final.steps[t] = IF t = s THEN after ELSE view[w].steps[t]
    BY <1>0 DEF SetStatus, Row
  <2>3. final.approvals = view[w].approvals
    BY <1>0 DEF SetStatus, Row
  <2>4. Named(final) /\ Started(final) /\ Earned(final)
    <3> HIDE DEF final
    <3> QED BY <1>0, <1>1, <2>1, <2>2, <2>3, PlanAssumption DEF Named, Started, Earned
  <2>5. ASSUME s \in GatedSteps PROVE \E t \in granted \cap Steps : Action[t] = Action[s]
    <3>1. Cardinality(Grants(s)) = 1
      BY <1>2, <2>5 DEF RunStep, Fail, UsesTool
    <3>2. Grants(s) # {}
      BY <3>1, FS_EmptySet
    <3> QED BY <1>0, <3>2 DEF Grants, GrantInv, Named, ApprovedSteps
  <2>6. SendIsApproved'
    <3>1. /\ sent' = IF s \in GatedSteps THEN [sent EXCEPT ![s] = @ + 1] ELSE sent
          /\ granted' = granted
      BY <1>2 DEF RunStep, Fail, UsesTool, Work
    <3> QED BY <2>5, <3>1 DEF GrantInv, SendIsApproved, TypeOK
  <2> HIDE DEF final
  <2> QED BY <1>0, <2>1, <2>4, <2>6, WorkGrants
<1>3. CASE RaiseApproval(w, s)
  <2> DEFINE row(a) == [SetStatus(view[w], "AWAITING_APPROVAL") EXCEPT
                          !.steps[s].status   = "APPROVAL",
                          !.steps[s].attempts = @ + 1,
                          !.approvals[a]      = [step |-> s, status |-> "PENDING"]]
  <2>1. PICK a \in ApprovalIds : Work(w, row(a), "open")
    BY <1>3 DEF RaiseApproval, RaisedFor
  <2>2. \A t \in Steps : IF t = s THEN row(a).steps[t].status = "APPROVAL"
                                  ELSE row(a).steps[t] = view[w].steps[t]
    BY <1>0 DEF SetStatus, Row, StepRow
  <2>3. \A b \in ApprovalIds :
          row(a).approvals[b] \in {view[w].approvals[b], [step |-> s, status |-> "PENDING"]}
    BY <1>0 DEF SetStatus, Row
  <2>4. Named(row(a)) /\ Started(row(a)) /\ Earned(row(a))
    <3> HIDE DEF row
    <3> QED BY <1>0, <1>1, <2>2, <2>3, PlanAssumption DEF Named, Started, Earned
  <2>5. SendIsApproved'
    BY <1>3 DEF GrantInv, SendIsApproved, RaiseApproval, RaisedFor, Work
  <2> HIDE DEF row
  <2> QED BY <1>0, <2>1, <2>4, <2>5, WorkGrants
<1> QED BY <1>2, <1>3

\* A decision that completes a step carries the grant that completes it.
LEMMA DecideGrants ==
  ASSUME TypeOK, GrantInv, NEW c \in Clients, Approve(c) \/ Expire(c) \/ Reject(c)
  PROVE  GrantInv'
<1> DEFINE a == target[c]
<1>0. /\ c \in Sessions /\ c \notin Workers /\ view[c] \in Row /\ snap[c] = view[c]
      /\ Named(view[c]) /\ Started(view[c]) /\ Granting(snap[c], view[c])
      /\ a \in ApprovalIds /\ view[c].approvals[a].status = "PENDING"
      /\ view[c].approvals[a].step \in Steps
  BY SessionsAssumption
  DEF TypeOK, GrantInv, Sessions, DecidesPending, Pending, Named, Approve, Expire, Reject, Doing
<1>1. \A d \in ApprovalSteps : view[c].steps[d].status = "COMPLETE" => d \in granted
  BY <1>0 DEF Granting
<1>2. SendIsApproved'
  BY DEF GrantInv, SendIsApproved, Approve, Expire, Reject, Work
<1>3. ASSUME NEW row, NEW after \in {"open", "doomed"}, NEW s \in ApprovalStatus,
             Work(c, row, after),
             row.approvals = [view[c].approvals EXCEPT ![a].status = s],
             \A t \in Steps :
               /\ row.steps[t].attempts = view[c].steps[t].attempts
               /\ \/ row.steps[t].status = view[c].steps[t].status
                  \/ s = "APPROVED" /\ t = view[c].approvals[a].step
      PROVE  GrantInv'
  <2>1. \A b \in ApprovalIds : row.approvals[b].step = view[c].approvals[b].step
    BY <1>0, <1>3 DEF Row, ApprovalRow
  <2>2. \A b \in ApprovalIds : b # a => row.approvals[b] = view[c].approvals[b]
    BY <1>0, <1>3 DEF Row
  <2>3. row.approvals[a] = [step |-> view[c].approvals[a].step, status |-> s]
    BY <1>0, <1>3 DEF Row, ApprovalRow
  <2>4. Named(row)
    BY <1>0, <2>1, <2>2 DEF Named
  <2>5. Started(row)
    BY <1>0, <1>3 DEF Started
  <2>6. Granting(snap[c], row)
    BY <1>0, <1>1, <1>3, <2>3, PlanAssumption DEF Granting
  <2> QED BY <1>0, <1>2, <1>3, <2>4, <2>5, <2>6, WorkGrants
<1>4. CASE Approve(c)
  <2> DEFINE step  == view[c].approvals[a].step
             row   == SetApproval(view[c], a, "APPROVED")
             moved == Decide(row, "AWAITING_APPROVAL", "RUNNING")
             final == [moved EXCEPT !.steps[step].status = "COMPLETE"]
  <2>1. row \in Row /\ row.steps = view[c].steps
        /\ row.approvals = [view[c].approvals EXCEPT ![a].status = "APPROVED"]
    BY <1>0, SetApprovalRow DEF ApprovalStatus
  <2>2. moved \in Row /\ moved.steps = row.steps /\ moved.approvals = row.approvals
    BY <2>1, DecideRow DEF Status
  <2>3. /\ final.approvals = moved.approvals
        /\ \A t \in Steps :
             /\ final.steps[t].attempts = moved.steps[t].attempts
             /\ final.steps[t].status = moved.steps[t].status \/ t = step
    <3> HIDE DEF moved, step
    <3> QED BY <2>2 DEF Row, StepRow
  <2>4. Work(c, final, "open")
    BY <1>4 DEF Approve
  <2> HIDE DEF row, moved, final
  <2> QED BY <1>3, <2>1, <2>2, <2>3, <2>4 DEF ApprovalStatus
<1>5. CASE Expire(c)
  <2> DEFINE final == SetApproval(view[c], a, "EXPIRED")
  <2>1. /\ final.steps = view[c].steps
        /\ final.approvals = [view[c].approvals EXCEPT ![a].status = "EXPIRED"]
    BY <1>0, SetApprovalRow DEF ApprovalStatus
  <2>2. Work(c, final, "doomed")
    BY <1>5 DEF Expire
  <2> HIDE DEF final
  <2> QED BY <1>3, <2>1, <2>2 DEF ApprovalStatus
<1>6. CASE Reject(c)
  <2> DEFINE row   == SetApproval(view[c], a, "REJECTED")
             final == Decide(row, "AWAITING_APPROVAL", "BLOCKED")
  <2>1. row \in Row /\ row.steps = view[c].steps
        /\ row.approvals = [view[c].approvals EXCEPT ![a].status = "REJECTED"]
    BY <1>0, SetApprovalRow DEF ApprovalStatus
  <2>2. final.steps = row.steps /\ final.approvals = row.approvals
    BY <2>1, DecideRow DEF Status
  <2>3. Work(c, final, "open")
    BY <1>6 DEF Reject
  <2> HIDE DEF row, final
  <2> QED BY <1>3, <2>1, <2>2, <2>3 DEF ApprovalStatus
<1> QED BY <1>4, <1>5, <1>6

\* Every step of the control plane preserves the grant invariant.
LEMMA GrantStep == TypeOK /\ GrantInv /\ [Next]_vars => GrantInv'
<1> SUFFICES ASSUME TypeOK, GrantInv, [Next]_vars PROVE GrantInv'
  OBVIOUS
<1>1. ASSUME UNCHANGED <<db, view, snap, pc, job, target, granted, sent>> PROVE GrantInv'
  BY <1>1 DEF GrantInv, Started, Earned, Granting, DecidesPending, SendIsApproved
<1>2. ASSUME NEW s \in Sessions, Rollback(s) \/ Crash(s) PROVE GrantInv'
  <2>1. Idle(s) /\ db' = db /\ granted' = granted /\ sent' = sent
    BY <1>2 DEF Rollback, Crash
  <2>2. Named(db') /\ Started(db)' /\ Earned(db)' /\ ApprovedSteps(db') \subseteq granted'
    BY <2>1 DEF GrantInv, Started, Earned
  <2> QED BY <2>1, <2>2, IdleGrants
<1>3. ASSUME NEW w \in Workers, WorkerStep(w) PROVE GrantInv'
  <2>0. w \in Sessions
    BY DEF Sessions
  <2>1. CASE TakeJob(w)
    <3>1. Head(queue) \in Jobs
      BY <2>1 DEF TakeJob, TypeOK
    <3>2. Head(queue) \notin {"approve", "expire", "reject"}
      BY <3>1 DEF Jobs
    <3> QED BY <2>0, <2>1, <3>2, LoadGrants DEF TakeJob
  <2>2. CASE DropJob(w)
    BY <1>1, <2>2 DEF DropJob
  <2>3. CASE PlanStep(w) \/ TurnStep(w)
    BY <2>0, <2>3, QuietWork, QuietGrants, RunGrants DEF TurnStep
  <2> QED BY <1>2, <1>3, <2>0, <2>1, <2>2, <2>3, CommitGrants DEF WorkerStep, CommitJob
<1>4. ASSUME NEW c \in Clients, BeginRequest(c) PROVE GrantInv'
  <2>0. c \in Sessions
    BY DEF Sessions
  <2>1. ASSUME NEW op, NEW kind, NEW a, Begin(c, op, kind, a),
               kind \in {"approve", "expire", "reject"} => a \in ApprovalIds /\ Pending(db, a)
        PROVE  GrantInv'
    BY <2>0, <2>1, LoadGrants DEF Begin
  <2>2. ASSUME NEW a \in ApprovalIds, BeginApprove(c, a) \/ BeginReject(c, a) PROVE GrantInv'
    BY <2>1, <2>2 DEF BeginApprove, BeginReject
  <2>3. CASE BeginPause(c) \/ BeginResume(c) \/ BeginCancel(c)
    BY <2>1, <2>3 DEF BeginPause, BeginResume, BeginCancel
  <2> QED BY <1>4, <2>2, <2>3 DEF BeginRequest
<1>5. ASSUME NEW c \in Clients, ServeRequest(c) PROVE GrantInv'
  BY <1>2, <1>5, CommitGrants, DecideGrants, QuietRequest, QuietGrants
  DEF ServeRequest, CommitRequest, Sessions
<1>6. CASE \/ EnqueuePlanning \/ LosePlanning \/ Redeliver \/ UNCHANGED vars
           \/ \E a \in ApprovalIds : ElapseTTL(a)
  BY <1>1, <1>6 DEF EnqueuePlanning, LosePlanning, Redeliver, ElapseTTL, vars
<1> QED BY <1>2, <1>3, <1>4, <1>5, <1>6 DEF Next

LEMMA GrantInit == Init => GrantInv
  BY FreshGrants DEF Init, GrantInv, DecidesPending, SendIsApproved, Sessions

\* No external send without a committed approval of that very action, whatever
\* workers, requests, crashes and redeliveries there are (_handle_action).
THEOREM SendsAreApproved == Spec => []SendIsApproved
<1>1. GrantInv => SendIsApproved
  BY DEF GrantInv
<1> QED BY <1>1, GrantInit, GrantStep, TypeCorrect, PTL DEF Spec

\* No step that depends on an approval step starts before the grant, even when
\* the rows of two sessions are written column by column over each other.
THEOREM DependentsAwait == Spec => []DependentsAwaitGrant
<1>1. GrantInv => DependentsAwaitGrant
  BY DEF GrantInv, Started, DependentsAwaitGrant, Sessions
<1> QED BY <1>1, GrantInit, GrantStep, TypeCorrect, PTL DEF Spec

-----------------------------------------------------------------------------
(* The shapes of a step.  What the invariants below need to know of the    *)
(* actions is what a worker and a request make of the rows they loaded.    *)

\* A gated step that a worker goes past: left alone, parked, or run and sent.
Gated(t, mine, row, after) ==
  \/ /\ sent'[t] = sent[t]
     /\ row.steps[t].forceFail = mine.steps[t].forceFail
     /\ \/ row.steps[t].status = mine.steps[t].status
        \/ mine.steps[t].status = "WAITING" /\ row.steps[t].status = "APPROVAL"
  \/ /\ sent'[t] = sent[t] + 1 /\ after = "open"
     /\ mine.steps[t].status = "WAITING" /\ row.steps[t] = AfterRun(mine.steps[t])

WorkerMakes(w, row, after) ==
  LET mine == view[w] IN
  /\ row \in Row /\ row.status # "QUEUED" /\ after \in {"open", "doomed"}
  /\ pc[w] \in {"loaded", "open"} /\ mine.status \in {"QUEUED", "RUNNING", "RECOVERY"}
  /\ \/ row.status # "AWAITING_APPROVAL" /\ row.approvals = mine.approvals
     \/ /\ row.status = "AWAITING_APPROVAL" /\ mine.status # "QUEUED"
        /\ \E a \in ApprovalIds, t \in Steps :
             /\ db.approvals[a] = NoApproval
             /\ row.approvals = [mine.approvals EXCEPT ![a] = [step |-> t, status |-> "PENDING"]]
  /\ PlanOutcomes \subseteq {"valid"} =>
       IF mine.status = "QUEUED"
         THEN row.version = mine.version + 1 /\ (after = "open" => mine.version = db.version)
         ELSE row.version = mine.version
  /\ \A t \in GatedSteps : Gated(t, mine, row, after)
  /\ after = "doomed" => \/ pc[w] = "loaded"
                        \/ \E t \in GatedSteps : mine.steps[t].status = "WAITING"

RequestMakes(c, row, after) ==
  LET mine == view[c] IN
  /\ row \in Row /\ after \in {"open", "doomed"} /\ pc[c] = "loaded" /\ sent' = sent
  /\ row.version = mine.version
  /\ \/ row.status = mine.status
     \/ /\ row.status \in {"RUNNING", "BLOCKED"}
        /\ mine.status = "AWAITING_APPROVAL" \/ job[c] \in {"pause", "unpause"}
  /\ \/ row.approvals = mine.approvals
     \/ \E a \in ApprovalIds, verdict \in ApprovalStatus \ {"NONE"} :
          /\ mine.approvals[a].status = "PENDING"
          /\ row.approvals = [mine.approvals EXCEPT ![a].status = verdict]
          /\ after = "open" => row.status # "AWAITING_APPROVAL"
  /\ \A t \in Steps : /\ row.steps[t].forceFail = mine.steps[t].forceFail
                       /\ row.steps[t].status \in {"COMPLETE", mine.steps[t].status}

Rests == UNCHANGED <<db, view, snap, pc, job, target, lock, sent>>

Opens(s) ==
  /\ pc[s] = "idle" /\ db' = db /\ lock' = lock /\ sent' = sent
  /\ \E kind \in JobKinds \ {"none"}, a \in ApprovalIds \cup {NoSession} :
       /\ Load(s, kind, a)
       /\ s \in Workers => db.status \in {"QUEUED", "RUNNING", "RECOVERY"}
       /\ kind \in {"pause", "unpause"} => s \in Clients /\ db.status # "QUEUED"

Works(s) ==
  \E row, after :
    /\ Work(s, row, after)
    /\ s \in Workers => WorkerMakes(s, row, after)
    /\ s \in Clients => RequestMakes(s, row, after)

Commits(s) ==
  /\ CommitRows(s) /\ pc[s] = "open"
  /\ s \in Workers => view[s].status \notin Advanceable

Ends(s) ==
  /\ Idle(s) /\ db' = db /\ sent' = sent /\ pc[s] # "idle"
  /\ \/ pc[s] = "doomed" /\ lock' = NoSession
     \/ MaxCrashes > 0 /\ lock' = IF lock = s THEN NoSession ELSE lock

LEMMA TurnMakes ==
  ASSUME TypeOK, NEW w \in Workers, PlanStep(w) \/ TurnStep(w)
  PROVE  Works(w)
<1>0. /\ view[w] \in Row /\ db \in Row /\ w \in Sessions /\ w \notin Clients
      /\ sent \in [GatedSteps -> Nat]
  BY SessionsAssumption DEF TypeOK, Sessions
<1> DEFINE mine == view[w]
<1>1. ASSUME NEW row \in Row, NEW after \in {"open", "doomed"}, Work(w, row, after),
             WorkerMakes(w, row, after)
      PROVE  Works(w)
  BY <1>0, <1>1 DEF Works
<1>2. ASSUME NEW s \in Status
      PROVE  /\ SetStatus(mine, s) \in Row
             /\ SetStatus(mine, s).status = s
             /\ SetStatus(mine, s).steps = mine.steps
             /\ SetStatus(mine, s).approvals = mine.approvals
             /\ SetStatus(mine, s).version = mine.version
  BY <1>0, SetStatusType DEF SetStatus, Row
<1>3. ASSUME NEW row, row.steps = mine.steps, sent' = sent, NEW after
      PROVE  \A t \in GatedSteps : Gated(t, mine, row, after)
  BY <1>3 DEF Gated
<1>4. CASE PlanUnavailable(w)
  <2> DEFINE row == SetStatus(mine, "FAILED")
  <2>1. /\ row \in Row /\ row.status = "FAILED" /\ row.steps = mine.steps
        /\ row.approvals = mine.approvals
    BY <1>2 DEF Status
  <2>2. /\ Work(w, row, "open") /\ sent' = sent /\ mine.status = "QUEUED"
        /\ pc[w] = "loaded" /\ "unavailable" \in PlanOutcomes
    BY <1>4 DEF PlanUnavailable, Planning
  <2> HIDE DEF row
  <2> QED BY <1>1, <1>3, <2>1, <2>2 DEF WorkerMakes
<1>5. CASE PlanInvalid(w)
  <2> DEFINE failed == SetStatus(mine, "FAILED")
             row    == [failed EXCEPT !.plans = db.plans + 1]
  <2>1. /\ failed \in Row /\ failed.status = "FAILED" /\ failed.steps = mine.steps
        /\ failed.approvals = mine.approvals
    BY <1>2 DEF Status
  <2>2. /\ Work(w, row, "open") /\ sent' = sent /\ mine.status = "QUEUED"
        /\ pc[w] = "loaded" /\ "invalid" \in PlanOutcomes
    BY <1>5 DEF PlanInvalid, Planning
  <2> HIDE DEF failed
  <2>3. /\ row \in Row /\ row.status = "FAILED" /\ row.steps = mine.steps
        /\ row.approvals = mine.approvals
    BY <1>0, <2>1 DEF Row
  <2> HIDE DEF row
  <2> QED BY <1>1, <1>3, <2>2, <2>3 DEF WorkerMakes
<1>6. CASE Plan(w)
  <2> DEFINE run   == SetStatus(mine, "RUNNING")
             row   == [run EXCEPT !.plans   = db.plans + 1,
                                  !.version = view[w].version + 1,
                                  !.cancel  = db.cancel]
             after == IF SwapsVersion(view[w], db) THEN "open" ELSE "doomed"
  <2>1. /\ run \in Row /\ run.status = "RUNNING" /\ run.steps = mine.steps
        /\ run.approvals = mine.approvals
    BY <1>2 DEF Status
  <2>2. /\ Work(w, row, after) /\ sent' = sent /\ mine.status = "QUEUED"
        /\ pc[w] = "loaded"
    BY <1>6 DEF Plan, Planning
  <2>3. after \in {"open", "doomed"} /\ (after = "open" => mine.version = db.version)
    BY DEF SwapsVersion
  <2>4. db.plans + 1 \in Nat /\ mine.version + 1 \in Nat /\ db.cancel \in BOOLEAN
    BY <1>0 DEF Row
  <2> HIDE DEF run
  <2>5. /\ row \in Row /\ row.status = "RUNNING" /\ row.steps = mine.steps
        /\ row.approvals = mine.approvals /\ row.version = mine.version + 1
    <3>1. row \in Row
      BY <2>1, <2>4, PlannedType
    <3> QED BY <2>1, <3>1 DEF Row
  <2> HIDE DEF row, after
  <2> QED BY <1>1, <1>3, <2>2, <2>3, <2>5 DEF WorkerMakes
<1>7. CASE TurnStep(w)
  <2>0. pc[w] \in {"loaded", "open"} /\ mine.status \in {"RUNNING", "RECOVERY"}
    BY <1>7 DEF TurnStep, CancelExecution, Complete, RaiseApproval, RaisedFor, AmbiguousApproval,
                RunStep, Fail, UsesTool, Runs, Turn, Advanceable
  <2>1. ASSUME NEW row \in Row, NEW final \in {"CANCELLED", "COMPLETE"},
               row = SetStatus(mine, final), Work(w, row, "open"), sent' = sent
        PROVE  Works(w)
    <3>1. /\ row.status = final /\ row.steps = mine.steps
          /\ row.approvals = mine.approvals /\ row.version = mine.version
      BY <1>2, <2>1 DEF Status
    <3> QED BY <1>1, <1>3, <2>0, <2>1, <3>1 DEF WorkerMakes
  <2>2. CASE CancelExecution(w)
    BY <1>2, <2>1, <2>2 DEF CancelExecution, Status
  <2>3. CASE Complete(w)
    BY <1>2, <2>1, <2>3 DEF Complete, Status
  <2>4. ASSUME NEW s \in Steps, RaiseApproval(w, s) PROVE Works(w)
    <3> DEFINE parked == SetStatus(mine, "AWAITING_APPROVAL")
               row(a) == [parked EXCEPT
                            !.steps[s].status   = "APPROVAL",
                            !.steps[s].attempts = @ + 1,
                            !.approvals[a]      = [step |-> s, status |-> "PENDING"]]
    <3>1. PICK a \in ApprovalIds : db.approvals[a] = NoApproval /\ Work(w, row(a), "open")
      BY <2>4 DEF RaiseApproval, RaisedFor
    <3>2. sent' = sent /\ mine.steps[s].status = "WAITING"
      BY <2>4 DEF RaiseApproval, RaisedFor, NextReady, Ready
    <3>3. /\ parked \in Row /\ parked.status = "AWAITING_APPROVAL"
          /\ parked.steps = mine.steps /\ parked.approvals = mine.approvals
          /\ parked.version = mine.version
      BY <1>2 DEF Status
    <3> HIDE DEF parked
    <3>4. row(a) \in Row
      BY <3>3, ParkedType
    <3>5. /\ row(a).status = "AWAITING_APPROVAL" /\ row(a).version = mine.version
          /\ row(a).approvals
               = [mine.approvals EXCEPT ![a] = [step |-> s, status |-> "PENDING"]]
      BY <3>3 DEF Row
    <3>6. \A t \in Steps : IF t = s THEN /\ row(a).steps[t].status = "APPROVAL"
                                         /\ row(a).steps[t].forceFail = mine.steps[t].forceFail
                                    ELSE row(a).steps[t] = mine.steps[t]
      BY <3>3 DEF Row, StepRow
    <3> HIDE DEF row
    <3>7. \A t \in GatedSteps : Gated(t, mine, row(a), "open")
      BY <3>2, <3>6, PlanAssumption DEF Gated
    <3> QED BY <1>1, <2>0, <3>1, <3>4, <3>5, <3>7 DEF WorkerMakes
  <2>5. ASSUME NEW s \in Steps, AmbiguousApproval(w, s) PROVE Works(w)
    <3>1. /\ Work(w, mine, "doomed") /\ sent' = sent /\ s \in GatedSteps
          /\ mine.steps[s].status = "WAITING"
      BY <2>5 DEF AmbiguousApproval, NextReady, Ready
    <3>2. \A t \in GatedSteps : Gated(t, mine, mine, "doomed")
      BY <1>3, <3>1
    <3>3. mine \in Row
      BY <1>0
    <3> HIDE DEF mine
    <3>4. WorkerMakes(w, mine, "doomed")
      BY <2>0, <3>1, <3>2, <3>3 DEF WorkerMakes, mine
    <3> QED BY <1>1, <3>1, <3>3, <3>4
  <2>6. ASSUME NEW s \in Steps, RunStep(w, s) PROVE Works(w)
    <3> DEFINE ran   == AfterRun(mine.steps[s])
               row   == [mine EXCEPT !.steps[s] = ran, !.cancel = db.cancel]
               final == IF ran.status = "RECOVERY" THEN SetStatus(row, "FAILED") ELSE row
    <3>1. /\ Work(w, final, "open") /\ mine.steps[s].status = "WAITING"
          /\ sent' = IF s \in GatedSteps THEN [sent EXCEPT ![s] = @ + 1] ELSE sent
      BY <2>6 DEF RunStep, Fail, UsesTool, NextReady, Ready
    <3>2. ran \in StepRow
      BY <1>0, AfterRunType DEF Row
    <3> HIDE DEF ran
    <3>3. /\ row \in Row /\ row.status = mine.status /\ row.approvals = mine.approvals
          /\ row.version = mine.version
          /\ \A t \in Steps : row.steps[t] = IF t = s THEN ran ELSE mine.steps[t]
      BY <1>0, <3>2 DEF Row
    <3> HIDE DEF row
    <3>4. /\ final \in Row /\ final.status \in {"FAILED", mine.status}
          /\ final.approvals = mine.approvals /\ final.version = mine.version
          /\ \A t \in Steps : final.steps[t] = IF t = s THEN ran ELSE mine.steps[t]
      <4>1. /\ SetStatus(row, "FAILED") \in Row /\ SetStatus(row, "FAILED").status = "FAILED"
            /\ SetStatus(row, "FAILED").steps = row.steps
            /\ SetStatus(row, "FAILED").approvals = row.approvals
            /\ SetStatus(row, "FAILED").version = row.version
        <5>1. SetStatus(row, "FAILED").status = "FAILED"
          BY <3>3 DEF SetStatus, Row
        <5>2. "FAILED" \in Status
          BY DEF Status
        <5> QED BY <3>3, <5>1, <5>2, SetStatusType
      <4> QED BY <3>3, <4>1
    <3> HIDE DEF final
    <3>5. \A t \in GatedSteps : Gated(t, mine, final, "open")
      BY <1>0, <3>1, <3>4, PlanAssumption DEF Gated, ran
    <3> QED BY <1>1, <2>0, <3>1, <3>4, <3>5 DEF WorkerMakes
  <2> QED BY <1>7, <2>2, <2>3, <2>4, <2>5, <2>6 DEF TurnStep
<1> QED BY <1>4, <1>5, <1>6, <1>7 DEF PlanStep

LEMMA RequestChanges ==
  ASSUME TypeOK, GrantInv, NEW c \in Clients,
         Approve(c) \/ Expire(c) \/ Reject(c) \/ Pause(c) \/ Resume(c) \/ Cancel(c)
  PROVE  Works(c)
<1> DEFINE mine == view[c]
           a    == target[c]
<1>0. /\ mine \in Row /\ c \in Sessions /\ c \notin Workers /\ pc[c] = "loaded" /\ sent' = sent
      /\ job[c] \in {"approve", "expire", "reject"} =>
           a \in ApprovalIds /\ mine.approvals[a].status = "PENDING"
  BY SessionsAssumption DEF TypeOK, Sessions, GrantInv, DecidesPending, Pending, Doing,
     Approve, Expire, Reject, Pause, Resume, Cancel
<1>1. ASSUME NEW row \in Row, NEW after \in {"open", "doomed"}, Work(c, row, after),
             RequestMakes(c, row, after)
      PROVE  Works(c)
  BY <1>0, <1>1 DEF Works
<1>2. ASSUME NEW verdict \in ApprovalStatus
      PROVE  /\ SetApproval(mine, a, verdict) \in Row
             /\ SetApproval(mine, a, verdict).steps = mine.steps
             /\ SetApproval(mine, a, verdict).approvals
                  = [mine.approvals EXCEPT ![a].status = verdict]
             /\ SetApproval(mine, a, verdict).status = mine.status
             /\ SetApproval(mine, a, verdict).version = mine.version
  BY <1>0, SetApprovalRow DEF SetApproval, Row
<1>3. ASSUME NEW row \in Row, NEW to \in {"RUNNING", "BLOCKED"}
      PROVE  LET moved == Decide(row, "AWAITING_APPROVAL", to) IN
             /\ moved \in Row /\ moved.steps = row.steps /\ moved.approvals = row.approvals
             /\ moved.version = row.version
             /\ moved.status = IF row.status = "AWAITING_APPROVAL" THEN to ELSE row.status
  <2>1. to \in Status
    BY DEF Status
  <2>2. /\ Decide(row, "AWAITING_APPROVAL", to) \in Row
        /\ Decide(row, "AWAITING_APPROVAL", to).steps = row.steps
        /\ Decide(row, "AWAITING_APPROVAL", to).approvals = row.approvals
    BY <2>1, DecideRow
  <2> QED BY <2>2 DEF Decide, SetStatus, Row
<1>4. CASE Approve(c)
  <2> DEFINE set   == SetApproval(mine, a, "APPROVED")
             moved == Decide(set, "AWAITING_APPROVAL", "RUNNING")
             step  == mine.approvals[a].step
             row   == [moved EXCEPT !.steps[step].status = "COMPLETE"]
  <2>1. Work(c, row, "open") /\ a \in ApprovalIds /\ mine.approvals[a].status = "PENDING"
    BY <1>0, <1>4 DEF Approve, Doing
  <2>2. /\ set \in Row /\ set.steps = mine.steps /\ set.status = mine.status
        /\ set.version = mine.version
        /\ set.approvals = [mine.approvals EXCEPT ![a].status = "APPROVED"]
    BY <1>2 DEF ApprovalStatus
  <2> HIDE DEF set
  <2>3. /\ moved \in Row /\ moved.steps = mine.steps /\ moved.version = mine.version
        /\ moved.approvals = [mine.approvals EXCEPT ![a].status = "APPROVED"]
        /\ moved.status = IF mine.status = "AWAITING_APPROVAL" THEN "RUNNING" ELSE mine.status
    BY <1>3, <2>2
  <2> HIDE DEF moved, step
  <2>4. row \in Row
    BY <2>3, CompletedType
  <2>5. /\ row.status = moved.status /\ row.version = moved.version
        /\ row.approvals = moved.approvals
        /\ \A t \in Steps : /\ row.steps[t].forceFail = moved.steps[t].forceFail
                             /\ row.steps[t].status \in {"COMPLETE", moved.steps[t].status}
    BY <2>3 DEF Row, StepRow
  <2> HIDE DEF row
  <2>6. "APPROVED" \in ApprovalStatus \ {"NONE"}
    BY DEF ApprovalStatus
  <2>7. /\ row.version = mine.version
        /\ row.approvals = [mine.approvals EXCEPT ![a].status = "APPROVED"]
        /\ row.status = IF mine.status = "AWAITING_APPROVAL" THEN "RUNNING" ELSE mine.status
        /\ \A t \in Steps : /\ row.steps[t].forceFail = mine.steps[t].forceFail
                             /\ row.steps[t].status \in {"COMPLETE", mine.steps[t].status}
    BY <2>3, <2>5
  <2>8. RequestMakes(c, row, "open")
    BY <1>0, <2>1, <2>4, <2>6, <2>7 DEF RequestMakes
  <2> QED BY <1>1, <2>1, <2>4, <2>8
<1>5. CASE Expire(c)
  <2> DEFINE row == SetApproval(mine, a, "EXPIRED")
  <2>1. Work(c, row, "doomed") /\ a \in ApprovalIds /\ mine.approvals[a].status = "PENDING"
    BY <1>0, <1>5 DEF Expire, Doing
  <2>2. /\ row \in Row /\ row.steps = mine.steps /\ row.status = mine.status
        /\ row.version = mine.version
        /\ row.approvals = [mine.approvals EXCEPT ![a].status = "EXPIRED"]
    BY <1>2 DEF ApprovalStatus
  <2> HIDE DEF row
  <2>3. "EXPIRED" \in ApprovalStatus \ {"NONE"}
    BY DEF ApprovalStatus
  <2> QED BY <1>0, <1>1, <2>1, <2>2, <2>3 DEF RequestMakes
<1>6. CASE Reject(c)
  <2> DEFINE set == SetApproval(mine, a, "REJECTED")
             row == Decide(set, "AWAITING_APPROVAL", "BLOCKED")
  <2>1. Work(c, row, "open") /\ a \in ApprovalIds /\ mine.approvals[a].status = "PENDING"
    BY <1>0, <1>6 DEF Reject, Doing
  <2>2. /\ set \in Row /\ set.steps = mine.steps /\ set.status = mine.status
        /\ set.version = mine.version
        /\ set.approvals = [mine.approvals EXCEPT ![a].status = "REJECTED"]
    BY <1>2 DEF ApprovalStatus
  <2> HIDE DEF set
  <2>3. /\ row \in Row /\ row.steps = mine.steps /\ row.version = mine.version
        /\ row.approvals = [mine.approvals EXCEPT ![a].status = "REJECTED"]
        /\ row.status = IF mine.status = "AWAITING_APPROVAL" THEN "BLOCKED" ELSE mine.status
    BY <1>3, <2>2
  <2> HIDE DEF row
  <2>4. "REJECTED" \in ApprovalStatus \ {"NONE"}
    BY DEF ApprovalStatus
  <2> QED BY <1>0, <1>1, <2>1, <2>3, <2>4 DEF RequestMakes
<1>7. CASE Pause(c) \/ Resume(c) \/ Cancel(c)
  <2>1. ASSUME NEW row \in {[mine EXCEPT !.status = "BLOCKED"], [mine EXCEPT !.status = "RUNNING"],
                            [mine EXCEPT !.cancel = TRUE]}
        PROVE  /\ row \in Row /\ row.steps = mine.steps /\ row.approvals = mine.approvals
               /\ row.version = mine.version /\ row.status \in {mine.status, "BLOCKED", "RUNNING"}
    BY <1>0 DEF Row, Status
  <2>2. CASE Pause(c) \/ Resume(c)
    <3>1. PICK row \in {[mine EXCEPT !.status = "BLOCKED"], [mine EXCEPT !.status = "RUNNING"]} :
            Work(c, row, "open")
      BY <2>2 DEF Pause, Resume
    <3>2. job[c] \in {"pause", "unpause"}
      BY <2>2 DEF Pause, Resume, Doing
    <3> QED BY <1>0, <1>1, <2>1, <3>1, <3>2 DEF RequestMakes
  <2>3. CASE Cancel(c)
    <3> DEFINE row == [mine EXCEPT !.cancel = TRUE]
    <3>1. Work(c, row, "open")
      BY <2>3 DEF Cancel
    <3>2. /\ row \in Row /\ row.steps = mine.steps /\ row.approvals = mine.approvals
          /\ row.version = mine.version /\ row.status = mine.status
      BY <1>0 DEF Row
    <3> HIDE DEF row
    <3> QED BY <1>0, <1>1, <3>1, <3>2 DEF RequestMakes
  <2> QED BY <1>7, <2>2, <2>3
<1> QED BY <1>4, <1>5, <1>6, <1>7

LEMMA StepShapes ==
  ASSUME TypeOK, GrantInv, [Next]_vars
  PROVE  Rests \/ \E s \in Sessions : Opens(s) \/ Works(s) \/ Commits(s) \/ Ends(s)
<1>1. ASSUME NEW s \in Sessions, Rollback(s) \/ Crash(s) PROVE Ends(s)
  <2>1. CASE Rollback(s)
    BY <2>1 DEF Rollback, Ends
  <2>2. CASE Crash(s)
    <3>1. MaxCrashes > 0
      BY <2>2, BoundAssumption DEF Crash, TypeOK
    <3> QED BY <2>2, <3>1 DEF Crash, Ends
  <2> QED BY <1>1, <2>1, <2>2
<1>2. ASSUME NEW w \in Workers, WorkerStep(w)
      PROVE  Rests \/ Opens(w) \/ Works(w) \/ Commits(w) \/ Ends(w)
  <2>0. w \in Sessions
    BY DEF Sessions
  <2>1. CASE TakeJob(w)
    <3>1. Head(queue) \in Jobs
      BY <2>1 DEF TakeJob, TypeOK
    <3>2. Head(queue) \in JobKinds \ {"none"} /\ Head(queue) \notin {"pause", "unpause"}
      BY <3>1 DEF Jobs, JobKinds
    <3>3. db.status \in {"QUEUED", "RUNNING", "RECOVERY"}
      BY <2>1 DEF TakeJob, Actionable, Advanceable
    <3> QED BY <2>1, <3>2, <3>3 DEF TakeJob, Opens
  <2>2. CASE DropJob(w)
    BY <2>2 DEF DropJob, Rests
  <2>3. CASE PlanStep(w) \/ TurnStep(w)
    BY <2>3, TurnMakes
  <2>4. CASE CommitJob(w)
    BY <2>4 DEF CommitJob, Commits
  <2> QED BY <1>1, <1>2, <2>0, <2>1, <2>2, <2>3, <2>4 DEF WorkerStep
<1>3. ASSUME NEW c \in Clients, BeginRequest(c) PROVE Opens(c)
  <2>0. c \in Sessions /\ c \notin Workers
    BY SessionsAssumption DEF Sessions
  <2>1. ASSUME NEW op, NEW kind \in JobKinds \ {"none"}, NEW a \in ApprovalIds \cup {NoSession},
               Begin(c, op, kind, a), kind \in {"pause", "unpause"} => db.status # "QUEUED"
        PROVE  Opens(c)
    BY <2>0, <2>1 DEF Begin, Opens
  <2>2. ASSUME NEW a \in ApprovalIds, BeginApprove(c, a) \/ BeginReject(c, a) PROVE Opens(c)
    BY <2>1, <2>2 DEF BeginApprove, BeginReject, JobKinds
  <2>3. ~CanTransition("QUEUED", "BLOCKED") /\ ~CanTransition("QUEUED", "RUNNING")
    BY DEF CanTransition, Allowed, Status
  <2>4. CASE BeginPause(c) \/ BeginResume(c) \/ BeginCancel(c)
    BY <2>1, <2>3, <2>4 DEF BeginPause, BeginResume, BeginCancel, JobKinds
  <2> QED BY <1>3, <2>2, <2>4 DEF BeginRequest
<1>4. ASSUME NEW c \in Clients, ServeRequest(c) PROVE Works(c) \/ Commits(c) \/ Ends(c)
  <2>0. c \in Sessions /\ c \notin Workers
    BY SessionsAssumption DEF Sessions
  <2>1. CASE CommitRequest(c)
    BY <2>0, <2>1 DEF CommitRequest, Commits
  <2> QED BY <1>1, <1>4, <2>0, <2>1, RequestChanges DEF ServeRequest
<1>5. CASE \/ EnqueuePlanning \/ LosePlanning \/ Redeliver \/ UNCHANGED vars
           \/ \E a \in ApprovalIds : ElapseTTL(a)
  BY <1>5 DEF EnqueuePlanning, LosePlanning, Redeliver, ElapseTTL, vars, Rests
<1> QED BY <1>1, <1>2, <1>3, <1>4, <1>5 DEF Next, Sessions

-----------------------------------------------------------------------------
(* Sessions write one at a time.                                           *)

HeldInv ==
  \A s \in Sessions : /\ pc[s] \in {"open", "doomed"} => lock = s
                      /\ pc[s] = "loaded" => view[s] = snap[s]
                      /\ pc[s] = "idle" => job[s] = "none"

LEMMA HeldInit == Init => HeldInv
  BY DEF Init, HeldInv

\* What a step of one session leaves to the others, and makes of its own rows.
LEMMA Opened ==
  ASSUME TypeOK, NEW s \in Sessions, NEW kind, NEW a, Load(s, kind, a)
  PROVE  /\ pc'[s] = "loaded" /\ job'[s] = kind /\ view'[s] = db /\ snap'[s] = db
         /\ \A r \in Sessions \ {s} : /\ pc'[r] = pc[r] /\ job'[r] = job[r]
                                      /\ view'[r] = view[r] /\ snap'[r] = snap[r]
  BY DEF TypeOK, Load

LEMMA Worked ==
  ASSUME TypeOK, NEW s \in Sessions, NEW row, NEW after, Work(s, row, after)
  PROVE  /\ pc'[s] = after /\ view'[s] = row /\ lock \in {NoSession, s} /\ lock' = s
         /\ snap' = snap /\ job' = job /\ db' = db
         /\ \A r \in Sessions \ {s} : pc'[r] = pc[r] /\ view'[r] = view[r]
  BY DEF TypeOK, Work, Hold

LEMMA Ended ==
  ASSUME TypeOK, NEW s \in Sessions, Idle(s)
  PROVE  /\ pc'[s] = "idle" /\ job'[s] = "none" /\ view'[s] = NewRow /\ snap'[s] = NewRow
         /\ \A r \in Sessions \ {s} : /\ pc'[r] = pc[r] /\ job'[r] = job[r]
                                      /\ view'[r] = view[r] /\ snap'[r] = snap[r]
  BY DEF TypeOK, Idle

\* While one session has the row, no other is past its loading.
LEMMA OnlyOneHolds ==
  ASSUME HeldInv, NEW s \in Sessions, pc[s] \in {"open", "doomed"} \/ lock \in {NoSession, s}
  PROVE  \A r \in Sessions \ {s} : pc[r] \notin {"open", "doomed"}
  BY SessionsAssumption DEF HeldInv

LEMMA HeldStep ==
  ASSUME TypeOK, GrantInv, HeldInv, [Next]_vars
  PROVE  HeldInv'
<1>1. CASE Rests
  BY <1>1 DEF Rests, HeldInv
<1>2. ASSUME NEW s \in Sessions, Opens(s) PROVE HeldInv'
  BY <1>2, Opened DEF Opens, HeldInv
<1>3. ASSUME NEW s \in Sessions, Works(s) PROVE HeldInv'
  <2>1. PICK row, after : /\ Work(s, row, after)
                          /\ s \in Workers => WorkerMakes(s, row, after)
                          /\ s \in Clients => RequestMakes(s, row, after)
    BY <1>3 DEF Works
  <2>2. /\ pc'[s] = after /\ lock \in {NoSession, s} /\ lock' = s
        /\ snap' = snap /\ job' = job
        /\ \A r \in Sessions \ {s} : pc'[r] = pc[r] /\ view'[r] = view[r]
    BY <2>1, Worked
  <2>3. after \in {"open", "doomed"}
    BY <2>1 DEF WorkerMakes, RequestMakes, Sessions
  <2>4. \A r \in Sessions \ {s} : pc[r] \notin {"open", "doomed"}
    BY <2>2, OnlyOneHolds
  <2> QED BY <2>2, <2>3, <2>4 DEF HeldInv
<1>4. ASSUME NEW s \in Sessions, Commits(s) \/ Ends(s) PROVE HeldInv'
  <2>1. Idle(s)
    BY <1>4 DEF Commits, CommitRows, Ends
  <2>2. /\ pc'[s] = "idle" /\ job'[s] = "none"
        /\ \A r \in Sessions \ {s} : /\ pc'[r] = pc[r] /\ job'[r] = job[r]
                                     /\ view'[r] = view[r] /\ snap'[r] = snap[r]
    BY <2>1, Ended
  <2>3. CASE pc[s] \in {"open", "doomed"}
    BY <2>2, <2>3, OnlyOneHolds DEF HeldInv
  <2>4. CASE pc[s] \notin {"open", "doomed"}
    <3>1. lock' = IF lock = s THEN NoSession ELSE lock
      BY <1>4, <2>4 DEF Commits, Ends
    <3>2. \A r \in Sessions \ {s} : pc[r] \in {"open", "doomed"} => lock = r
      BY DEF HeldInv
    <3> QED BY <2>2, <3>1, <3>2 DEF HeldInv
  <2> QED BY <2>3, <2>4
<1> QED BY <1>1, <1>2, <1>3, <1>4, StepShapes

-----------------------------------------------------------------------------
(* An execution that awaits approval has one for someone to decide.        *)

\* What a request changes of the approvals and of the status it loaded.
Decides(loaded, mine) ==
  /\ mine.status = "AWAITING_APPROVAL" => loaded.status = "AWAITING_APPROVAL"
  /\ \A a \in ApprovalIds : mine.approvals[a] # loaded.approvals[a] =>
       /\ loaded.approvals[a].status = "PENDING" /\ mine.approvals[a].status # "NONE"
       /\ mine.status # "AWAITING_APPROVAL"

\* What a worker changes of them: nothing, or it parks on an approval of its own.
Parks(w) ==
  /\ pc[w] # "idle" => snap[w].status \in {"QUEUED", "RUNNING", "RECOVERY"}
  /\ pc[w] = "open" =>
       /\ view[w].status # "QUEUED"
       /\ view[w].status # "AWAITING_APPROVAL" => view[w].approvals = snap[w].approvals
       /\ view[w].status = "AWAITING_APPROVAL" =>
            \E a \in ApprovalIds :
              /\ db.approvals[a].status = "NONE" /\ view[w].approvals[a].status = "PENDING"
              /\ \A b \in ApprovalIds \ {a} : view[w].approvals[b] = snap[w].approvals[b]

\* An approval row, once there, stays: who has loaded one finds it in the database.
Seen(s) ==
  \A a \in ApprovalIds :
    db.approvals[a].status = "NONE" => snap[s].approvals[a].status = "NONE"

\* An approval unknown to every session that loaded another status than awaiting:
\* whoever decides it has seen the execution wait, and moves it.
Fresh(a) ==
  \A s \in Sessions : pc[s] # "idle" /\ snap[s].status # "AWAITING_APPROVAL" =>
    snap[s].approvals[a].status = "NONE"

PendingInv ==
  /\ \A s \in Sessions : Seen(s)
  /\ \A c \in Clients : pc[c] = "open" => Decides(snap[c], view[c])
  /\ \A w \in Workers : Parks(w)
  /\ db.status = "AWAITING_APPROVAL" => \E a \in ApprovalIds : Pending(db, a) /\ Fresh(a)

LEMMA PendingInit == Init => PendingInv
<1> SUFFICES ASSUME Init PROVE PendingInv
  OBVIOUS
<1>1. /\ db = NewRow /\ NewRow.status = "QUEUED"
      /\ \A s \in Sessions : pc[s] = "idle" /\ snap[s] = NewRow
  BY DEF Init, NewRow
<1> QED BY <1>1 DEF PendingInv, Seen, Parks, Sessions

LEMMA PendingOpens ==
  ASSUME TypeOK, HeldInv, PendingInv, NEW s \in Sessions, Opens(s)
  PROVE  PendingInv'
<1>1. /\ pc'[s] = "loaded" /\ snap'[s] = db /\ db' = db
      /\ \A r \in Sessions \ {s} : pc'[r] = pc[r] /\ view'[r] = view[r] /\ snap'[r] = snap[r]
      /\ s \in Workers => db.status \in {"QUEUED", "RUNNING", "RECOVERY"}
  BY Opened DEF Opens
<1>2. \A r \in Sessions : Seen(r)'
  BY <1>1 DEF PendingInv, Seen
<1>3. \A c \in Clients : pc'[c] = "open" => Decides(snap[c], view[c])'
  BY <1>1 DEF PendingInv, Decides, Sessions
<1>4. \A w \in Workers : Parks(w)'
  BY <1>1 DEF PendingInv, Parks, Sessions
<1>5. db'.status = "AWAITING_APPROVAL" => \E a \in ApprovalIds : Pending(db', a) /\ Fresh(a)'
  <2> HAVE db'.status = "AWAITING_APPROVAL"
  <2>1. PICK a \in ApprovalIds : Pending(db, a) /\ Fresh(a)
    BY <1>1 DEF PendingInv
  <2>2. Fresh(a)'
    BY <1>1, <2>1 DEF Fresh
  <2> QED BY <1>1, <2>1, <2>2
<1> QED BY <1>2, <1>3, <1>4, <1>5 DEF PendingInv

LEMMA PendingWorks ==
  ASSUME TypeOK, HeldInv, PendingInv, NEW s \in Sessions, Works(s)
  PROVE  PendingInv'
<1>1. PICK row, after : /\ Work(s, row, after)
                        /\ s \in Workers => WorkerMakes(s, row, after)
                        /\ s \in Clients => RequestMakes(s, row, after)
  BY DEF Works
<1>2. /\ pc'[s] = after /\ view'[s] = row /\ snap' = snap /\ db' = db
      /\ \A r \in Sessions \ {s} : pc'[r] = pc[r] /\ view'[r] = view[r]
  BY <1>1, Worked
<1>3. /\ view[s] \in Row /\ pc[s] # "idle"
      /\ pc[s] = "loaded" => view[s] = snap[s]
  BY <1>1 DEF TypeOK, HeldInv, WorkerMakes, RequestMakes, Sessions
<1>4. \A r \in Sessions : Seen(r)'
  BY <1>2 DEF PendingInv, Seen
<1>5. \A c \in Clients : pc'[c] = "open" => Decides(snap[c], view[c])'
  <2>1. ASSUME s \in Clients, after = "open" PROVE Decides(snap[s], row)
    <3>1. RequestMakes(s, row, after) /\ view[s] = snap[s]
      BY <1>1, <1>3, <2>1 DEF RequestMakes
    <3>2. row.status = "AWAITING_APPROVAL" => snap[s].status = "AWAITING_APPROVAL"
      BY <3>1 DEF RequestMakes
    <3>3. CASE row.approvals = snap[s].approvals
      BY <3>2, <3>3 DEF Decides
    <3>4. ASSUME NEW a \in ApprovalIds, NEW verdict \in ApprovalStatus \ {"NONE"},
                 snap[s].approvals[a].status = "PENDING",
                 row.approvals = [snap[s].approvals EXCEPT ![a].status = verdict],
                 row.status # "AWAITING_APPROVAL"
          PROVE  Decides(snap[s], row)
      <4>1. snap[s].approvals \in [ApprovalIds -> ApprovalRow]
        BY DEF TypeOK, Row
      <4>2. /\ row.approvals[a].status # "NONE"
            /\ \A b \in ApprovalIds \ {a} : row.approvals[b] = snap[s].approvals[b]
        BY <3>4, <4>1 DEF ApprovalRow
      <4> QED BY <3>4, <4>2 DEF Decides
    <3> QED BY <2>1, <3>1, <3>3, <3>4 DEF RequestMakes
  <2>2. ASSUME NEW c \in Clients, pc'[c] = "open" PROVE Decides(snap[c], view[c])'
    <3>1. CASE c = s
      BY <1>2, <2>1, <2>2, <3>1 DEF Decides
    <3>2. CASE c # s
      <4>1. c \in Sessions /\ pc[c] = "open" /\ view'[c] = view[c] /\ snap'[c] = snap[c]
        BY <1>2, <2>2, <3>2 DEF Sessions
      <4>2. Decides(snap[c], view[c])
        BY <4>1 DEF PendingInv
      <4> QED BY <4>1, <4>2 DEF Decides
    <3> QED BY <3>1, <3>2
  <2> QED BY <2>2
<1>6. \A w \in Workers : Parks(w)'
  <2>1. ASSUME s \in Workers PROVE Parks(s)'
    <3>1. WorkerMakes(s, row, after) /\ Parks(s)
      BY <1>1, <2>1 DEF PendingInv
    <3>2. view[s].approvals = snap[s].approvals
      <4>1. view[s].status # "AWAITING_APPROVAL" /\ pc[s] \in {"loaded", "open"}
        BY <3>1 DEF WorkerMakes
      <4> QED BY <1>3, <3>1, <4>1 DEF Parks
    <3>3. row.status # "QUEUED"
      BY <3>1 DEF WorkerMakes
    <3>4. CASE row.status # "AWAITING_APPROVAL"
      <4>1. row.approvals = snap[s].approvals
        BY <3>1, <3>2, <3>4 DEF WorkerMakes
      <4> QED BY <1>2, <1>3, <3>1, <3>3, <3>4, <4>1 DEF Parks
    <3>5. CASE row.status = "AWAITING_APPROVAL"
      <4>1. PICK a \in ApprovalIds, t \in Steps :
              /\ db.approvals[a] = NoApproval
              /\ row.approvals = [snap[s].approvals EXCEPT ![a] = [step |-> t, status |-> "PENDING"]]
        BY <3>1, <3>2, <3>5 DEF WorkerMakes
      <4>2. snap[s].approvals \in [ApprovalIds -> ApprovalRow]
        BY DEF TypeOK, Row
      <4>3. /\ db.approvals[a].status = "NONE" /\ row.approvals[a].status = "PENDING"
            /\ \A b \in ApprovalIds \ {a} : row.approvals[b] = snap[s].approvals[b]
        BY <4>1, <4>2 DEF NoApproval
      <4> QED BY <1>2, <1>3, <3>1, <3>3, <3>5, <4>3 DEF Parks
    <3> QED BY <3>4, <3>5
  <2>2. ASSUME NEW w \in Workers PROVE Parks(w)'
    <3>1. CASE w = s
      BY <2>1, <3>1
    <3>2. CASE w # s
      <4>1. pc'[w] = pc[w] /\ view'[w] = view[w] /\ snap'[w] = snap[w] /\ db' = db
        BY <1>2, <3>2 DEF Sessions
      <4>2. Parks(w)
        BY DEF PendingInv
      <4> QED BY <4>1, <4>2 DEF Parks
    <3> QED BY <3>1, <3>2
  <2> QED BY <2>2
<1>7. db'.status = "AWAITING_APPROVAL" => \E a \in ApprovalIds : Pending(db', a) /\ Fresh(a)'
  <2> HAVE db'.status = "AWAITING_APPROVAL"
  <2>1. PICK a \in ApprovalIds : Pending(db, a) /\ Fresh(a)
    BY <1>2 DEF PendingInv
  <2>2. Fresh(a)'
    BY <1>2, <1>3, <2>1 DEF Fresh
  <2> QED BY <1>2, <2>1, <2>2
<1> QED BY <1>4, <1>5, <1>6, <1>7 DEF PendingInv

LEMMA PendingEnds ==
  ASSUME TypeOK, HeldInv, PendingInv, NEW s \in Sessions, Ends(s)
  PROVE  PendingInv'
<1>1. /\ pc'[s] = "idle" /\ snap'[s] = NewRow /\ db' = db
      /\ \A r \in Sessions \ {s} : pc'[r] = pc[r] /\ view'[r] = view[r] /\ snap'[r] = snap[r]
  BY Ended DEF Ends
<1>2. \A a \in ApprovalIds : NewRow.approvals[a].status = "NONE"
  BY DEF NewRow, NoApproval
<1>3. \A r \in Sessions : Seen(r)'
  BY <1>1, <1>2 DEF PendingInv, Seen
<1>4. \A c \in Clients : pc'[c] = "open" => Decides(snap[c], view[c])'
  BY <1>1 DEF PendingInv, Decides, Sessions
<1>5. \A w \in Workers : Parks(w)'
  BY <1>1 DEF PendingInv, Parks, Sessions
<1>6. db'.status = "AWAITING_APPROVAL" => \E a \in ApprovalIds : Pending(db', a) /\ Fresh(a)'
  <2> HAVE db'.status = "AWAITING_APPROVAL"
  <2>1. PICK a \in ApprovalIds : Pending(db, a) /\ Fresh(a)
    BY <1>1 DEF PendingInv
  <2>2. Fresh(a)'
    BY <1>1, <2>1 DEF Fresh
  <2> QED BY <1>1, <2>1, <2>2
<1> QED BY <1>3, <1>4, <1>5, <1>6 DEF PendingInv

LEMMA PendingCommits ==
  ASSUME TypeOK, HeldInv, PendingInv, NEW s \in Sessions, Commits(s)
  PROVE  PendingInv'
<1> DEFINE l == snap[s]
           m == view[s]
<1>1. /\ pc'[s] = "idle" /\ snap'[s] = NewRow /\ pc[s] = "open"
      /\ \A r \in Sessions \ {s} : pc'[r] = pc[r] /\ view'[r] = view[r] /\ snap'[r] = snap[r]
  BY Ended DEF Commits, CommitRows
<1>2. /\ db'.status = IF m.status = l.status THEN db.status ELSE m.status
      /\ \A a \in ApprovalIds :
           db'.approvals[a] = IF m.approvals[a] = l.approvals[a] THEN db.approvals[a]
                                                                 ELSE m.approvals[a]
  BY DEF Commits, CommitRows, Flush, Written
<1>3. \A r \in Sessions \ {s} : pc[r] \notin {"open", "doomed"}
  BY <1>1, OnlyOneHolds
<1>4. \A a \in ApprovalIds : NewRow.approvals[a].status = "NONE"
  BY DEF NewRow, NoApproval
<1>5. /\ s \in Clients => Decides(l, m)
      /\ s \in Workers => Parks(s) /\ m.status \notin {"QUEUED", "RUNNING", "RECOVERY"}
  BY <1>1 DEF PendingInv, Commits, Parks, Advanceable
<1>6. \A a \in ApprovalIds : m.approvals[a] # l.approvals[a] => m.approvals[a].status # "NONE"
  <2>1. CASE s \in Clients
    BY <1>5, <2>1 DEF Decides
  <2>2. CASE s \in Workers
    BY <1>1, <1>5, <2>2 DEF Parks
  <2> QED BY <2>1, <2>2 DEF Sessions
<1> HIDE DEF l, m
<1>7. \A r \in Sessions : Seen(r)'
  BY <1>1, <1>2, <1>4, <1>6 DEF PendingInv, Seen
<1>8. \A c \in Clients : pc'[c] = "open" => Decides(snap[c], view[c])'
  BY <1>1, <1>3 DEF Sessions
<1>9. \A w \in Workers : Parks(w)'
  BY <1>1, <1>3 DEF PendingInv, Parks, Sessions
<1>10. ASSUME NEW a \in ApprovalIds, \A r \in Sessions \ {s} :
                 pc[r] # "idle" /\ snap[r].status # "AWAITING_APPROVAL" =>
                   snap[r].approvals[a].status = "NONE"
       PROVE  Fresh(a)'
  BY <1>1, <1>10 DEF Fresh
<1>11. db'.status = "AWAITING_APPROVAL" => \E a \in ApprovalIds : Pending(db', a) /\ Fresh(a)'
  <2> HAVE db'.status = "AWAITING_APPROVAL"
  <2>1. CASE m.status # l.status
    <3>1. m.status = "AWAITING_APPROVAL" /\ l.status # "AWAITING_APPROVAL"
      BY <1>2, <2>1
    <3>2. s \in Workers
      BY <1>5, <3>1 DEF Decides, Sessions
    <3>3. PICK a \in ApprovalIds :
            db.approvals[a].status = "NONE" /\ m.approvals[a].status = "PENDING"
      BY <1>1, <1>5, <3>1, <3>2 DEF Parks, m
    <3>4. \A r \in Sessions : snap[r].approvals[a].status = "NONE"
      BY <3>3 DEF PendingInv, Seen
    <3>5. Pending(db', a)
      BY <1>2, <3>3, <3>4 DEF Pending, l
    <3> QED BY <1>10, <3>4, <3>5
  <2>2. CASE m.status = l.status
    <3>1. PICK a \in ApprovalIds : Pending(db, a) /\ Fresh(a)
      BY <1>2, <2>2 DEF PendingInv
    <3>2. s \in Clients
      BY <1>1, <1>5, <2>2 DEF Parks, Sessions, l
    <3>3. m.approvals[a] = l.approvals[a]
      BY <1>1, <1>5, <2>2, <3>1, <3>2 DEF Decides, Fresh, l
    <3> QED BY <1>2, <1>10, <3>1, <3>3 DEF Pending, Fresh
  <2> QED BY <2>1, <2>2
<1> QED BY <1>7, <1>8, <1>9, <1>11 DEF PendingInv

\* Whatever workers, decisions, pauses, resumes, crashes and redeliveries overlap,
\* an execution in AWAITING_APPROVAL has an approval that is still pending
\* (approval_service): the approval it parked on is known only to those who saw
\* it wait, and they move it when they decide.
THEOREM SomeoneCanDecide == Spec => []AwaitingHasPending
<1>1. TypeOK /\ GrantInv /\ HeldInv /\ PendingInv /\ [Next]_vars => PendingInv'
  <2> SUFFICES ASSUME TypeOK, GrantInv, HeldInv, PendingInv, [Next]_vars PROVE PendingInv'
    OBVIOUS
  <2>1. CASE Rests
    BY <2>1 DEF Rests, PendingInv, Seen, Decides, Parks, Fresh, Pending
  <2> QED BY <2>1, StepShapes, PendingOpens, PendingWorks, PendingCommits, PendingEnds
<1>2. TypeOK /\ GrantInv /\ HeldInv /\ [Next]_vars => HeldInv'
  BY HeldStep
<1>3. PendingInv => AwaitingHasPending
  BY DEF PendingInv, AwaitingHasPending
<1> QED BY <1>1, <1>2, <1>3, HeldInit, PendingInit, GrantInit, GrantStep, TypeCorrect, PTL DEF Spec

-----------------------------------------------------------------------------
(* A planner that comes too late changes nothing.                          *)

\* Whoever leaves QUEUED behind counts the version up, once.
Versioned(r) == r.version = IF r.status = "QUEUED" THEN 0 ELSE 1

PlanInv ==
  /\ Versioned(db)
  /\ \A s \in Sessions : /\ Versioned(snap[s]) /\ Versioned(view[s])
                         /\ snap[s].version <= db.version
                         /\ view[s].status = "QUEUED" => snap[s].status = "QUEUED"
  /\ \A c \in Clients : pc[c] = "loaded" /\ job[c] \in {"pause", "unpause"} =>
                           snap[c].status # "QUEUED"
  /\ \A w \in Workers : pc[w] = "open" => snap[w].version = db.version

LEMMA FreshVersion == Versioned(NewRow) /\ NewRow.version = 0 /\ NewRow.status = "QUEUED"
  BY DEF Versioned, NewRow

LEMMA PlanStepInv ==
  ASSUME PlanOutcomes \subseteq {"valid"}, TypeOK, GrantInv, HeldInv, PlanInv, [Next]_vars
  PROVE  PlanInv'
<1>0. /\ \A s \in Sessions : /\ Versioned(snap[s]) /\ Versioned(view[s])
                             /\ snap[s].version <= db.version
                             /\ view[s].status = "QUEUED" => snap[s].status = "QUEUED"
      /\ Versioned(db)
  BY DEF PlanInv
<1>1. CASE Rests
  BY <1>1 DEF Rests, PlanInv, Versioned
<1>2. ASSUME NEW s \in Sessions, Opens(s) PROVE PlanInv'
  <2>0. PICK kind \in JobKinds :
          /\ \E a : Load(s, kind, a) /\ db' = db
          /\ kind \in {"pause", "unpause"} => db.status # "QUEUED"
    BY <1>2 DEF Opens
  <2>1. PICK a : Load(s, kind, a) /\ db' = db
    BY <2>0
  <2>2. /\ pc'[s] = "loaded" /\ job'[s] = kind /\ view'[s] = db /\ snap'[s] = db
        /\ \A r \in Sessions \ {s} : /\ pc'[r] = pc[r] /\ job'[r] = job[r]
                                     /\ view'[r] = view[r] /\ snap'[r] = snap[r]
    BY <2>1, Opened
  <2> QED BY <1>0, <2>0, <2>1, <2>2 DEF PlanInv, Versioned, Sessions
<1>3. ASSUME NEW s \in Sessions, Works(s) PROVE PlanInv'
  <2>1. PICK row, after : /\ Work(s, row, after)
                          /\ s \in Workers => WorkerMakes(s, row, after)
                          /\ s \in Clients => RequestMakes(s, row, after)
    BY <1>3 DEF Works
  <2>2. /\ pc'[s] = after /\ view'[s] = row /\ snap' = snap /\ db' = db /\ job' = job
        /\ \A r \in Sessions \ {s} : pc'[r] = pc[r] /\ view'[r] = view[r]
    BY <2>1, Worked
  <2>3. pc[s] = "loaded" => view[s] = snap[s]
    BY DEF HeldInv
  <2>4. /\ Versioned(row) /\ (row.status = "QUEUED" => snap[s].status = "QUEUED")
        /\ s \in Workers /\ after = "open" => snap[s].version = db.version
    <3>1. CASE s \in Workers
      <4>1. WorkerMakes(s, row, after)
        BY <2>1, <3>1
      <4>2. /\ row.status # "QUEUED" /\ pc[s] \in {"loaded", "open"}
            /\ IF view[s].status = "QUEUED"
                 THEN row.version = view[s].version + 1
                      /\ (after = "open" => view[s].version = db.version)
                 ELSE row.version = view[s].version
        BY <4>1 DEF WorkerMakes
      <4>3. Versioned(row)
        BY <1>0, <4>2 DEF Versioned
      <4>4. ASSUME after = "open" PROVE snap[s].version = db.version
        <5>1. CASE pc[s] = "open"
          BY <3>1, <5>1 DEF PlanInv
        <5>2. CASE pc[s] = "loaded"
          BY <1>0, <2>3, <4>2, <4>4, <5>2 DEF Versioned
        <5> QED BY <4>2, <5>1, <5>2
      <4> QED BY <4>2, <4>3, <4>4
    <3>2. CASE s \in Clients
      <4>1. RequestMakes(s, row, after) /\ s \notin Workers
        BY <2>1, <3>2, SessionsAssumption
      <4>2. /\ row.version = view[s].version /\ view[s] = snap[s] /\ pc[s] = "loaded"
            /\ \/ row.status = view[s].status
               \/ /\ row.status \in {"RUNNING", "BLOCKED"}
                  /\ view[s].status = "AWAITING_APPROVAL" \/ job[s] \in {"pause", "unpause"}
        BY <2>3, <4>1 DEF RequestMakes
      <4> QED BY <1>0, <3>2, <4>1, <4>2 DEF Versioned, PlanInv
    <3> QED BY <3>1, <3>2 DEF Sessions
  <2>5. s \in Clients => after # "loaded"
    BY <2>1 DEF RequestMakes
  <2> QED BY <1>0, <2>2, <2>4, <2>5 DEF PlanInv, Versioned, Sessions
<1>4. ASSUME NEW s \in Sessions, Commits(s) PROVE PlanInv'
  <2> DEFINE l == snap[s]
             m == view[s]
  <2>1. /\ pc'[s] = "idle" /\ snap'[s] = NewRow /\ view'[s] = NewRow /\ pc[s] = "open"
        /\ \A r \in Sessions \ {s} : /\ pc'[r] = pc[r] /\ job'[r] = job[r]
                                     /\ view'[r] = view[r] /\ snap'[r] = snap[r]
    BY <1>4, Ended DEF Commits, CommitRows
  <2>2. /\ db'.status = IF m.status = l.status THEN db.status ELSE m.status
        /\ db'.version = IF m.version = l.version THEN db.version ELSE m.version
    BY <1>4 DEF Commits, CommitRows, Flush, Written
  <2>3. \A r \in Sessions \ {s} : pc[r] # "open"
    BY <2>1, OnlyOneHolds
  <2>4. /\ Versioned(l) /\ Versioned(m) /\ l.version <= db.version
        /\ m.status = "QUEUED" => l.status = "QUEUED"
    BY <1>0
  <2> HIDE DEF l, m
  <2>5. Versioned(db') /\ db.version <= db'.version
    BY <1>0, <2>2, <2>4 DEF Versioned
  <2>6. \A r \in Sessions : /\ Versioned(snap'[r]) /\ Versioned(view'[r])
                            /\ snap'[r].version <= db'.version
                            /\ view'[r].status = "QUEUED" => snap'[r].status = "QUEUED"
    BY <1>0, <2>1, <2>5, FreshVersion DEF Versioned
  <2> QED BY <2>1, <2>3, <2>5, <2>6 DEF PlanInv, Sessions
<1>5. ASSUME NEW s \in Sessions, Ends(s) PROVE PlanInv'
  <2>1. /\ pc'[s] = "idle" /\ snap'[s] = NewRow /\ view'[s] = NewRow /\ db' = db
        /\ \A r \in Sessions \ {s} : /\ pc'[r] = pc[r] /\ job'[r] = job[r]
                                     /\ view'[r] = view[r] /\ snap'[r] = snap[r]
    BY <1>5, Ended DEF Ends
  <2> QED BY <1>0, <2>1, FreshVersion DEF PlanInv, Versioned, Sessions
<1> QED BY <1>1, <1>2, <1>3, <1>4, <1>5, StepShapes

\* "A redelivered plan job for an already-advanced execution is a safe no-op"
\* (run_planning), for every number of workers and redeliveries, as long as the
\* planner gets a valid plan: a worker that commits holds the version it loaded.
THEOREM LatePlansAreNoOps ==
  ASSUME PlanOutcomes \subseteq {"valid"}
  PROVE  Spec => LatePlanIsNoOp
<1>1. Init => PlanInv
  <2> SUFFICES ASSUME Init PROVE PlanInv
    OBVIOUS
  <2>1. db = NewRow /\ \A s \in Sessions : pc[s] = "idle" /\ snap[s] = NewRow /\ view[s] = NewRow
    BY DEF Init
  <2> QED BY <2>1, FreshVersion DEF PlanInv, Versioned, Sessions
<1>2. TypeOK /\ GrantInv /\ HeldInv /\ PlanInv /\ [Next]_vars => PlanInv'
  BY PlanStepInv
<1>3. TypeOK /\ GrantInv /\ HeldInv /\ [Next]_vars => HeldInv'
  BY HeldStep
<1>4. ASSUME TypeOK, GrantInv, HeldInv, PlanInv, [Next]_vars, NEW w \in Workers,
             job[w] = "plan", pc'[w] = "idle", snap[w].version < db.version
      PROVE  db' = db
  <2>1. w \in Sessions /\ pc[w] # "idle"
    BY <1>4 DEF HeldInv, Sessions
  <2>2. ASSUME NEW s \in Sessions, Commits(s) PROVE FALSE
    <3>1. pc[s] = "open" /\ \A r \in Sessions \ {s} : pc'[r] = pc[r]
      BY <1>4, <2>2, Ended DEF Commits, CommitRows
    <3>2. s = w
      BY <1>4, <2>1, <3>1
    <3>3. snap[w].version = db.version /\ db.version \in {0, 1}
      BY <1>4, <3>1, <3>2 DEF PlanInv, Versioned
    <3> QED BY <1>4, <3>3
  <2>3. ASSUME NEW s \in Sessions, Opens(s) \/ Works(s) \/ Ends(s) PROVE db' = db
    BY <2>3 DEF Opens, Works, Work, Ends
  <2> QED BY <1>4, <2>2, <2>3, StepShapes DEF Rests
<1>5. TypeOK /\ GrantInv /\ HeldInv /\ PlanInv /\ [Next]_vars =>
        [\A w \in Workers :
           (job[w] = "plan" /\ pc'[w] = "idle" /\ snap[w].version < db.version) => db' = db]_vars
  BY <1>4
<1> QED BY <1>1, <1>2, <1>3, <1>5, HeldInit, GrantInit, GrantStep, TypeCorrect, PTL
        DEF Spec, LatePlanIsNoOp

-----------------------------------------------------------------------------
(* One worker that never dies sends once.                                  *)

\* A send that was made is committed, or about to be by the worker that made it.
SendInv ==
  \A t \in GatedSteps :
    /\ sent[t] <= 1 /\ ~db.steps[t].forceFail
    /\ \A s \in Sessions :
         /\ ~view[s].steps[t].forceFail
         /\ pc[s] # "idle" /\ view[s].steps[t].status = "WAITING" =>
              snap[s].steps[t].status = "WAITING"
    /\ sent[t] > 0 =>
         /\ \/ db.steps[t].status # "WAITING"
            \/ \E w \in Workers : pc[w] = "open" /\ snap[w].steps[t].status = "WAITING"
         /\ \A w \in Workers : pc[w] # "idle" => view[w].steps[t].status # "WAITING"

LEMMA FreshGated == \A t \in GatedSteps : ~NewRow.steps[t].forceFail
  BY PlanAssumption DEF NewRow

LEMMA SendStep ==
  ASSUME \A v, w \in Workers : v = w, \A s, t \in GatedSteps : s = t, MaxCrashes = 0,
         TypeOK, GrantInv, HeldInv, SendInv, [Next]_vars
  PROVE  SendInv'
<1>0. \A t \in GatedSteps : t \in Steps /\ sent[t] \in Nat
  BY PlanAssumption DEF TypeOK
<1>1. CASE Rests
  BY <1>1 DEF Rests, SendInv
<1>2. ASSUME NEW s \in Sessions, Opens(s) PROVE SendInv'
  <2>1. /\ pc[s] = "idle" /\ db' = db /\ sent' = sent
        /\ pc'[s] = "loaded" /\ view'[s] = db /\ snap'[s] = db
        /\ \A r \in Sessions \ {s} : /\ pc'[r] = pc[r]
                                     /\ view'[r] = view[r] /\ snap'[r] = snap[r]
    BY <1>2, Opened DEF Opens
  <2> SUFFICES ASSUME NEW t \in GatedSteps
               PROVE  /\ \A r \in Sessions :
                           /\ ~view'[r].steps[t].forceFail
                           /\ pc'[r] # "idle" /\ view'[r].steps[t].status = "WAITING" =>
                                snap'[r].steps[t].status = "WAITING"
                      /\ sent[t] > 0 =>
                           /\ \/ db.steps[t].status # "WAITING"
                              \/ \E w \in Workers : pc'[w] = "open"
                                                    /\ snap'[w].steps[t].status = "WAITING"
                           /\ \A w \in Workers : pc'[w] # "idle" =>
                                view'[w].steps[t].status # "WAITING"
    BY <2>1 DEF SendInv
  <2>2. \A r \in Sessions :
          /\ ~view'[r].steps[t].forceFail
          /\ pc'[r] # "idle" /\ view'[r].steps[t].status = "WAITING" =>
               snap'[r].steps[t].status = "WAITING"
    BY <2>1 DEF SendInv
  <2>3. ASSUME sent[t] > 0
        PROVE  /\ \/ db.steps[t].status # "WAITING"
                  \/ \E w \in Workers : pc'[w] = "open" /\ snap'[w].steps[t].status = "WAITING"
               /\ \A w \in Workers : pc'[w] # "idle" => view'[w].steps[t].status # "WAITING"
    <3>1. CASE s \in Workers
      <4>1. db.steps[t].status # "WAITING"
        BY <2>1, <2>3, <3>1 DEF SendInv
      <4> QED BY <2>1, <3>1, <4>1
    <3>2. CASE s \notin Workers
      BY <2>1, <2>3, <3>2 DEF SendInv, Sessions
    <3> QED BY <3>1, <3>2
  <2> QED BY <2>2, <2>3
<1>3. ASSUME NEW s \in Sessions, Works(s) PROVE SendInv'
  <2>1. PICK row, after : /\ Work(s, row, after)
                          /\ s \in Workers => WorkerMakes(s, row, after)
                          /\ s \in Clients => RequestMakes(s, row, after)
    BY <1>3 DEF Works
  <2>2. /\ pc'[s] = after /\ view'[s] = row /\ snap' = snap /\ db' = db
        /\ \A r \in Sessions \ {s} : pc'[r] = pc[r] /\ view'[r] = view[r]
    BY <2>1, Worked
  <2>3. pc[s] \in {"loaded", "open"} /\ after \in {"open", "doomed"}
    BY <2>1 DEF WorkerMakes, RequestMakes, Sessions
  <2> DEFINE mine == view[s]
  <2>4. SUFFICES ASSUME NEW t \in GatedSteps
        PROVE  /\ sent'[t] <= 1 /\ ~row.steps[t].forceFail
               /\ row.steps[t].status = "WAITING" => snap[s].steps[t].status = "WAITING"
               /\ sent'[t] > 0 =>
                    /\ \/ db.steps[t].status # "WAITING"
                       \/ \E w \in Workers : pc'[w] = "open" /\ snap[w].steps[t].status = "WAITING"
                    /\ \A w \in Workers : pc'[w] # "idle" => view'[w].steps[t].status # "WAITING"
    BY <2>2 DEF SendInv
  <2>5. /\ sent[t] \in {0, 1} /\ ~mine.steps[t].forceFail /\ t \in Steps
        /\ mine.steps[t].status = "WAITING" => snap[s].steps[t].status = "WAITING"
        /\ sent[t] > 0 =>
             /\ \/ db.steps[t].status # "WAITING"
                \/ \E w \in Workers : pc[w] = "open" /\ snap[w].steps[t].status = "WAITING"
             /\ \A w \in Workers : pc[w] # "idle" => view[w].steps[t].status # "WAITING"
    BY <1>0, <2>3 DEF SendInv
  <2>6. CASE s \in Workers
    <3>1. WorkerMakes(s, row, after)
      BY <2>1, <2>6
    <3>2. Gated(t, mine, row, after)
      BY <3>1 DEF WorkerMakes
    <3>3. CASE sent'[t] = sent[t] + 1
      <4>1. /\ mine.steps[t].status = "WAITING" /\ after = "open"
            /\ row.steps[t] = AfterRun(mine.steps[t])
        BY <2>5, <3>2, <3>3 DEF Gated
      <4>2. row.steps[t].status = "COMPLETE" /\ ~row.steps[t].forceFail
        BY <2>5, <4>1 DEF AfterRun
      <4>3. sent[t] = 0
        BY <2>3, <2>5, <2>6, <4>1
      <4> QED BY <2>2, <2>5, <2>6, <3>3, <4>1, <4>2, <4>3
    <3>4. CASE sent'[t] # sent[t] + 1
      <4>1. /\ sent'[t] = sent[t] /\ row.steps[t].forceFail = mine.steps[t].forceFail
            /\ row.steps[t].status = "WAITING" => mine.steps[t].status = "WAITING"
        BY <3>2, <3>4 DEF Gated
      <4>2. ASSUME sent[t] > 0
            PROVE  /\ \/ db.steps[t].status # "WAITING"
                      \/ \E w \in Workers : pc'[w] = "open" /\ snap[w].steps[t].status = "WAITING"
                   /\ \A w \in Workers : pc'[w] # "idle" => view'[w].steps[t].status # "WAITING"
        <5>1. mine.steps[t].status # "WAITING"
          BY <2>3, <2>5, <2>6, <4>2
        <5>2. \A w \in Workers : view'[w].steps[t].status # "WAITING"
          BY <2>2, <2>6, <4>1, <5>1
        <5>3. after = "doomed" => pc[s] = "loaded"
          BY <3>1, <5>1 DEF WorkerMakes
        <5>4. CASE db.steps[t].status # "WAITING"
          BY <5>2, <5>4
        <5>5. CASE \E w \in Workers : pc[w] = "open" /\ snap[w].steps[t].status = "WAITING"
          <6>1. pc[s] = "open" /\ snap[s].steps[t].status = "WAITING"
            BY <2>6, <5>5
          <6>2. pc'[s] = "open"
            BY <2>2, <2>3, <5>3, <6>1
          <6> QED BY <2>6, <5>2, <6>1, <6>2
        <5> QED BY <2>5, <4>2, <5>4, <5>5
      <4> QED BY <2>5, <4>1, <4>2
    <3> QED BY <3>3, <3>4
  <2>7. CASE s \in Clients
    <3>1. s \notin Workers /\ RequestMakes(s, row, after)
      BY <2>1, <2>7, SessionsAssumption
    <3>2. /\ sent' = sent /\ row.steps[t].forceFail = mine.steps[t].forceFail
          /\ row.steps[t].status \in {"COMPLETE", mine.steps[t].status}
      BY <2>5, <3>1 DEF RequestMakes
    <3>3. \A w \in Workers : pc'[w] = pc[w] /\ view'[w] = view[w]
      BY <2>2, <3>1 DEF Sessions
    <3> QED BY <2>5, <3>2, <3>3
  <2> QED BY <2>6, <2>7 DEF Sessions
<1>4. ASSUME NEW s \in Sessions, Commits(s) PROVE SendInv'
  <2> DEFINE l == snap[s]
             m == view[s]
  <2>1. /\ pc'[s] = "idle" /\ view'[s] = NewRow /\ pc[s] = "open" /\ sent' = sent
        /\ \A r \in Sessions \ {s} : /\ pc'[r] = pc[r]
                                     /\ view'[r] = view[r] /\ snap'[r] = snap[r]
    BY <1>4, Ended DEF Commits, CommitRows
  <2>2. \A t \in Steps :
          /\ db'.steps[t].status = IF m.steps[t].status = l.steps[t].status
                                    THEN db.steps[t].status ELSE m.steps[t].status
          /\ db'.steps[t].forceFail = IF m.steps[t].forceFail = l.steps[t].forceFail
                                       THEN db.steps[t].forceFail ELSE m.steps[t].forceFail
    BY <1>4 DEF Commits, CommitRows, Flush, Written
  <2>3. \A r \in Sessions \ {s} : pc[r] # "open"
    BY <2>1, OnlyOneHolds
  <2>4. SUFFICES ASSUME NEW t \in GatedSteps
        PROVE  /\ ~db'.steps[t].forceFail
               /\ sent[t] > 0 => db'.steps[t].status # "WAITING"
    BY <2>1, FreshGated DEF SendInv, Sessions
  <2>5. ~db'.steps[t].forceFail
    BY <1>0, <2>2 DEF SendInv
  <2>6. ASSUME sent[t] > 0 PROVE db'.steps[t].status # "WAITING"
    <3>1. m.steps[t].status = "WAITING" => l.steps[t].status = "WAITING"
      BY <2>1 DEF SendInv
    <3>2. \/ db.steps[t].status # "WAITING"
          \/ s \in Workers /\ l.steps[t].status = "WAITING"
      BY <2>3, <2>6 DEF SendInv, Sessions
    <3>3. s \in Workers => m.steps[t].status # "WAITING"
      BY <2>1, <2>6 DEF SendInv
    <3> HIDE DEF l, m
    <3> QED BY <1>0, <2>2, <3>1, <3>2, <3>3
  <2> QED BY <2>5, <2>6
<1>5. ASSUME NEW s \in Sessions, Ends(s) PROVE SendInv'
  <2>1. /\ pc[s] = "doomed" /\ pc'[s] = "idle" /\ view'[s] = NewRow /\ db' = db /\ sent' = sent
        /\ \A r \in Sessions \ {s} : /\ pc'[r] = pc[r]
                                     /\ view'[r] = view[r] /\ snap'[r] = snap[r]
    BY <1>5, Ended DEF Ends
  <2>2. \A w \in Workers : pc[w] = "open" => w # s /\ pc'[w] = pc[w] /\ snap'[w] = snap[w]
    BY <2>1 DEF Sessions
  <2> QED BY <2>1, <2>2, FreshGated DEF SendInv, Sessions
<1> QED BY <1>1, <1>2, <1>3, <1>4, <1>5, StepShapes

\* With one worker that does not die, whatever is delivered twice and whatever
\* users decide meanwhile, the external send of a plan is made at most once
\* (execution_worker: "continues safely rather than replaying committed side
\* effects").  Each hypothesis is needed: a second worker or a crash sends again,
\* and so does a plan with two sends when the second one's approval is ambiguous,
\* which rolls back the record of the first.
THEOREM OneWorkerSendsOnce ==
  ASSUME \A v, w \in Workers : v = w, \A s, t \in GatedSteps : s = t, MaxCrashes = 0
  PROVE  Spec => []SendsOnce
<1>1. Init => SendInv
  BY FreshGated DEF Init, SendInv
<1>2. TypeOK /\ GrantInv /\ HeldInv /\ SendInv /\ [Next]_vars => SendInv'
  BY SendStep
<1>3. TypeOK /\ GrantInv /\ HeldInv /\ [Next]_vars => HeldInv'
  BY HeldStep
<1>4. SendInv => SendsOnce
  BY DEF SendInv, SendsOnce
<1> QED BY <1>1, <1>2, <1>3, <1>4, HeldInit, GrantInit, GrantStep, TypeCorrect, PTL DEF Spec

=============================================================================
