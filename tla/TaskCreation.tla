------------------------------ MODULE TaskCreation ------------------------------
(***************************************************************************)
(* POST /tasks (api/v1/tasks, repositories/idempotency, services/          *)
(* task_service): concurrent requests, some of them retries of each other, *)
(* create a task and its execution, remember the answer under the caller's *)
(* Idempotency-Key, and hand a planning job to the queue.                  *)
(*                                                                         *)
(* The transaction is committed by the exit of a yield dependency, the job *)
(* is enqueued by a background task, and the framework orders the two:     *)
(* FastAPI up to 0.117 commits before it answers, from 0.118 on after the  *)
(* answer and the background tasks.  The project asks for 0.115 or later,  *)
(* so a behaviour has either order.                                        *)
(*                                                                         *)
(* A task is named by the request that created it.  A key stands for the   *)
(* principal, the route and the Idempotency-Key header together.  An       *)
(* operator that comes right before another one and lengthens its name is  *)
(* a seeded fault.                                                         *)
(***************************************************************************)
EXTENDS Naturals, Sequences, FiniteSets

CONSTANTS
  Requests,   \* the POSTs, retries included
  Keys,       \* idempotency keys
  NoKey,      \* the header is missing
  NoTask,     \* no task
  KeyOf,      \* KeyOf[r]: the key r carries, or NoKey
  BodyOf,     \* BodyOf[r]: what r's request_hash tells apart
  MaxCrashes  \* bound: requests whose process dies

ASSUME CreationAssumption ==
  /\ NoKey \notin Keys
  /\ NoTask \notin Requests
  /\ {"conflict", "error"} \cap Requests = {}
  /\ NoTask \notin {"conflict", "error"}
  /\ KeyOf \in [Requests -> Keys \cup {NoKey}]
  /\ DOMAIN BodyOf = Requests
  /\ MaxCrashes \in Nat

VARIABLES
  tasks,    \* committed tasks with their executions
  keys,     \* keys[k]: the task in the committed record of k, or NoTask
  pc,       \* where each request is
  answer,   \* what each request was answered
  late,     \* the framework commits after the background task
  queue,    \* planning jobs
  enqueued, \* history: jobs ever enqueued for each task
  planned,  \* tasks a worker has planned
  dropped,  \* jobs a worker took before their task was committed
  crashes   \* processes that died, for the bound

jobVars == <<queue, enqueued, planned, dropped>>
vars == <<tasks, keys, pc, answer, late, jobVars, crashes>>

Keyed(r) == KeyOf[r] # NoKey

Go(r, to) == pc' = [pc EXCEPT ![r] = to]
Reply(r, a) == answer' = [answer EXCEPT ![r] = a]

\* enqueue_planning.
Hand(t) ==
  /\ queue' = Append(queue, t)
  /\ enqueued' = [enqueued EXCEPT ![t] = @ + 1]

\* get_key: an answer that was stored is given again, to the same body only.
SameBodyAssumed(r, t) == TRUE
SameBody(r, t) == BodyOf[r] = BodyOf[t]

Found(r) == pc[r] = "new" /\ Keyed(r) /\ keys[KeyOf[r]] # NoTask

Replay(r) ==
  /\ Found(r)
  /\ SameBody(r, keys[KeyOf[r]])
  /\ Go(r, "done")
  /\ Reply(r, keys[KeyOf[r]])
  /\ UNCHANGED <<tasks, keys, late, jobVars, crashes>>

Conflict(r) ==
  /\ Found(r)
  /\ ~SameBody(r, keys[KeyOf[r]])
  /\ Go(r, "done")
  /\ Reply(r, "conflict")
  /\ UNCHANGED <<tasks, keys, late, jobVars, crashes>>

Miss(r) ==
  /\ pc[r] = "new"
  /\ Keyed(r) => keys[KeyOf[r]] = NoTask
  /\ Go(r, "missed")
  /\ UNCHANGED <<tasks, keys, answer, late, jobVars, crashes>>

\* A request that created a task and has not committed it yet.
Uncommitted(r) == pc[r] = "open" \/ (late /\ pc[r] \in {"background", "handed"})

\* store_key flushes into the unique index uq_idem: it waits while another
\* transaction has inserted the same key and not ended.
Waits(r) == \E q \in Requests \ {r} : Keyed(r) /\ Uncommitted(q) /\ KeyOf[q] = KeyOf[r]

UniqueUnchecked(r) == TRUE
Unique(r) == Keyed(r) => keys[KeyOf[r]] = NoTask

Insertable(r) == pc[r] = "missed" /\ ~Waits(r)

\* create_task of the service and store_key, in one transaction.
Create(r) ==
  /\ Insertable(r)
  /\ Unique(r)
  /\ Go(r, "open")
  /\ UNCHANGED <<tasks, keys, answer, late, jobVars, crashes>>

\* The index rejects the key: the transaction is rolled back and the answer is
\* the internal error of the catch-all handler.
CreateTwice(r) ==
  /\ Insertable(r)
  /\ ~Unique(r)
  /\ Go(r, "done")
  /\ Reply(r, "error")
  /\ UNCHANGED <<tasks, keys, late, jobVars, crashes>>

Commit(r) ==
  /\ pc[r] = IF late THEN "handed" ELSE "open"
  /\ tasks' = tasks \cup {r}
  /\ keys' = [k \in Keys |-> IF k = KeyOf[r] THEN r ELSE keys[k]]
  /\ Go(r, IF late THEN "done" ELSE "committed")
  /\ UNCHANGED <<answer, late, jobVars, crashes>>

Respondable(r) == pc[r] = IF late THEN "open" ELSE "committed"

RespondOnly(r) ==
  /\ Respondable(r)
  /\ Go(r, "done")
  /\ Reply(r, r)
  /\ UNCHANGED <<tasks, keys, late, jobVars, crashes>>

Respond(r) ==
  /\ Respondable(r)
  /\ Go(r, "background")
  /\ Reply(r, r)
  /\ UNCHANGED <<tasks, keys, late, jobVars, crashes>>

\* The background task of the request that created the task.
Enqueue(r) ==
  /\ pc[r] = "background"
  /\ Go(r, IF late THEN "handed" ELSE "done")
  /\ Hand(r)
  /\ UNCHANGED <<tasks, keys, answer, late, planned, dropped, crashes>>

\* The process dies: an open transaction is undone, a response or a job that
\* was still to come is not.
Crash(r) ==
  /\ pc[r] \in {"missed", "open", "committed", "background", "handed"}
  /\ crashes < MaxCrashes
  /\ crashes' = crashes + 1
  /\ Go(r, "done")
  /\ UNCHANGED <<tasks, keys, answer, late, jobVars>>

\* handle_job: a job whose task or execution is not there is dropped.
Work ==
  /\ queue # <<>>
  /\ queue' = Tail(queue)
  /\ planned' = planned \cup ({Head(queue)} \cap tasks)
  /\ dropped' = dropped \cup ({Head(queue)} \ tasks)
  /\ UNCHANGED <<tasks, keys, pc, answer, late, enqueued, crashes>>

-----------------------------------------------------------------------------

Init ==
  /\ tasks = {}
  /\ keys = [k \in Keys |-> NoTask]
  /\ pc = [r \in Requests |-> "new"]
  /\ answer = [r \in Requests |-> NoTask]
  /\ late \in BOOLEAN
  /\ queue = <<>>
  /\ enqueued = [r \in Requests |-> 0]
  /\ planned = {}
  /\ dropped = {}
  /\ crashes = 0

Step(r) ==
  \/ Replay(r) \/ Conflict(r) \/ Miss(r) \/ Create(r) \/ CreateTwice(r)
  \/ Commit(r) \/ Respond(r) \/ Enqueue(r)

Next == (\E r \in Requests : Step(r) \/ Crash(r)) \/ Work

Spec == Init /\ [][Next]_vars

\* A request that was begun is served, and the worker loop never stops.
FairSpec == Spec /\ (\A r \in Requests : WF_vars(Step(r))) /\ WF_vars(Work)

-----------------------------------------------------------------------------
(* Properties.                                                             *)

TypeOK ==
  /\ tasks \in SUBSET Requests
  /\ keys \in [Keys -> Requests \cup {NoTask}]
  /\ pc \in [Requests -> {"new", "missed", "open", "committed", "background", "handed", "done"}]
  /\ answer \in [Requests -> Requests \cup {NoTask, "conflict", "error"}]
  /\ late \in BOOLEAN
  /\ queue \in Seq(Requests)
  /\ enqueued \in [Requests -> Nat]
  /\ planned \in SUBSET Requests
  /\ dropped \in SUBSET Requests
  /\ crashes \in Nat

\* However requests with one Idempotency-Key overlap, one task comes of them.
OneTaskPerKey ==
  \A t, u \in tasks : (Keyed(t) /\ KeyOf[t] = KeyOf[u]) => t = u

\* An answer given before the commit, while the commit is to come or after a
\* death that may have undone it.
Unconfirmed(r) == late /\ answer[r] = r /\ (Uncommitted(r) \/ crashes > 0)

\* A request that is answered with a task is answered with one of the body it
\* sent, committed unless the framework answers first; all that share its key
\* are answered with that same task, unless a death undid the first of them
\* (test_idempotency_key_returns_same_task, ..._conflict_on_different_body).
ReplayIsFaithful ==
  \A r \in Requests : answer[r] \in Requests =>
    /\ answer[r] \in tasks \/ Unconfirmed(r)
    /\ BodyOf[answer[r]] = BodyOf[r]
    /\ \A q \in Requests : (Keyed(r) /\ KeyOf[q] = KeyOf[r] /\ answer[q] \in Requests) =>
                             answer[q] = answer[r] \/ (late /\ crashes > 0)

\* "Planning is enqueued after the request transaction commits so the worker
\* ... can read the persisted task" (tasks.py:69).  False where the framework
\* commits late.
JobsAreForTasks == \A i \in DOMAIN queue : queue[i] \in tasks

\* Retries of a request never make a second planning job for its task.
EnqueuedOnce == \A r \in Requests : enqueued[r] <= 1

\* A task that was created is planned, unless a process died in between or a
\* worker took its job before the commit and dropped it (tasks.py:71,
\* execution_worker.py:33).
CreatedIsPlanned ==
  \A r \in Requests : r \in tasks ~> (r \in planned \/ crashes > 0 \/ (late /\ r \in dropped))

\* No task is forgotten before that: until it is planned, its job is in the
\* queue or its request still has to put it there.
AccountedFor(t) ==
  \/ t \in planned
  \/ pc[t] \in {"committed", "background"}
  \/ \E i \in DOMAIN queue : queue[i] = t
  \/ crashes > 0
  \/ late /\ t \in dropped

NoTaskForgotten == \A t \in tasks : AccountedFor(t)

\* Why they hold: the committed record of a key is the only task of that key,
\* a transaction that has inserted a key is the only one that can commit it,
\* and only the request that created a task, after its answer, enqueues it.
KeyInv ==
  /\ \A t \in tasks : Keyed(t) => keys[KeyOf[t]] = t
  /\ \A k \in Keys : keys[k] # NoTask => keys[k] \in tasks /\ KeyOf[keys[k]] = k
  /\ \A r \in Requests : (Uncommitted(r) /\ Keyed(r)) =>
       /\ keys[KeyOf[r]] = NoTask
       /\ \A q \in Requests : (Uncommitted(q) /\ KeyOf[q] = KeyOf[r]) => q = r
  /\ \A r \in Requests : answer[r] \in Requests =>
       /\ answer[r] \in tasks \/ Unconfirmed(r)
       /\ BodyOf[answer[r]] = BodyOf[r]
       /\ KeyOf[answer[r]] = KeyOf[r]

JobInv ==
  /\ \A r \in Requests : pc[r] = "committed" \/ (~late /\ pc[r] = "background") => r \in tasks
  /\ \A r \in tasks : /\ pc[r] \notin {"new", "missed", "open", "handed"}
                      /\ ~(late /\ pc[r] = "background")
  /\ ~late => JobsAreForTasks /\ \A r \in Requests : pc[r] # "handed"
  /\ \A r \in Requests : enqueued[r] = 0 \/ (enqueued[r] = 1 /\ pc[r] \in {"handed", "done"})
  /\ \A r \in Requests : pc[r] = "handed" => r \in dropped \/ \E i \in DOMAIN queue : queue[i] = r
  /\ NoTaskForgotten

CreationInv == TypeOK /\ KeyInv /\ JobInv

=============================================================================
