------------------------------ MODULE TaskPage ------------------------------
(***************************************************************************)
(* The desktop application's tasks (src/desktop: lib/store.ts,             *)
(* lib/simulation.ts, lib/sim-store.ts, hooks/use-connected-task.ts,       *)
(* components/tasks, components/approvals).  Without a backend a player    *)
(* with one timer applies the frames of a script to the tasks of the       *)
(* store, stops at an approval and goes on when the user approves.  With   *)
(* one, the store is fed by a loaded task, its events as they come and a   *)
(* last refresh.  The player is there in both modes.                       *)
(*                                                                         *)
(* The backend's task is seen as the statuses its events stand for.        *)
(***************************************************************************)
EXTENDS Naturals, Sequences, SequencesExt

CONSTANTS
  Seeded,    \* tasks of the mock data that await an approval
  Composed,  \* tasks the user may yet compose here
  Real,      \* the task of the backend
  Started,   \* the steps of a seeded task, as far as they are
  SeededGate \* its step that needs the approval

Tasks    == Seeded \cup Composed \cup {Real}
NumSteps == Len(Started)
Steps    == 1..NumSteps

ASSUME PageAssumption ==
  /\ Real \notin Seeded \cup Composed
  /\ Started \in Seq(STRING) /\ SeededGate \in Steps

VARIABLES
  tasks,   \* the store: status, steps and approval of each task
  player,  \* the task the timer is for, and the frames to come
  backend, \* the statuses of the real task so far
  view,    \* connected or not; the page on the real task: how far it has read
  asked    \* the decision that is on its way to the backend

pageVars == <<tasks, player, backend, view, asked>>

NotAsked == [step |-> "none", verdict |-> "none", detail |-> FALSE, steps |-> <<>>]
Absent   == [status |-> "ABSENT", steps |-> <<>>, approval |-> "none"]
Gate(t)  == IF t \in Seeded THEN SeededGate ELSE NumSteps

PageInit ==
  /\ tasks = [t \in Tasks |->
       IF t \in Seeded THEN [status |-> "AWAITING_APPROVAL", steps |-> Started, approval |-> "PENDING"]
                       ELSE Absent]
  /\ player = [task |-> Real, frames |-> {}]
  /\ backend = <<"QUEUED">>
  /\ \E connected \in BOOLEAN :
       view = [connected |-> connected, step |-> "closed", seen |-> 0, refresh |-> FALSE, driven |-> FALSE]
  /\ asked = NotAsked

-----------------------------------------------------------------------------
(* The player                                                              *)

\* What to show, of which step, at its place in the script; the timer stops after
\* a frame that is a pause.
Frame(at, status, step, to, pause) ==
  [at |-> at, status |-> status, step |-> step, to |-> to, pause |-> pause]

StepFrames(i) == {Frame(2 * i, "RUNNING", i, "RUNNING", FALSE),
                  Frame(2 * i + 1, "RUNNING", i, "COMPLETE", FALSE)}

BuildScript(t) ==
  {Frame(0, "PLANNING", 0, "", FALSE), Frame(1, "VALIDATING", 0, "", FALSE)}
    \cup UNION {IF i = Gate(t) THEN {Frame(2 * i, "AWAITING_APPROVAL", i, "APPROVAL", TRUE)}
                               ELSE StepFrames(i) : i \in Steps}

\* Seeded fault: a step that was under way when the approval came is left out.
RemainsIfWaiting(i, t, steps) == i # Gate(t) /\ steps[i] = "WAITING"

Remains(i, t, steps) == i # Gate(t) /\ steps[i] # "COMPLETE"

EndFrame == Frame(2 * NumSteps + 2, "COMPLETE", 0, "", TRUE)

BuildResumeScript(t, steps) ==
  {Frame(0, "RUNNING", Gate(t), "COMPLETE", FALSE), EndFrame}
    \cup UNION {StepFrames(i) : i \in {j \in Steps : Remains(j, t, steps)}}

\* The first frame is applied at once, each other when the timer of the one
\* before it goes off; what was to come of another script is dropped.
Play(t, frames, store) ==
  \E frame \in frames :
    /\ \A later \in frames : frame.at <= later.at
    /\ tasks' = [store EXCEPT
         ![t].status = frame.status,
         ![t].steps  = IF frame.step = 0 THEN @ ELSE [@ EXCEPT ![frame.step] = frame.to]]
    /\ player' = [task |-> t, frames |-> IF frame.pause THEN {} ELSE frames \ {frame}]

Tick ==
  /\ player.frames # {}
  /\ Play(player.task, player.frames, tasks)
  /\ UNCHANGED <<backend, view, asked>>

\* Composed without a backend, or with one that cannot be reached.
Compose(t) ==
  /\ t \in Composed /\ tasks[t] = Absent
  /\ LET new == [status |-> "QUEUED", steps |-> [i \in Steps |-> "WAITING"], approval |-> "none"] IN
     Play(t, BuildScript(t), [tasks EXCEPT ![t] = new])
  /\ UNCHANGED <<backend, view, asked>>

-----------------------------------------------------------------------------
(* Decisions.  The page of the task shows the panel while the task awaits  *)
(* an approval, and resumes the player after it; the page of approvals     *)
(* shows it as long as it is pending, and leaves the player alone.         *)

Verdicts == {"APPROVED", "REJECTED"}

Offered(t, detail) ==
  /\ tasks[t].approval = "PENDING"
  /\ detail => tasks[t].status = "AWAITING_APPROVAL"

Decide(t, verdict, detail) ==
  /\ ~view.connected /\ Offered(t, detail)
  /\ LET store == [tasks EXCEPT ![t].approval = verdict,
                                ![t].status = IF verdict = "APPROVED" THEN "RUNNING" ELSE "FAILED"] IN
     IF verdict = "APPROVED" /\ detail
       THEN Play(t, BuildResumeScript(t, tasks[t].steps), store)
       ELSE tasks' = store /\ UNCHANGED player
  /\ UNCHANGED <<backend, view, asked>>

Post(verdict, detail) ==
  /\ view.connected /\ asked = NotAsked /\ Offered(Real, detail)
  /\ detail => view.step # "closed"
  /\ asked' = [step |-> "sent", verdict |-> verdict, detail |-> detail, steps |-> tasks[Real].steps]
  /\ UNCHANGED <<tasks, player, backend, view>>

Replied == asked.step \in {"ok", "error"}

\* The task in the page when the button was pressed is what is resumed, in
\* connected mode too.
OnAnswer ==
  /\ Replied
  /\ LET store == [tasks EXCEPT ![Real].approval = asked.verdict] IN
     IF asked.step = "error" THEN UNCHANGED <<tasks, player, view>>
     ELSE IF asked.verdict = "APPROVED" /\ asked.detail
       THEN /\ Play(Real, BuildResumeScript(Real, asked.steps), store)
            /\ view' = [view EXCEPT !.driven = TRUE]
       ELSE tasks' = store /\ UNCHANGED <<player, view>>
  /\ asked' = NotAsked
  /\ UNCHANGED backend

\* The buttons above a task: pause, resume, cancel.  They set what the store
\* shows, with a backend too; neither the player nor the backend is told.
Offers(status) ==
  (IF status \in {"RUNNING", "PLANNING", "VALIDATING", "VERIFYING"} THEN {"BLOCKED"} ELSE {})
    \cup (IF status = "BLOCKED" THEN {"RUNNING"} ELSE {})
    \cup (IF status \notin {"COMPLETE", "FAILED", "CANCELLED"} THEN {"CANCELLED"} ELSE {})

TaskHeader(t, next) ==
  /\ tasks[t] # Absent /\ next \in Offers(tasks[t].status)
  /\ t = Real => view.step # "closed"
  /\ tasks' = [tasks EXCEPT ![t].status = next]
  /\ UNCHANGED <<player, backend, view, asked>>

-----------------------------------------------------------------------------
(* The backend                                                             *)

Status   == Last(backend)
Terminal == {"COMPLETE", "FAILED", "CANCELLED"}
Parked   == "AWAITING_APPROVAL" \in ToSet(backend)

\* The worker, which observes a cancellation while it runs, or another user's
\* decision or resume.
BackendMoves ==
  /\ view.connected
  /\ \E next \in CASE Status = "QUEUED"            -> {"RUNNING", "FAILED"}
                   [] Status = "RUNNING"           -> Terminal \cup (IF Parked THEN {} ELSE {"AWAITING_APPROVAL"})
                   [] Status = "AWAITING_APPROVAL" -> {"RUNNING", "BLOCKED"}
                   [] Status = "BLOCKED"           -> {"RUNNING"}
                   [] OTHER                        -> {} :
       backend' = Append(backend, next)
  /\ UNCHANGED <<tasks, player, view, asked>>

\* The decision arrives: it counts while it is still asked for, and the page
\* may or may not get to know.
Land ==
  /\ asked.step = "sent"
  /\ LET counts == Status = "AWAITING_APPROVAL" IN
     \/ /\ counts
        /\ backend' = Append(backend, IF asked.verdict = "APPROVED" THEN "RUNNING" ELSE "BLOCKED")
        /\ \E answer \in {"ok", "error"} : asked' = [asked EXCEPT !.step = answer]
     \/ UNCHANGED backend /\ asked' = [asked EXCEPT !.step = "error"]
  /\ UNCHANGED <<tasks, player, view>>

-----------------------------------------------------------------------------
(* The page on the real task                                               *)

Shown(store) ==
  [store EXCEPT ![Real].status = Status,
                ![Real].steps = [i \in Steps |-> IF Status = "COMPLETE" THEN "COMPLETE" ELSE "WAITING"],
                ![Real].approval = IF Status = "AWAITING_APPROVAL" THEN "PENDING" ELSE @]

LoadTask ==
  /\ view.connected /\ view.step = "closed"
  /\ tasks' = Shown(tasks)
  /\ view' = [view EXCEPT !.step = "seeding"]
  /\ UNCHANGED <<player, backend, asked>>

\* The events so far make the timeline; none of them sets the status.
SeedTimeline ==
  /\ view.step = "seeding"
  /\ view' = [view EXCEPT !.step = "live", !.seen = Len(backend)]
  /\ UNCHANGED <<tasks, player, backend, asked>>

\* Nobody listens for a rejection.
OnEvent ==
  /\ view.step = "live" /\ view.seen < Len(backend)
  /\ LET event == backend[view.seen + 1] IN
     tasks' = [tasks EXCEPT
       ![Real].status = IF event = "BLOCKED" THEN @ ELSE event,
       ![Real].approval = IF event = "AWAITING_APPROVAL" /\ Status = event THEN "PENDING" ELSE @]
  /\ view' = [view EXCEPT !.seen = @ + 1]
  /\ UNCHANGED <<player, backend, asked>>

OnEnd ==
  /\ view.step = "live" /\ view.seen = Len(backend) /\ Status \in Terminal
  /\ tasks' = [tasks EXCEPT ![Real].status = Status]
  /\ view' = [view EXCEPT !.step = "ended", !.refresh = TRUE]
  /\ UNCHANGED <<player, backend, asked>>

\* The fresh task, or nothing when the call fails.
Refresh ==
  /\ view.refresh
  /\ tasks' = Shown(tasks) \/ UNCHANGED tasks
  /\ view' = [view EXCEPT !.refresh = FALSE]
  /\ UNCHANGED <<player, backend, asked>>

Leave ==
  /\ view.step # "closed"
  /\ view' = [view EXCEPT !.step = "closed", !.seen = 0, !.refresh = FALSE]
  /\ UNCHANGED <<tasks, player, backend, asked>>

PageTimers == Tick
PageFeeds  == SeedTimeline \/ OnEvent \/ OnEnd \/ Refresh \/ Land \/ OnAnswer
PageUser   ==
  \/ \E t \in Composed : Compose(t)
  \/ \E t \in Seeded, verdict \in Verdicts, detail \in BOOLEAN : Decide(t, verdict, detail)
  \/ \E verdict \in Verdicts, detail \in BOOLEAN : Post(verdict, detail)
  \/ \E t \in Tasks, next \in {"BLOCKED", "RUNNING", "CANCELLED"} : TaskHeader(t, next)
  \/ LoadTask \/ Leave

PageStep == PageTimers \/ PageFeeds \/ PageUser \/ BackendMoves

-----------------------------------------------------------------------------
(* Properties                                                              *)

\* A task shown complete is: one the player played has all its steps done and
\* its approval given, whichever other tasks were played in between and
\* whichever buttons were pressed; the real one has ended so in the backend
\* once the page has read its end, except where the player has driven it
\* (simulation.ts:285-287, sim-store.ts:96-114, use-connected-task.ts:97-102,
\* task-header.tsx:35-60).
ShownIsEarned ==
  /\ \A t \in Tasks \ {Real} :
       tasks[t].status = "COMPLETE" =>
         tasks[t].approval = "APPROVED" /\ \A i \in Steps : tasks[t].steps[i] = "COMPLETE"
  /\ view.step = "ended" /\ ~view.driven => tasks[Real].status = Status

\* Without the exception: approving a real task starts the local script on it,
\* which ends in COMPLETE, however the task itself has ended ("the store is
\* fed by the backend instead of the local simulation",
\* use-connected-task.ts:8-10).
ShownIsBackends ==
  view.step = "ended" /\ ~view.refresh /\ player.frames = {} => tasks[Real].status = Status

=============================================================================
