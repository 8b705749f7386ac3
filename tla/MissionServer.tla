--------------------------- MODULE MissionServer ---------------------------
(***************************************************************************)
(* The mission server (src/ai-ml/src/autoflow_ai/server): a registry of    *)
(* mission records in memory, one daemon thread per started mission, an    *)
(* event bus per record, the HTTP API that reads them without a common     *)
(* lock, and the page the server itself serves, which follows one mission  *)
(* over its event stream.                                                  *)
(*                                                                         *)
(* What a mission does in its applications is one step with a free         *)
(* outcome; what its thread then tells the record and the bus, and in      *)
(* which order, is kept step by step, because readers see every prefix.    *)
(***************************************************************************)
EXTENDS Naturals, Sequences, FiniteSets, SequencesExt

CONSTANTS
  Missions,      \* identities of mission records
  NoMission,     \* stands for "no mission"
  MaxRestarts,   \* bound: restarts of the server process
  MaxReconnects  \* bound: event streams that run into their deadline

ASSUME ServerAssumption ==
  /\ Missions \subseteq Nat \ {0} /\ NoMission \notin Missions
  /\ MaxRestarts \in Nat /\ MaxReconnects \in Nat

VARIABLES
  known,     \* the records the running process holds
  status,    \* rec.status; "none" before the record exists
  result,    \* rec.result
  run,       \* the parameters of a mission's thread
  at,        \* where that thread is
  outcome,   \* how its work ended
  todo,      \* what it still has to tell the record and the bus
  events,    \* the types of the events on a mission's bus
  closed,    \* the bus is closed
  sent,      \* the missions whose mail went out
  restarts,  \* restarts of the process so far
  page       \* the page: its step, its mission, and what it has been shown

missionVars == <<known, status, result, run, at, outcome, todo, events, closed, sent>>
serverVars  == <<missionVars, restarts, page>>

Kinds == {"simulate", "real", "desktop"}
Runs  == [kind : Kinds, gated : BOOLEAN]
Settled == {"complete", "failed", "awaiting_approval"}

\* A record without a result, and the two verdicts of one that has it.
NoResult == [stored |-> FALSE, document |-> FALSE, complete |-> FALSE]

-----------------------------------------------------------------------------
(* What a thread may find out, and what it then reports.                   *)

\* "error" is an exception the thread catches, a missing file or an unsupported
\* goal; "opened" is a desktop action that leaves no file behind.  For what no
\* try encloses see ThreadDies.
Outcomes(r) ==
  {"error"} \cup
  CASE r.kind = "simulate" -> {"document_failed", "draft_failed"} \cup
         (IF r.gated THEN {"awaiting_approval"}
                     ELSE {"send_failed", "not_verified", "complete"})
    [] r.kind = "real"     -> {"unverified", "complete"}
    [] r.kind = "desktop"  -> {"unverified", "complete", "opened"}

\* Only an ungated simulation reaches the send, and then a failure may come
\* before the mail left or after.
MustSend(r, o) == r.kind = "simulate" /\ o \in {"not_verified", "complete"}
MaySend(r, o)  == r.kind = "simulate" /\ ~r.gated /\ o \in {"send_failed", "error"}

Verdict(o) ==
  [stored   |-> TRUE,
   document |-> o \notin {"document_failed", "unverified"},
   complete |-> o \in {"complete", "opened"}]

\* The lines of a report.  The bus is read only where a page follows the
\* mission; the record always is.
Heard(line)  == IF page.step = "absent" THEN <<>> ELSE << line >>
Emit(e)      == Heard(<<"emit", e>>)
SetStatus(v) == << <<"status", v>> >>
StoreResult  == << <<"result", "stored">> >>
Close        == Heard(<<"close", "bus">>)

FailingQuietly == SetStatus("failed") \o Emit("failed")
Failing == SetStatus("failed") \o Emit("failed") \o Close

\* The trace of a simulation is replayed into the bus first, its verdicts as
\* verification_passed and its last line as mission_completed.
Replayed(o) ==
  Emit("verified")
  \o (IF o = "awaiting_approval" THEN Emit("approval") ELSE <<>>) \o Emit("completed")

Simulated(o) ==
  Replayed(o) \o StoreResult
  \o (IF Verdict(o).document THEN Emit("verified") \o Emit("artifact") ELSE <<>>)
  \o CASE o = "awaiting_approval" ->
            SetStatus("awaiting_approval") \o Emit("approval") \o Close
       [] o = "complete" -> SetStatus("complete") \o Emit("completed") \o Close
       [] OTHER          -> Failing

\* Documents on disk and desktop actions: the status first, then the events.
Announced(o) ==
  Emit("verified") \o (IF o = "opened" THEN <<>> ELSE Emit("artifact")) \o Emit("completed")

Performed(o) ==
  Emit("progress") \o StoreResult
  \o (IF Verdict(o).complete THEN SetStatus("complete") \o Announced(o) \o Close ELSE Failing)

Report(r, o) ==
  IF o = "error" THEN Failing
  ELSE IF r.kind = "simulate" THEN Simulated(o) ELSE Performed(o)

-----------------------------------------------------------------------------
(* The API as its clients use it: operators over the records they touch.   *)

\* POST /missions.  Identities are made of the time: fresh, and in order.
Create(m) ==
  /\ status[m] = "none" /\ \A k \in Missions : k < m => status[k] # "none"
  /\ known'  = known \cup {m}
  /\ status' = [status EXCEPT ![m] = "created"]
  /\ UNCHANGED <<result, run, at, outcome, todo, events, closed, sent>>

\* POST /missions/{id}/simulate and /run: a thread starts.  A mission the
\* process does not know is answered with 404 and nothing happens.
Start(m, r) ==
  /\ run' = IF m \in known THEN [run EXCEPT ![m] = r] ELSE run
  /\ at'  = IF m \in known THEN [at EXCEPT ![m] = "begun"] ELSE at
  /\ UNCHANGED <<known, status, result, outcome, todo, events, closed, sent>>

\* GET /missions/{id}: no status in the answer to an unknown mission.
StatusOf(m) == IF m \in known THEN status[m] ELSE "unknown"
ResultOf(m) == IF m \in known THEN result[m] ELSE NoResult

\* GET /missions/{id}/artifacts.
HasArtifact(m) == m \in known /\ "artifact" \in ToSet(events[m])

-----------------------------------------------------------------------------
(* The thread of a mission.                                                *)

ThreadBegins(m) ==
  /\ at[m] = "begun"
  /\ at'     = [at EXCEPT ![m] = "working"]
  /\ status' = [status EXCEPT ![m] = "running"]
  /\ events' = IF page.step = "absent" THEN events
                 ELSE [events EXCEPT ![m] = Append(@, "progress")]
  /\ UNCHANGED <<known, result, run, outcome, todo, closed, sent, restarts, page>>

ThreadWorks(m, o) ==
  /\ at[m] = "working"
  /\ o \in Outcomes(run[m])
  /\ at'      = [at EXCEPT ![m] = "reporting"]
  /\ outcome' = [outcome EXCEPT ![m] = o]
  /\ todo'    = [todo EXCEPT ![m] = Report(run[m], o)]
  /\ \/ sent' = sent \cup {m} /\ (MustSend(run[m], o) \/ MaySend(run[m], o))
     \/ sent' = sent /\ ~MustSend(run[m], o)
  /\ UNCHANGED <<known, status, result, run, events, closed, restarts, page>>

\* The next line of the thread's report.
ThreadReports(m) ==
  /\ at[m] = "reporting" /\ todo[m] # <<>>
  /\ LET op == Head(todo[m])[1]
         v  == Head(todo[m])[2]
     IN /\ status' = IF op = "status" THEN [status EXCEPT ![m] = v] ELSE status
        /\ events' = IF op = "emit" THEN [events EXCEPT ![m] = Append(@, v)] ELSE events
        /\ result' = IF op = "result"
                       THEN [result EXCEPT ![m] = Verdict(outcome[m])] ELSE result
        /\ closed' = IF op = "close" THEN [closed EXCEPT ![m] = TRUE] ELSE closed
  /\ todo' = [todo EXCEPT ![m] = Tail(@)]
  /\ UNCHANGED <<known, run, at, outcome, sent, restarts, page>>

ThreadStep(m) ==
  \/ ThreadBegins(m) \/ ThreadReports(m)
  \/ \E o \in Outcomes(run[m]) : ThreadWorks(m, o)

\* An exception outside of every try (the report to attach, the mail adapter
\* and its port, the replay of a supervisor's bus, the reading of a desktop
\* goal, what follows the result): the thread ends where it is, the status stays
\* and nobody closes the bus.
ThreadDies(m) ==
  /\ at[m] = "working" \/ (at[m] = "reporting" /\ todo[m] # <<>>)
  /\ at'   = [at EXCEPT ![m] = "dead"]
  /\ todo' = [todo EXCEPT ![m] = <<>>]
  /\ UNCHANGED <<known, status, result, run, outcome, events, closed, sent, restarts, page>>

\* The process dies and comes back: records, buses and threads were its own.
\* The old values stay readable here, for the properties, and nowhere else.
Restart ==
  /\ known # {} /\ restarts < MaxRestarts
  /\ restarts' = restarts + 1
  /\ known' = {}
  /\ at'    = [m \in Missions |-> "none"]
  /\ todo'  = [m \in Missions |-> <<>>]
  /\ page'  = IF page.step = "absent" THEN page ELSE [page EXCEPT !.step = "broken"]
  /\ UNCHANGED <<status, result, run, outcome, events, closed, sent>>

-----------------------------------------------------------------------------
(* The page and its event stream.                                          *)

NoPage == [step |-> "absent", mission |-> NoMission, after |-> 0, shown |-> 0,
           status |-> "none", artifact |-> FALSE, reconnects |-> 0]

PageCreates(m) ==
  /\ page.step = "idle"
  /\ Create(m)
  /\ page' = [page EXCEPT !.step = "created", !.mission = m]
  /\ UNCHANGED restarts

\* Real mode starts /run, every other mode /simulate with an empty body; the
\* stream opens at event 0.
PageStarts(kind) ==
  /\ page.step = "created"
  /\ Start(page.mission, [kind |-> kind, gated |-> FALSE])
  /\ page' = [page EXCEPT !.step = "deliver"]
  /\ UNCHANGED restarts

PageTurns(step) ==
  /\ page' = [page EXCEPT !.step = step]
  /\ UNCHANGED <<missionVars, restarts>>

\* One turn of the loop in _sse: what is new is written out, then the bus is
\* asked whether it is closed, then once more whether anything is new.
StreamDelivers ==
  /\ page.step = "deliver"
  /\ LET n == Len(events[page.mission]) IN
     page' = [page EXCEPT !.step = "closed?", !.after = n,
                          !.shown = IF n > @ THEN n ELSE @]
  /\ UNCHANGED <<missionVars, restarts>>

StreamChecksClosed ==
  /\ page.step = "closed?"
  /\ PageTurns(IF closed[page.mission] THEN "drained?" ELSE "deliver")

NothingAsked == TRUE
NothingNew == Len(events[page.mission]) = page.after

StreamChecksDrained ==
  /\ page.step = "drained?"
  /\ PageTurns(IF NothingNew THEN "ended" ELSE "deliver")

\* The deadline of the stream passes first; EventSource connects again, from 0.
StreamExpires ==
  /\ page.step = "deliver" /\ page.reconnects < MaxReconnects
  /\ page' = [page EXCEPT !.after = 0, !.reconnects = @ + 1]
  /\ UNCHANGED <<missionVars, restarts>>

\* On "end" the page reads the record, then its artifacts.
PageReadsRecord ==
  /\ page.step = "ended"
  /\ page' = [page EXCEPT !.step = "settled", !.status = StatusOf(page.mission)]
  /\ UNCHANGED <<missionVars, restarts>>

PageReadsArtifacts ==
  /\ page.step = "settled"
  /\ page' = [page EXCEPT !.step = "done", !.artifact = HasArtifact(page.mission)]
  /\ UNCHANGED <<missionVars, restarts>>

StreamStep == StreamDelivers \/ StreamChecksClosed \/ StreamChecksDrained

PageStep ==
  \/ \E m \in Missions : PageCreates(m)
  \/ \E kind \in Kinds : PageStarts(kind)
  \/ PageReadsRecord \/ PageReadsArtifacts

-----------------------------------------------------------------------------

ServerInit ==
  /\ known   = {}
  /\ status  = [m \in Missions |-> "none"]
  /\ result  = [m \in Missions |-> NoResult]
  /\ run     = [m \in Missions |-> [kind |-> "simulate", gated |-> TRUE]]
  /\ at      = [m \in Missions |-> "none"]
  /\ outcome = [m \in Missions |-> "none"]
  /\ todo    = [m \in Missions |-> <<>>]
  /\ events  = [m \in Missions |-> <<>>]
  /\ closed  = [m \in Missions |-> FALSE]
  /\ sent    = {}
  /\ restarts = 0

ServerNext ==
  \/ \E m \in Missions : ThreadStep(m) \/ ThreadDies(m)
  \/ StreamStep \/ StreamExpires \/ PageStep

-----------------------------------------------------------------------------
(* Properties.                                                             *)

\* When the page has read the record after the stream's "end", it was shown
\* every event the mission produced, its status is a settled one, and the
\* artifact badge is there exactly if an artifact was announced: thread,
\* stream and page never agree on a moment, only on the order of their reads
\* (app.py _sse, missions.py run_*, frontend.py run).
EndMeansSettled ==
  page.step = "done" =>
    /\ page.shown = Len(events[page.mission])
    /\ page.status \in Settled
    /\ page.artifact <=> "artifact" \in ToSet(events[page.mission])

\* A closed stream carries mission_completed only if the mission completed
\* (docs/API.md:97, "from mission_started through mission_completed (or
\* mission_failed)"; frontend.py:4, completion is shown when that event
\* arrives).  The replayed trace of a parked or failed simulation breaks it.
CompletedEventIsEarned ==
  \A m \in Missions :
    closed[m] /\ "completed" \in ToSet(events[m]) => status[m] = "complete"

=============================================================================
