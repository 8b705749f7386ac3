------------------------------- MODULE Supervisor -------------------------------
(***************************************************************************)
(* MissionSupervisor (ai-ml, society/supervisor): it delegates the tasks   *)
(* of a graph to specialists, lets an independent critic judge each result *)
(* by the evidence on a shared blackboard, asks for bounded revisions,     *)
(* reassigns to other specialists, checkpoints what was verified and       *)
(* resumes a mission whose process died.                                   *)
(*                                                                         *)
(* A blackboard entry is reduced to what the critic looks at: the task it  *)
(* belongs to, its kind, whether it reads as a failure (ok) and the tasks  *)
(* whose required evidence it names.  A claim is an entry of trust AGENT,  *)
(* the other kinds are evidence.  An operator that comes right before      *)
(* another one and lengthens its name is a seeded fault.                   *)
(***************************************************************************)
EXTENDS Naturals, FiniteSets

CONSTANTS
  Tasks,            \* the nodes of the graph, numbered in its order
  Deps,             \* Deps[t]: the tasks t depends on
  Agents,           \* specialist types, numbered in the order of AgentType
  Caps,             \* Caps[a]: the capabilities of a
  Name,             \* Name[a]: the place of a in the order of names
  Needs,            \* Needs[t]: required_capabilities
  Declared,         \* Declared[t]: the agent_type of the node
  NeedsTool,        \* require_tool_evidence
  Requiring,        \* tasks with verification_requirements
  Registries,       \* the sets of agents that may be registered
  Critic, Nobody,
  MaxDelegations, MaxRevisions, MaxReassignments,  \* MissionLimits
  MaxRepeat, MaxMessages,                          \* limits of the MessageBus
  MaxRuns,          \* bound: runs of the mission, resumed ones included
  MaxFailedSaves    \* bound: checkpoints that could not be written

ASSUME MissionAssumption ==
  /\ Tasks \subseteq Nat \ {0} /\ Agents \subseteq Nat \ {0}
  /\ Deps \in [Tasks -> SUBSET Tasks]
  /\ Name \in [Agents -> Nat]
  /\ Declared \in [Tasks -> Agents]
  /\ DOMAIN Caps = Agents /\ DOMAIN Needs = Tasks
  /\ Requiring \subseteq NeedsTool /\ NeedsTool \subseteq Tasks
  /\ Registries \subseteq SUBSET Agents
  /\ Critic \notin Agents /\ Nobody \notin Agents

ASSUME LimitAssumption ==
  /\ MaxDelegations \in Nat \ {0} /\ MaxRevisions \in Nat /\ MaxReassignments \in Nat
  /\ MaxRepeat \in Nat /\ MaxMessages \in Nat /\ MaxRuns \in Nat /\ MaxFailedSaves \in Nat

VARIABLES
  registered,  \* the agents that are registered
  phase,       \* where the run is
  todo,        \* the ready nodes still to visit in this round
  at,          \* the delegation under way
  status,      \* status[t]: the node's status
  verified,    \* tasks whose record is verified
  known,       \* verified tasks of the mission state, in memory
  delegations, \* delegations of this run
  bus,         \* the message bus
  board,       \* the blackboard
  disk,        \* the mission state on disk, or NoState
  outcome,     \* the report's outcome, or "none"
  runs, failedSaves  \* counters for the bounds

vars == <<registered, phase, todo, at, status, verified, known, delegations, bus,
          board, disk, outcome, runs, failedSaves>>

Entry   == [task : Tasks, kind : {"tool", "claim", "verification"},
            ok : BOOLEAN, names : SUBSET Requiring]
State   == [verified : SUBSET Tasks, board : SUBSET Entry]
NoState == [verified |-> {}, board |-> {}]

-----------------------------------------------------------------------------
(* Choosing a specialist.                                                  *)

Overlap(t, a) == Needs[t] \cap Caps[a]
Capable(t, a) == Needs[t] \subseteq Caps[a]

\* match: a capable agent scores by what it can do, most of all the declared
\* one; another by what it shares with the demand, if it shares anything.
Candidates(t) == {a \in registered : Capable(t, a) \/ Overlap(t, a) # {}}

Score(t, a) ==
  IF Capable(t, a)
    THEN IF a = Declared[t] THEN 100 ELSE 10 + Cardinality(Caps[a])
    ELSE Cardinality(Overlap(t, a))

Top(t) == {a \in Candidates(t) : \A b \in Candidates(t) : Score(t, b) <= Score(t, a)}

\* The one agent chosen, or none.
Match(t) ==
  IF Declared[t] \in Top(t) THEN {Declared[t]}
  ELSE {a \in Top(t) : \A b \in Top(t) : Name[b] <= Name[a]}

\* alternate: the first agent, in the order of AgentType, not tried yet.
Others(t, tried) == {a \in registered \ tried : Needs[t] = {} \/ Overlap(t, a) # {}}
Alternate(t, tried) == {a \in Others(t, tried) : \A b \in Others(t, tried) : a <= b}

-----------------------------------------------------------------------------
(* The message bus.  Only two kinds of message can come to repeat too      *)
(* often: requests to one agent for one task, and the critic's verdicts on *)
(* one task; every other kind answers one of these.                        *)

Topics   == Tasks \X (Agents \cup {Critic})
QuietBus == [log |-> 0, count |-> [k \in Topics |-> 0], loop |-> FALSE]

Send(b, topic) ==
  LET n == b.count[topic] + 1 IN
  IF b.log >= MaxMessages THEN b
  ELSE [log   |-> IF n > MaxRepeat THEN b.log ELSE b.log + 1,
        count |-> [b.count EXCEPT ![topic] = n],
        loop  |-> b.loop \/ n > MaxRepeat]

SendOthers(b, n) ==
  [b EXCEPT !.log = IF @ + n <= MaxMessages THEN @ + n ELSE MaxMessages]

-----------------------------------------------------------------------------
(* The critic reads the whole board: evidence of any task counts.          *)

Evidence(entries)     == {e \in entries : e.kind # "claim"}
Claims(entries, t)    == {e \in entries : e.kind = "claim" /\ e.task = t}
Missing(entries, t)   == t \in Requiring /\ \A e \in entries : t \notin e.names
Contradicted(entries) == \E e \in Evidence(entries) : ~e.ok

VerdictUncontradicted(entries, t) ==
  CASE Claims(entries, t) = {} -> "not_verified"
    [] t \in NeedsTool /\ Evidence(entries) = {} -> "need_more_evidence"
    [] Missing(entries, t) -> "need_more_evidence"
    [] OTHER -> "verified"

Verdict(entries, t) ==
  CASE Claims(entries, t) = {} -> "not_verified"
    [] t \in NeedsTool /\ Evidence(entries) = {} -> "need_more_evidence"
    [] Missing(entries, t) -> "need_more_evidence"
    [] Contradicted(entries) -> "contradicted"
    [] OTHER -> "verified"

-----------------------------------------------------------------------------
(* A run.                                                                  *)

Idle == [task |-> 0, agent |-> Nobody, attempt |-> 0, tried |-> {}, verdict |-> "none"]

Terminal == {"succeeded", "failed"}
Finished == \A t \in Tasks : status[t] \in Terminal

Ready(t) == status[t] = "pending" /\ \A d \in Deps[t] : status[d] = "succeeded"
ReadyTasks == {t \in Tasks : Ready(t)}

Restored(resume) == IF resume THEN disk ELSE NoState

\* run: the mission state is loaded, or made and saved; graph and bus are new.
Start(resume) ==
  /\ phase \in {"off", "over"}
  /\ runs < MaxRuns
  /\ runs' = runs + 1
  /\ LET state == Restored(resume) IN
       /\ known' = state.verified
       /\ verified' = state.verified
       /\ board' = state.board
       /\ disk' = state
  /\ phase' = "round"
  /\ todo' = {} /\ at' = Idle
  /\ status' = [t \in Tasks |-> "pending"]
  /\ delegations' = 0
  /\ bus' = QuietBus
  /\ outcome' = "none"
  /\ UNCHANGED <<registered, failedSaves>>

NewRound ==
  /\ phase = "round" /\ todo = {}
  /\ ~bus.loop
  /\ ReadyTasks # {}
  /\ todo' = ReadyTasks
  /\ UNCHANGED <<registered, phase, at, status, verified, known, delegations, bus,
                 board, disk, outcome, runs, failedSaves>>

Visiting(t) == phase = "round" /\ t \in todo /\ \A u \in todo : t <= u

Mark(t, s) == status' = [status EXCEPT ![t] = s]

\* A task verified by an earlier run is not done again.
SkipVerifiedForgetting(t) ==
  /\ Visiting(t) /\ t \in known
  /\ todo' = todo \ {t}
  /\ UNCHANGED <<registered, phase, at, status, verified, known, delegations, bus,
                 board, disk, outcome, runs, failedSaves>>

SkipVerified(t) ==
  /\ Visiting(t) /\ t \in known
  /\ Mark(t, "succeeded")
  /\ todo' = todo \ {t}
  /\ verified' = verified \cup {t}
  /\ UNCHANGED <<registered, phase, at, known, delegations, bus, board, disk, outcome,
                 runs, failedSaves>>

UndoneAlways(t) == Visiting(t)
Undone(t) == Visiting(t) /\ t \notin known

HitLimit(t) ==
  /\ Undone(t)
  /\ delegations >= MaxDelegations
  /\ phase' = "over"
  /\ outcome' = "limit_exceeded"
  /\ UNCHANGED <<registered, todo, at, status, verified, known, delegations, bus, board,
                 disk, runs, failedSaves>>

FindNobody(t) ==
  /\ Undone(t)
  /\ delegations < MaxDelegations
  /\ Match(t) = {}
  /\ Mark(t, "failed")
  /\ todo' = todo \ {t}
  /\ UNCHANGED <<registered, phase, at, verified, known, delegations, bus, board, disk,
                 outcome, runs, failedSaves>>

Assign(t, a) ==
  /\ Undone(t)
  /\ delegations < MaxDelegations
  /\ a \in Match(t)
  /\ phase' = "work"
  /\ at' = [Idle EXCEPT !.task = t, !.agent = a, !.tried = {a}]
  /\ Mark(t, "running")
  /\ todo' = todo \ {t}
  /\ UNCHANGED <<registered, verified, known, delegations, bus, board, disk, outcome,
                 runs, failedSaves>>

\* What a worker run may bring: nothing at all, an action that failed, or a
\* claim, backed by the tool result if it acted.
Result(kinds, ok, names) ==
  {[task |-> at.task, kind |-> k, ok |-> (k = "tool" => ok), names |-> names] : k \in kinds}

Delegated == SendOthers(Send(bus, <<at.task, at.agent>>), 1)

WorkBlocked ==
  /\ phase = "work"
  /\ phase' = "judged"
  /\ delegations' = delegations + 1
  /\ bus' = SendOthers(Delegated, 1)
  /\ at' = [at EXCEPT !.verdict = "blocked"]
  /\ UNCHANGED <<registered, todo, status, verified, known, board, disk, outcome, runs,
                 failedSaves>>

Judge(entries, messages) ==
  /\ phase = "work"
  /\ phase' = "judged"
  /\ delegations' = delegations + 1
  /\ board' = board \cup entries
  /\ bus' = Send(SendOthers(Delegated, messages), <<at.task, Critic>>)
  /\ at' = [at EXCEPT !.verdict = Verdict(board', at.task)]
  /\ UNCHANGED <<registered, todo, status, verified, known, disk, outcome, runs,
                 failedSaves>>

ToolFails          == Judge({}, 2)
Produce(names)     == Judge(Result({"claim"}, TRUE, names), 1)
RunTool(ok, names) == Judge(Result({"tool", "claim"}, ok, names), 2)

\* The verdict, the verified entry and the checkpoint: saving may fail, and
\* the mission goes on.
VerifiedEntry(t) == [task |-> t, kind |-> "verification", ok |-> TRUE, names |-> {}]

SnapshotEarly(entries, t) == entries \ {VerifiedEntry(t)}
Snapshot(entries, t) == entries

Accept(saved) ==
  LET t == at.task IN
  /\ phase = "judged" /\ at.verdict = "verified"
  /\ verified' = verified \cup {t}
  /\ known' = known \cup {t}
  /\ board' = board \cup {VerifiedEntry(t)}
  /\ Mark(t, "succeeded")
  /\ disk' = IF saved THEN [verified |-> known', board |-> Snapshot(board', t)] ELSE disk
  /\ saved \/ failedSaves < MaxFailedSaves
  /\ failedSaves' = IF saved THEN failedSaves ELSE failedSaves + 1
  /\ phase' = "round" /\ at' = Idle
  /\ UNCHANGED <<registered, todo, delegations, bus, outcome, runs>>

Rejected == phase = "judged" /\ at.verdict # "verified"

Another == Rejected /\ at.attempt < MaxRevisions

\* Another attempt; a worker that was judged is told what is missing.
Revise ==
  /\ Another
  /\ phase' = "work"
  /\ at' = [at EXCEPT !.attempt = @ + 1, !.verdict = "none"]
  /\ bus' = IF at.verdict = "blocked" THEN bus ELSE SendOthers(bus, 1)
  /\ UNCHANGED <<registered, todo, status, verified, known, delegations, board, disk,
                 outcome, runs, failedSaves>>

Reassignments == Cardinality(at.tried) - 1
Exhausted == Rejected /\ at.attempt >= MaxRevisions

Reassign(a) ==
  /\ Exhausted
  /\ Reassignments < MaxReassignments
  /\ a \in Alternate(at.task, at.tried)
  /\ phase' = "work"
  /\ at' = [task |-> at.task, agent |-> a, attempt |-> 0, tried |-> at.tried \cup {a},
            verdict |-> "none"]
  /\ bus' = Send(bus, <<at.task, a>>)
  /\ UNCHANGED <<registered, todo, status, verified, known, delegations, board, disk,
                 outcome, runs, failedSaves>>

GiveUp ==
  /\ Exhausted
  /\ Reassignments >= MaxReassignments \/ Alternate(at.task, at.tried) = {}
  /\ Mark(at.task, "failed")
  /\ phase' = "round" /\ at' = Idle
  /\ UNCHANGED <<registered, todo, verified, known, delegations, bus, board, disk,
                 outcome, runs, failedSaves>>

\* A round in which nothing was visited does not occur, so the deadlock
\* outcome of the code is never reported.
CertifiedWhenFinished == Finished
Certified == Finished /\ \A t \in Tasks : t \in verified

Finish ==
  /\ phase = "round" /\ todo = {}
  /\ bus.loop \/ ReadyTasks = {}
  /\ outcome' = IF bus.loop THEN "failed"
                ELSE IF Certified THEN "complete"
                ELSE IF \E t \in Tasks : status[t] = "failed" THEN "failed"
                ELSE "blocked"
  /\ phase' = "over"
  /\ UNCHANGED <<registered, todo, at, status, verified, known, delegations, bus, board,
                 disk, runs, failedSaves>>

\* The process dies; only the disk is left.
Crash ==
  /\ phase \in {"round", "work", "judged"}
  /\ phase' = "off"
  /\ todo' = {} /\ at' = Idle
  /\ status' = [t \in Tasks |-> "pending"]
  /\ verified' = {} /\ known' = {} /\ board' = {}
  /\ delegations' = 0
  /\ bus' = QuietBus
  /\ UNCHANGED <<registered, disk, outcome, runs, failedSaves>>

-----------------------------------------------------------------------------

Init ==
  /\ registered \in Registries
  /\ phase = "off"
  /\ todo = {} /\ at = Idle
  /\ status = [t \in Tasks |-> "pending"]
  /\ verified = {} /\ known = {} /\ board = {}
  /\ delegations = 0
  /\ bus = QuietBus
  /\ disk = NoState
  /\ outcome = "none"
  /\ runs = 0 /\ failedSaves = 0

Visit(t) ==
  \/ SkipVerified(t) \/ HitLimit(t) \/ FindNobody(t)
  \/ \E a \in Agents : Assign(t, a)

Work ==
  \/ WorkBlocked \/ ToolFails
  \/ \E names \in SUBSET Requiring : Produce(names) \/ \E ok \in BOOLEAN : RunTool(ok, names)

RunStep ==
  \/ NewRound \/ Finish \/ (\E t \in Tasks : Visit(t))
  \/ Work \/ (\E saved \in BOOLEAN : Accept(saved))
  \/ Revise \/ GiveUp \/ \E a \in Agents : Reassign(a)

Next == RunStep \/ Crash \/ \E resume \in BOOLEAN : Start(resume)

Spec == Init /\ [][Next]_vars

\* A run that was started goes on as long as its process lives.
FairSpec == Spec /\ WF_vars(RunStep)

-----------------------------------------------------------------------------
(* Properties.                                                             *)

TypeOK ==
  /\ registered \in SUBSET Agents
  /\ phase \in {"off", "round", "work", "judged", "over"}
  /\ todo \in SUBSET Tasks
  /\ at \in [task : Tasks \cup {0}, agent : Agents \cup {Nobody}, attempt : 0..MaxRevisions,
             tried : SUBSET Agents,
             verdict : {"none", "blocked", "not_verified", "need_more_evidence",
                        "contradicted", "verified"}]
  /\ status \in [Tasks -> {"pending", "running", "succeeded", "failed"}]
  /\ verified \in SUBSET Tasks /\ known \in SUBSET Tasks
  /\ delegations \in Nat
  /\ bus \in [log : 0..MaxMessages, count : [Topics -> Nat], loop : BOOLEAN]
  /\ board \in SUBSET Entry
  /\ disk \in State
  /\ outcome \in {"none", "complete", "failed", "blocked", "limit_exceeded"}
  /\ runs \in Nat /\ failedSaves \in Nat

\* "only declares the mission COMPLETE when every required subtask is
\* independently VERIFIED": after revisions, reassignments, crashes and
\* resumes, what a complete mission required is still on its blackboard.
CompleteIsVerified ==
  (phase = "over" /\ outcome = "complete") =>
    \A t \in Tasks : /\ status[t] = "succeeded"
                     /\ VerifiedEntry(t) \in board
                     /\ ~Missing(board, t)

\* No mission is certified over evidence that contradicts it (critic, stage 4).
CompleteIsUncontradicted ==
  (phase = "over" /\ outcome = "complete") => ~Contradicted(board)

\* A checkpoint names no task whose verdict is not in its own snapshot: a
\* resume never trusts work without its evidence (_checkpoint, restore_board).
CheckpointHasEvidence == \A t \in disk.verified : VerifiedEntry(t) \in disk.board

\* "completed work is never redone": no task of the checkpoint on disk is
\* delegated, however often the process dies and the mission is resumed.
VerifiedNotRedone == phase \in {"work", "judged"} => at.task \notin disk.verified

\* A task is worked on only once everything it depends on was verified.
DependenciesVerified ==
  phase \in {"work", "judged"} => \A d \in Deps[at.task] : d \in verified

\* The delegation budget is tested before a task only, and one task may take
\* all its revisions and reassignments: this is how far it can be overdrawn.
DelegationsBounded ==
  delegations < MaxDelegations + (MaxReassignments + 1) * (MaxRevisions + 1)

\* Every run ends with a report, unless its process dies.
MissionEnds == phase = "round" ~> phase \in {"over", "off"}

\* The inductive strengthening of the above.  The records, the mission state
\* and the graph agree: what is recorded as verified is never worked on, and
\* what is ready or worked on depends on verified tasks only.
Working == phase \in {"work", "judged"}

RecordsInv ==
  /\ verified = known
  /\ phase # "off" => disk.verified \subseteq known
  /\ \A t \in Tasks : (status[t] = "succeeded" => t \in known) /\ (status[t] = "failed" => t \notin known)
  /\ \A t \in todo : status[t] = "pending" /\ Deps[t] \subseteq known
  /\ Working => /\ at.task \in Tasks /\ at.agent \in Agents
                /\ status[at.task] = "running" /\ at.task \notin known
                /\ Deps[at.task] \subseteq known
  /\ (phase = "over" /\ outcome = "complete") =>
       \A t \in Tasks : status[t] = "succeeded" /\ t \in known

\* What is verified is backed on the board it was verified on, in memory and on
\* disk.  A contradiction ends all certification: it stays on the board while
\* some task is unverified, and nothing is verified or checkpointed after it.
Backed(tasks, entries) ==
  \A t \in tasks : VerifiedEntry(t) \in entries /\ ~Missing(entries, t)

EvidenceInv ==
  /\ Backed(known, board)
  /\ Backed(disk.verified, disk.board) /\ ~Contradicted(disk.board)
  /\ (phase = "judged" /\ at.verdict = "verified") =>
       ~Missing(board, at.task) /\ ~Contradicted(board)
  /\ Contradicted(board) => \E t \in Tasks : t \notin known

\* A delegation under way is the last of those its agents and attempts make up.
Spent == (Cardinality(at.tried) - 1) * (MaxRevisions + 1) + at.attempt

SpendingInv ==
  /\ Working => /\ IsFiniteSet(at.tried) /\ at.tried # {}
                /\ Cardinality(at.tried) <= MaxReassignments + 1
  /\ phase = "work" => delegations < MaxDelegations + Spent
  /\ phase = "judged" => delegations <= MaxDelegations + Spent
  /\ DelegationsBounded

MissionInv == RecordsInv /\ EvidenceInv /\ SpendingInv

\* "A subtask that must be backed by a real tool/observation but has none is
\* NOT verified" (critic, stage 2).
OwnEvidence ==
  \A t \in verified \cap NeedsTool : \E e \in board : e.task = t /\ e.kind = "tool"

=============================================================================
