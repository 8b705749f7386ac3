---------------------------- MODULE SupervisorProofs ----------------------------
(***************************************************************************)
(* Theorems about Supervisor, for every graph, registry and limits.        *)
(***************************************************************************)
EXTENDS Supervisor, FiniteSetTheorems, TLAPS

AtType == [task : Tasks \cup {0}, agent : Agents \cup {Nobody}, attempt : 0..MaxRevisions,
           tried : SUBSET Agents,
           verdict : {"none", "blocked", "not_verified", "need_more_evidence",
                      "contradicted", "verified"}]
BusType == [log : 0..MaxMessages, count : [Topics -> Nat], loop : BOOLEAN]

-----------------------------------------------------------------------------
(* The operators.                                                          *)

LEMMA SendType == ASSUME NEW b \in BusType, NEW k \in Topics PROVE Send(b, k) \in BusType
<1> DEFINE n == b.count[k] + 1
<1>1. n \in Nat /\ [b.count EXCEPT ![k] = n] \in [Topics -> Nat]
  BY DEF BusType
<1>2. b.log < MaxMessages => b.log + 1 \in 0..MaxMessages
  BY LimitAssumption DEF BusType
<1>3. (n > MaxRepeat) \in BOOLEAN
  OBVIOUS
<1> HIDE DEF n
<1> QED BY <1>1, <1>2, <1>3, LimitAssumption DEF BusType, Send, n

LEMMA SendOthersType == ASSUME NEW b \in BusType, NEW n \in Nat PROVE SendOthers(b, n) \in BusType
  BY LimitAssumption DEF BusType, SendOthers

LEMMA VerdictType ==
  ASSUME NEW entries, NEW t
  PROVE  Verdict(entries, t) \in {"not_verified", "need_more_evidence", "contradicted", "verified"}
  BY DEF Verdict

\* A verified verdict: nothing required is missing, nothing contradicts.
LEMMA VerifiedVerdict ==
  ASSUME NEW entries, NEW t, Verdict(entries, t) = "verified"
  PROVE  ~Missing(entries, t) /\ ~Contradicted(entries)
  BY DEF Verdict

LEMMA VerifiedEntryType == \A t \in Tasks : VerifiedEntry(t) \in Entry
  BY DEF VerifiedEntry, Entry

LEMMA ResultType ==
  ASSUME at.task \in Tasks, NEW kinds \in SUBSET {"tool", "claim"}, NEW ok \in BOOLEAN,
         NEW names \in SUBSET Requiring
  PROVE  Result(kinds, ok, names) \in SUBSET Entry
<1> SUFFICES ASSUME NEW k \in kinds
             PROVE  [task |-> at.task, kind |-> k, ok |-> (k = "tool" => ok), names |-> names] \in Entry
  BY Zenon DEF Result
<1>1. (k = "tool" => ok) \in BOOLEAN
  OBVIOUS
<1> QED BY <1>1 DEF Entry

\* More entries back as much.
LEMMA BackedMonotonic ==
  ASSUME NEW tasks, NEW entries, NEW more, Backed(tasks, entries)
  PROVE  Backed(tasks, entries \cup more)
  BY DEF Backed, Missing

-----------------------------------------------------------------------------
(* Types.                                                                  *)

AgentInv == TypeOK /\ (Working => at.task \in Tasks /\ at.agent \in Agents)

LEMMA InitType == Init => AgentInv
  BY MissionAssumption, LimitAssumption
  DEF Init, AgentInv, TypeOK, Working, Idle, QuietBus, NoState, State

LEMMA IdleType == Idle \in AtType
  BY LimitAssumption DEF Idle, AtType

LEMMA JudgeType ==
  ASSUME AgentInv, NEW entries \in SUBSET Entry, NEW n \in Nat, Judge(entries, n)
  PROVE  AgentInv'
<1>1. at \in AtType /\ bus \in BusType
  BY DEF AgentInv, TypeOK, AtType, BusType
<1>2. at.task \in Tasks /\ at.agent \in Agents
  BY DEF AgentInv, Working, Judge
<1>3. <<at.task, at.agent>> \in Topics /\ <<at.task, Critic>> \in Topics
  BY <1>2 DEF Topics
<1>4. bus' \in BusType
  BY <1>1, <1>3, SendType, SendOthersType DEF Judge, Delegated
<1>5. Verdict(board', at.task) \in {"not_verified", "need_more_evidence", "contradicted", "verified"}
  BY VerdictType
<1>6. at' \in AtType /\ at'.task = at.task /\ at'.agent = at.agent
  BY <1>1, <1>5 DEF Judge, AtType
<1> QED BY <1>2, <1>4, <1>6 DEF Judge, AgentInv, TypeOK, Working, AtType, BusType

LEMMA TypeStep == AgentInv /\ [Next]_vars => AgentInv'
<1> SUFFICES ASSUME AgentInv, [Next]_vars PROVE AgentInv'
  OBVIOUS
<1> USE MissionAssumption, LimitAssumption
<1>0. /\ at \in AtType /\ bus \in BusType /\ TypeOK
      /\ Working => at.task \in Tasks /\ at.agent \in Agents
  BY DEF AgentInv, TypeOK, AtType, BusType
<1>1. CASE NewRound
  BY <1>0, <1>1 DEF NewRound, ReadyTasks, AgentInv, TypeOK, Working
<1>2. CASE Finish
  BY <1>0, <1>2 DEF Finish, AgentInv, TypeOK, Working
<1>3. ASSUME NEW t \in Tasks, Visit(t) PROVE AgentInv'
  <2>1. CASE SkipVerified(t)
    BY <1>0, <2>1 DEF SkipVerified, Visiting, Mark, AgentInv, TypeOK, Working
  <2>2. CASE HitLimit(t)
    BY <1>0, <2>2 DEF HitLimit, AgentInv, TypeOK, Working
  <2>3. CASE FindNobody(t)
    BY <1>0, <2>3 DEF FindNobody, Undone, Visiting, Mark, AgentInv, TypeOK, Working
  <2>4. ASSUME NEW a \in Agents, Assign(t, a) PROVE AgentInv'
    <3>1. at' \in AtType /\ at'.task = t /\ at'.agent = a
      BY <2>4, IdleType DEF Assign, AtType, Idle
    <3> QED BY <1>0, <2>4, <3>1 DEF Assign, Mark, AgentInv, TypeOK, Working, AtType
  <2> QED BY <1>3, <2>1, <2>2, <2>3, <2>4 DEF Visit
<1>4. CASE WorkBlocked
  <2>1. <<at.task, at.agent>> \in Topics
    BY <1>0, <1>4 DEF WorkBlocked, Working, Topics
  <2>2. bus' \in BusType
    BY <1>0, <1>4, <2>1, SendType, SendOthersType DEF WorkBlocked, Delegated
  <2> QED BY <1>0, <1>4, <2>2 DEF WorkBlocked, AgentInv, TypeOK, Working, BusType, AtType
<1>5. CASE ToolFails
  BY <1>5, JudgeType DEF ToolFails
<1>6. ASSUME NEW names \in SUBSET Requiring, Produce(names) PROVE AgentInv'
  <2>1. at.task \in Tasks
    BY <1>0, <1>6 DEF Produce, Judge, Working
  <2> DEFINE entries == Result({"claim"}, TRUE, names)
  <2>2. entries \in SUBSET Entry
    BY <2>1, ResultType
  <2>3. Judge(entries, 1)
    BY <1>6 DEF Produce
  <2> HIDE DEF entries
  <2> QED BY <2>2, <2>3, JudgeType
<1>7. ASSUME NEW ok \in BOOLEAN, NEW names \in SUBSET Requiring, RunTool(ok, names)
      PROVE  AgentInv'
  <2>1. at.task \in Tasks
    BY <1>0, <1>7 DEF RunTool, Judge, Working
  <2>2. Result({"tool", "claim"}, ok, names) \in SUBSET Entry
    BY <2>1, ResultType
  <2> QED BY <1>7, <2>2, JudgeType DEF RunTool
<1>8. ASSUME NEW saved \in BOOLEAN, Accept(saved) PROVE AgentInv'
  <2>1. at.task \in Tasks /\ VerifiedEntry(at.task) \in Entry
    BY <1>0, <1>8, VerifiedEntryType DEF Accept, Working
  <2>2. board' \in SUBSET Entry /\ known' \in SUBSET Tasks /\ verified' \in SUBSET Tasks
    BY <1>0, <1>8, <2>1 DEF Accept, TypeOK
  <2>3. disk' \in State
    BY <1>0, <1>8, <2>2 DEF Accept, Snapshot, State, TypeOK
  <2>4. failedSaves' \in Nat
    BY <1>0, <1>8 DEF Accept, TypeOK
  <2> QED BY <1>0, <1>8, <2>1, <2>2, <2>3, <2>4, IdleType
          DEF Accept, Mark, AgentInv, TypeOK, Working, AtType
<1>9. CASE Revise
  <2>1. at.attempt + 1 \in 0..MaxRevisions
    BY <1>0, <1>9 DEF Revise, Another, AtType
  <2>2. at' \in AtType /\ at'.task = at.task /\ at'.agent = at.agent
    BY <1>0, <1>9, <2>1 DEF Revise, AtType
  <2>3. bus' \in BusType
    BY <1>0, <1>9, SendOthersType DEF Revise
  <2> QED BY <1>0, <1>9, <2>2, <2>3 DEF Revise, Another, Rejected, AgentInv, TypeOK, Working, AtType, BusType
<1>10. CASE GiveUp
  <2>1. at.task \in Tasks
    BY <1>0, <1>10 DEF GiveUp, Exhausted, Rejected, Working
  <2> QED BY <1>0, <1>10, <2>1, IdleType DEF GiveUp, Mark, AgentInv, TypeOK, Working, AtType
<1>11. ASSUME NEW a \in Agents, Reassign(a) PROVE AgentInv'
  <2>1. at.task \in Tasks
    BY <1>0, <1>11 DEF Reassign, Exhausted, Rejected, Working
  <2>2. at' \in AtType /\ at'.task = at.task /\ at'.agent = a
    BY <1>0, <1>11, <2>1 DEF Reassign, AtType
  <2>3. bus' \in BusType
    BY <1>0, <1>11, <2>1, SendType DEF Reassign, Topics
  <2> QED BY <1>0, <1>11, <2>1, <2>2, <2>3 DEF Reassign, AgentInv, TypeOK, Working, AtType, BusType
<1>12. CASE Crash
  BY <1>0, <1>12, IdleType DEF Crash, QuietBus, AgentInv, TypeOK, Working, AtType
<1>13. ASSUME NEW resume \in BOOLEAN, Start(resume) PROVE AgentInv'
  <2>1. Restored(resume) \in State
    BY <1>0 DEF Restored, NoState, State, TypeOK
  <2> QED BY <1>0, <1>13, <2>1, IdleType DEF Start, QuietBus, State, AgentInv, TypeOK, Working, AtType
<1>14. CASE UNCHANGED vars
  BY <1>0, <1>14 DEF vars, AgentInv, TypeOK, Working
<1> QED BY <1>1, <1>2, <1>3, <1>4, <1>5, <1>6, <1>7, <1>8, <1>9, <1>10, <1>11, <1>12, <1>13, <1>14
        DEF Next, RunStep, Work

\* Every state of the supervisor has its type.
THEOREM TypeCorrect == Spec => []TypeOK
<1>1. AgentInv => TypeOK
  BY DEF AgentInv
<1> QED BY <1>1, InitType, TypeStep, PTL DEF Spec

-----------------------------------------------------------------------------
(* Records.                                                                *)

LEMMA InitRecords == Init => RecordsInv
  BY MissionAssumption DEF Init, RecordsInv, Working, NoState

LEMMA RecordsStep == AgentInv /\ RecordsInv /\ [Next]_vars => RecordsInv'
<1> SUFFICES ASSUME AgentInv, RecordsInv, [Next]_vars PROVE RecordsInv'
  OBVIOUS
<1> USE MissionAssumption
<1>0. TypeOK
  BY DEF AgentInv
<1>1. CASE NewRound
  <2>1. \A t \in ReadyTasks : status[t] = "pending" /\ Deps[t] \subseteq known
    BY <1>0 DEF ReadyTasks, Ready, RecordsInv, TypeOK
  <2> QED BY <1>1, <2>1 DEF NewRound, RecordsInv, Working
<1>2. CASE Finish
  <2>1. outcome' = "complete" => \A t \in Tasks : status[t] = "succeeded" /\ t \in known
    BY <1>2 DEF Finish, Certified, Finished, Terminal, RecordsInv
  <2> QED BY <1>2, <2>1 DEF Finish, RecordsInv, Working
<1>3. ASSUME NEW t \in Tasks, Visit(t) PROVE RecordsInv'
  <2>1. CASE SkipVerified(t)
    BY <1>0, <2>1 DEF SkipVerified, Visiting, Mark, RecordsInv, Working, TypeOK
  <2>2. CASE HitLimit(t)
    BY <2>2 DEF HitLimit, Undone, Visiting, RecordsInv, Working
  <2>3. CASE FindNobody(t)
    BY <1>0, <2>3 DEF FindNobody, Undone, Visiting, Mark, RecordsInv, Working, TypeOK
  <2>4. ASSUME NEW a \in Agents, Assign(t, a) PROVE RecordsInv'
    <3>1. at'.task = t /\ at'.agent = a
      BY <2>4 DEF Assign, Idle
    <3>2. t \in todo /\ t \notin known /\ phase = "round"
      BY <2>4 DEF Assign, Undone, Visiting
    <3>3. status' = [status EXCEPT ![t] = "running"] /\ todo' = todo \ {t}
      BY <2>4 DEF Assign, Mark
    <3>4. phase' = "work" /\ UNCHANGED <<verified, known, disk, outcome>>
      BY <2>4 DEF Assign
    <3> QED BY <1>0, <3>1, <3>2, <3>3, <3>4 DEF RecordsInv, Working, TypeOK
  <2> QED BY <1>3, <2>1, <2>2, <2>3, <2>4 DEF Visit
<1>4. CASE Work
  <2>1. /\ phase = "work" /\ phase' = "judged"
        /\ at'.task = at.task /\ at'.agent = at.agent
        /\ UNCHANGED <<todo, status, verified, known, disk, outcome>>
    <3>1. CASE WorkBlocked
      BY <1>0, <3>1 DEF WorkBlocked, TypeOK
    <3>2. ASSUME NEW entries, NEW n, Judge(entries, n)
          PROVE  /\ phase = "work" /\ phase' = "judged"
                 /\ at'.task = at.task /\ at'.agent = at.agent
                 /\ UNCHANGED <<todo, status, verified, known, disk, outcome>>
      BY <1>0, <3>2 DEF Judge, TypeOK
    <3>3. WorkBlocked \/ \E entries, n : Judge(entries, n)
      BY <1>4, Zenon DEF Work, ToolFails, Produce, RunTool
    <3> QED BY <3>1, <3>2, <3>3, Zenon
  <2> QED BY <2>1 DEF RecordsInv, Working
<1>5. ASSUME NEW saved \in BOOLEAN, Accept(saved) PROVE RecordsInv'
  <2>1. /\ at.task \in Tasks /\ status[at.task] = "running"
        /\ status' = [status EXCEPT ![at.task] = "succeeded"]
        /\ known' = known \cup {at.task} /\ verified' = known'
    BY <1>5 DEF Accept, Mark, RecordsInv, Working
  <2>2. disk'.verified \subseteq known'
    BY <1>5 DEF Accept, RecordsInv
  <2>3. phase' = "round" /\ phase = "judged" /\ todo' = todo
    BY <1>5 DEF Accept
  <2>4. \A t \in todo : t # at.task
    BY <2>1 DEF RecordsInv
  <2> QED BY <1>0, <2>1, <2>2, <2>3, <2>4 DEF RecordsInv, Working, TypeOK
<1>6. CASE Revise \/ \E a \in Agents : Reassign(a)
  <2>1. /\ phase = "judged" /\ phase' = "work"
        /\ at'.task = at.task /\ at'.agent \in Agents
        /\ UNCHANGED <<todo, status, verified, known, disk, outcome>>
    <3>1. CASE Revise
      BY <1>0, <3>1 DEF Revise, Another, Rejected, TypeOK, RecordsInv, Working
    <3>2. ASSUME NEW a \in Agents, Reassign(a)
          PROVE  /\ phase = "judged" /\ phase' = "work"
                 /\ at'.task = at.task /\ at'.agent \in Agents
                 /\ UNCHANGED <<todo, status, verified, known, disk, outcome>>
      BY <3>2 DEF Reassign, Exhausted, Rejected
    <3> QED BY <1>6, <3>1, <3>2
  <2> QED BY <2>1 DEF RecordsInv, Working
<1>7. CASE GiveUp
  <2>1. /\ at.task \in Tasks /\ at.task \notin known /\ status[at.task] = "running"
        /\ status' = [status EXCEPT ![at.task] = "failed"]
    BY <1>7 DEF GiveUp, Exhausted, Rejected, Mark, RecordsInv, Working
  <2>2. phase' = "round" /\ phase = "judged" /\ UNCHANGED <<todo, verified, known, disk>>
    BY <1>7 DEF GiveUp, Exhausted, Rejected
  <2>3. \A t \in todo : t # at.task
    BY <2>1 DEF RecordsInv
  <2> QED BY <1>0, <2>1, <2>2, <2>3 DEF RecordsInv, Working, TypeOK
<1>8. CASE Crash
  BY <1>8 DEF Crash, RecordsInv, Working
<1>9. ASSUME NEW resume \in BOOLEAN, Start(resume) PROVE RecordsInv'
  BY <1>9 DEF Start, RecordsInv, Working
<1>10. CASE UNCHANGED vars
  BY <1>10 DEF vars, RecordsInv, Working
<1> QED BY <1>1, <1>2, <1>3, <1>4, <1>5, <1>6, <1>7, <1>8, <1>9, <1>10 DEF Next, RunStep

-----------------------------------------------------------------------------
(* Evidence.                                                               *)

LEMMA InitEvidence == Init => EvidenceInv
  BY DEF Init, EvidenceInv, Backed, Contradicted, Evidence, NoState

\* A verified verdict contradicts nothing, and neither does its entry.
LEMMA AcceptUncontradicted ==
  ASSUME NEW entries, NEW t, ~Contradicted(entries)
  PROVE  ~Contradicted(entries \cup {VerifiedEntry(t)})
  BY DEF Contradicted, Evidence, VerifiedEntry

LEMMA EvidenceStep == AgentInv /\ RecordsInv /\ EvidenceInv /\ [Next]_vars => EvidenceInv'
<1> SUFFICES ASSUME AgentInv, RecordsInv, EvidenceInv, [Next]_vars PROVE EvidenceInv'
  OBVIOUS
<1>0. TypeOK
  BY DEF AgentInv
<1>1. ASSUME UNCHANGED <<known, board, disk>>, phase' # "judged" \/ UNCHANGED <<phase, at>>
      PROVE  EvidenceInv'
  BY <1>1 DEF EvidenceInv
<1>2. CASE NewRound \/ Finish \/ Revise \/ GiveUp \/ UNCHANGED vars
  <2>1. UNCHANGED <<known, board, disk>> /\ (phase' # "judged" \/ UNCHANGED <<phase, at>>)
    BY <1>2 DEF NewRound, Finish, Revise, GiveUp, vars
  <2> QED BY <1>1, <2>1
<1>3. ASSUME NEW t \in Tasks, Visit(t) PROVE EvidenceInv'
  <2>1. UNCHANGED <<known, board, disk>> /\ phase' # "judged"
    BY <1>3 DEF Visit, SkipVerified, HitLimit, FindNobody, Assign, Undone, Visiting
  <2> QED BY <1>1, <2>1
<1>4. ASSUME NEW a \in Agents, Reassign(a) PROVE EvidenceInv'
  BY <1>1, <1>4 DEF Reassign
<1>5. CASE WorkBlocked
  <2>1. at'.verdict = "blocked" /\ UNCHANGED <<known, board, disk>>
    BY <1>0, <1>5 DEF WorkBlocked, TypeOK
  <2> QED BY <2>1 DEF EvidenceInv
<1>6. ASSUME NEW entries, NEW n, Judge(entries, n) PROVE EvidenceInv'
  <2>1. /\ board' = board \cup entries /\ UNCHANGED <<known, disk>>
        /\ at'.task = at.task /\ at'.verdict = Verdict(board', at.task)
    BY <1>0, <1>6 DEF Judge, TypeOK
  <2>2. Backed(known, board')
    BY <2>1, BackedMonotonic DEF EvidenceInv
  <2>3. at'.verdict = "verified" => ~Missing(board', at.task) /\ ~Contradicted(board')
    BY <2>1, VerifiedVerdict
  <2>4. at.task \in Tasks /\ at.task \notin known
    BY <1>6 DEF Judge, RecordsInv, Working
  <2> QED BY <2>1, <2>2, <2>3, <2>4 DEF EvidenceInv
<1>7. CASE Work
  BY <1>5, <1>6, <1>7 DEF Work, ToolFails, Produce, RunTool
<1>8. ASSUME NEW saved \in BOOLEAN, Accept(saved) PROVE EvidenceInv'
  <2>1. /\ board' = board \cup {VerifiedEntry(at.task)} /\ known' = known \cup {at.task}
        /\ phase' = "round"
        /\ disk' = disk \/ disk' = [verified |-> known', board |-> board']
    BY <1>8 DEF Accept, Snapshot
  <2>2. ~Missing(board, at.task) /\ ~Contradicted(board)
    BY <1>8 DEF Accept, EvidenceInv
  <2>3. ~Contradicted(board')
    BY <2>1, <2>2, AcceptUncontradicted
  <2>4. Backed(known, board') /\ Backed({at.task}, board')
    BY <2>1, <2>2, BackedMonotonic DEF EvidenceInv, Backed, Missing
  <2>5. Backed(known', board')
    BY <2>1, <2>4 DEF Backed
  <2> QED BY <2>1, <2>3, <2>5 DEF EvidenceInv
<1>9. CASE Crash
  BY <1>9 DEF Crash, EvidenceInv, Backed, Contradicted, Evidence
<1>10. ASSUME NEW resume \in BOOLEAN, Start(resume) PROVE EvidenceInv'
  <2>1. Backed(NoState.verified, NoState.board) /\ ~Contradicted(NoState.board)
    BY DEF NoState, Backed, Contradicted, Evidence
  <2>2. LET state == Restored(resume) IN Backed(state.verified, state.board) /\ ~Contradicted(state.board)
    BY <2>1 DEF Restored, EvidenceInv
  <2> QED BY <1>10, <2>2 DEF Start, EvidenceInv
<1> QED BY <1>2, <1>3, <1>4, <1>7, <1>8, <1>9, <1>10 DEF Next, RunStep

-----------------------------------------------------------------------------
(* Spending.                                                               *)

\* What c reassignments and their attempts make up at most.
LEMMA Product ==
  ASSUME NEW c \in Nat, NEW d \in Nat, NEW r \in Nat, c <= d
  PROVE  /\ c * (r + 1) \in Nat /\ c * (r + 1) <= d * (r + 1)
         /\ (d + 1) * (r + 1) = d * (r + 1) + (r + 1)
<1>1. c * r \in Nat /\ d * r \in Nat /\ (d - c) \in Nat /\ (d - c) * r \in Nat
  OBVIOUS
<1>2. d * r = c * r + (d - c) * r
  OBVIOUS
<1>3. c * (r + 1) = c * r + c /\ d * (r + 1) = d * r + d /\ (d + 1) * (r + 1) = d * r + d + r + 1
  OBVIOUS
<1> QED BY <1>1, <1>2, <1>3

Limit == (MaxReassignments + 1) * (MaxRevisions + 1)

LEMMA LimitType == Limit \in Nat \ {0}
  BY Product, LimitAssumption DEF Limit

\* What was spent on the task at hand stays below the limit of one task.
LEMMA SpentBelowLimit ==
  ASSUME AgentInv, SpendingInv, Working
  PROVE  /\ Cardinality(at.tried) \in Nat \ {0} /\ Spent \in Nat /\ Spent < Limit
<1>1. Cardinality(at.tried) \in Nat /\ Cardinality(at.tried) # 0
  BY FS_CardinalityType, FS_EmptySet DEF SpendingInv
<1> DEFINE c == Cardinality(at.tried) - 1
<1>2. c \in Nat /\ c <= MaxReassignments
  BY <1>1, LimitAssumption DEF SpendingInv
<1>3. at.attempt \in 0..MaxRevisions
  BY DEF AgentInv, TypeOK
<1>4. Spent = c * (MaxRevisions + 1) + at.attempt
  BY DEF Spent
<1> HIDE DEF c
<1>5. /\ c * (MaxRevisions + 1) \in Nat
      /\ c * (MaxRevisions + 1) <= MaxReassignments * (MaxRevisions + 1)
      /\ Limit = MaxReassignments * (MaxRevisions + 1) + (MaxRevisions + 1)
  BY <1>2, Product, LimitAssumption DEF Limit
<1>6. MaxReassignments * (MaxRevisions + 1) \in Nat
  BY Product, LimitAssumption
<1> QED BY <1>1, <1>3, <1>4, <1>5, <1>6, LimitAssumption

LEMMA InitSpending == Init => SpendingInv
  BY LimitType, LimitAssumption DEF Init, SpendingInv, Working, DelegationsBounded, Limit

LEMMA SpendingStep == AgentInv /\ SpendingInv /\ [Next]_vars => SpendingInv'
<1> SUFFICES ASSUME AgentInv, SpendingInv, [Next]_vars PROVE SpendingInv'
  OBVIOUS
<1> USE LimitAssumption
<1>0. delegations \in Nat /\ at.attempt \in 0..MaxRevisions /\ TypeOK
  BY DEF AgentInv, TypeOK
<1>1. ASSUME phase' \notin {"work", "judged"}, delegations' = delegations \/ delegations' = 0
      PROVE  SpendingInv'
  BY <1>1, LimitType DEF SpendingInv, Working, DelegationsBounded, Limit
<1>2. CASE NewRound \/ Finish \/ GiveUp \/ Crash
  BY <1>1, <1>2 DEF NewRound, Finish, GiveUp, Crash
<1>3. ASSUME NEW t \in Tasks, Visit(t) PROVE SpendingInv'
  <2>1. CASE SkipVerified(t) \/ HitLimit(t) \/ FindNobody(t)
    BY <1>1, <2>1 DEF SkipVerified, HitLimit, FindNobody, Undone, Visiting
  <2>2. ASSUME NEW a \in Agents, Assign(t, a) PROVE SpendingInv'
    <3>1. at'.tried = {a} /\ at'.attempt = 0
      BY <2>2 DEF Assign, Idle
    <3>2. IsFiniteSet(at'.tried) /\ Cardinality(at'.tried) = 1
      BY <3>1, FS_Singleton
    <3>3. Spent' = 0
      BY <3>1, <3>2 DEF Spent
    <3>4. phase' = "work" /\ delegations' = delegations /\ delegations < MaxDelegations
      BY <2>2 DEF Assign
    <3>5. DelegationsBounded'
      BY <3>4, LimitType, <1>0 DEF DelegationsBounded, Limit
    <3> QED BY <1>0, <3>1, <3>2, <3>3, <3>4, <3>5 DEF SpendingInv, Working
  <2> QED BY <1>3, <2>1, <2>2 DEF Visit
<1>4. CASE Work
  <2>1. /\ phase = "work" /\ phase' = "judged" /\ delegations' = delegations + 1
        /\ at'.tried = at.tried /\ at'.attempt = at.attempt
    <3>1. CASE WorkBlocked
      BY <1>0, <3>1 DEF WorkBlocked, TypeOK
    <3>2. ASSUME NEW entries, NEW n, Judge(entries, n)
          PROVE  /\ phase = "work" /\ phase' = "judged" /\ delegations' = delegations + 1
                 /\ at'.tried = at.tried /\ at'.attempt = at.attempt
      BY <1>0, <3>2 DEF Judge, TypeOK
    <3>3. WorkBlocked \/ \E entries, n : Judge(entries, n)
      BY <1>4, Zenon DEF Work, ToolFails, Produce, RunTool
    <3> QED BY <3>1, <3>2, <3>3, Zenon
  <2>2. Spent' = Spent
    BY <2>1 DEF Spent
  <2>3. Spent \in Nat /\ Spent < Limit
    BY <2>1, SpentBelowLimit DEF Working
  <2>4. delegations + 1 <= MaxDelegations + Spent
    BY <1>0, <2>1, <2>3 DEF SpendingInv
  <2>5. DelegationsBounded'
    BY <1>0, <2>1, <2>3, <2>4, LimitType DEF DelegationsBounded, Limit
  <2> QED BY <2>1, <2>2, <2>4, <2>5 DEF SpendingInv, Working
<1>5. ASSUME NEW saved \in BOOLEAN, Accept(saved) PROVE SpendingInv'
  BY <1>1, <1>5 DEF Accept
<1>6. ASSUME /\ phase = "judged" /\ phase' = "work" /\ delegations' = delegations
             /\ IsFiniteSet(at'.tried) /\ at'.tried # {}
             /\ Cardinality(at'.tried) <= MaxReassignments + 1
             /\ Spent' = Spent + 1
      PROVE  SpendingInv'
  <2>1. Spent \in Nat
    BY <1>6, SpentBelowLimit DEF Working
  <2>2. delegations' < MaxDelegations + Spent'
    BY <1>0, <1>6, <2>1 DEF SpendingInv
  <2> QED BY <1>6, <2>2 DEF SpendingInv, Working, DelegationsBounded
<1>7. CASE Revise
  <2>1. at'.tried = at.tried /\ at'.attempt = at.attempt + 1 /\ phase = "judged"
    BY <1>0, <1>7 DEF Revise, Another, Rejected, TypeOK
  <2>2. Spent \in Nat /\ Cardinality(at.tried) \in Nat
    BY <2>1, SpentBelowLimit DEF Working
  <2>3. Spent' = Spent + 1
    BY <1>0, <2>1, <2>2, Product DEF Spent
  <2> QED BY <1>6, <1>7, <2>1, <2>3 DEF Revise, SpendingInv, Working
<1>8. ASSUME NEW a \in Agents, Reassign(a) PROVE SpendingInv'
  <2>1. /\ at'.tried = at.tried \cup {a} /\ at'.attempt = 0
        /\ phase = "judged" /\ at.attempt = MaxRevisions
        /\ Cardinality(at.tried) - 1 < MaxReassignments
    BY <1>0, <1>8 DEF Reassign, Exhausted, Rejected, Reassignments
  <2>2. a \notin at.tried
    BY <1>8 DEF Reassign, Alternate, Others
  <2>3. /\ IsFiniteSet(at'.tried) /\ Cardinality(at'.tried) = Cardinality(at.tried) + 1
        /\ Cardinality(at.tried) \in Nat \ {0}
    BY <2>1, <2>2, FS_AddElement, SpentBelowLimit DEF SpendingInv, Working
  <2>4. Spent' = Spent + 1
    <3> DEFINE c == Cardinality(at.tried) - 1
    <3>1. c \in Nat /\ Cardinality(at'.tried) - 1 = c + 1
      BY <2>3
    <3>2. Spent = c * (MaxRevisions + 1) + MaxRevisions /\ Spent' = (c + 1) * (MaxRevisions + 1) + 0
      BY <2>1, <2>3, <3>1 DEF Spent
    <3> HIDE DEF c
    <3>3. (c + 1) * (MaxRevisions + 1) = c * (MaxRevisions + 1) + (MaxRevisions + 1)
      BY <3>1, Product
    <3>4. c * (MaxRevisions + 1) \in Nat
      BY <3>1, Product
    <3> QED BY <3>2, <3>3, <3>4
  <2> QED BY <1>6, <1>8, <2>1, <2>3, <2>4 DEF Reassign
<1>9. ASSUME NEW resume \in BOOLEAN, Start(resume) PROVE SpendingInv'
  BY <1>1, <1>9 DEF Start
<1>10. CASE UNCHANGED vars
  BY <1>10 DEF vars, SpendingInv, Working, DelegationsBounded, Spent
<1> QED BY <1>2, <1>3, <1>4, <1>5, <1>7, <1>8, <1>9, <1>10 DEF Next, RunStep

-----------------------------------------------------------------------------
(* The theorems.                                                           *)

\* The inductive invariant: the records, the evidence and the spending of every
\* mission agree.
THEOREM MissionInvariant == Spec => [](AgentInv /\ MissionInv)
<1> DEFINE Inv == AgentInv /\ RecordsInv /\ EvidenceInv /\ SpendingInv
<1>1. Init => Inv
  BY InitType, InitRecords, InitEvidence, InitSpending
<1>2. Inv /\ [Next]_vars => Inv'
  BY TypeStep, RecordsStep, EvidenceStep, SpendingStep
<1>3. Inv => AgentInv /\ MissionInv
  BY DEF MissionInv
<1> HIDE DEF Inv
<1> QED BY <1>1, <1>2, <1>3, PTL DEF Spec

\* A mission reported complete has every task succeeded, its verdict on the
\* board and nothing required missing (run, _report).
THEOREM CompleteMeansVerified == Spec => []CompleteIsVerified
<1>1. AgentInv /\ MissionInv => CompleteIsVerified
  BY DEF MissionInv, RecordsInv, EvidenceInv, Backed, CompleteIsVerified
<1> QED BY <1>1, MissionInvariant, PTL

\* No mission is reported complete over contradicting evidence.
THEOREM CompleteMeansUncontradicted == Spec => []CompleteIsUncontradicted
<1>1. AgentInv /\ MissionInv => CompleteIsUncontradicted
  BY DEF MissionInv, RecordsInv, EvidenceInv, CompleteIsUncontradicted
<1> QED BY <1>1, MissionInvariant, PTL

\* A checkpoint holds the verdict of every task it calls verified.
THEOREM CheckpointsHaveEvidence == Spec => []CheckpointHasEvidence
<1>1. AgentInv /\ MissionInv => CheckpointHasEvidence
  BY DEF MissionInv, EvidenceInv, Backed, CheckpointHasEvidence
<1> QED BY <1>1, MissionInvariant, PTL

\* What a checkpoint calls verified is never delegated again.
THEOREM VerifiedWorkNotRedone == Spec => []VerifiedNotRedone
<1>1. AgentInv /\ MissionInv => VerifiedNotRedone
  BY DEF MissionInv, RecordsInv, Working, VerifiedNotRedone
<1> QED BY <1>1, MissionInvariant, PTL

\* Only tasks whose dependencies were verified are delegated.
THEOREM WorkDependsOnVerified == Spec => []DependenciesVerified
<1>1. AgentInv /\ MissionInv => DependenciesVerified
  BY DEF MissionInv, RecordsInv, Working, DependenciesVerified
<1> QED BY <1>1, MissionInvariant, PTL

\* A run delegates fewer times than its budget and the attempts of one task.
THEOREM SpendingBounded == Spec => []DelegationsBounded
<1>1. AgentInv /\ MissionInv => DelegationsBounded
  BY DEF MissionInv, SpendingInv
<1> QED BY <1>1, MissionInvariant, PTL

=============================================================================
