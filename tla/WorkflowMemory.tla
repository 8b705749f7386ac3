--------------------------- MODULE WorkflowMemory ---------------------------
(***************************************************************************)
(* Workflow memory (src/ai-ml/src/autoflow_ai/memory): verified runs are   *)
(* promoted into a SQLite table of workflows with a version history, and   *)
(* into a vector index that finds them again.  Table, history and index    *)
(* are written one after the other, each write durable by itself, by runs  *)
(* that learn and by an operator at the command line, each in a process of *)
(* its own and none with a lock; another process searches.                 *)
(*                                                                         *)
(* A workflow is identified by the content it was first promoted with: the *)
(* code makes its id of the canonical name and the hash of that content,   *)
(* and keeps the id for every later version of the name.                   *)
(***************************************************************************)
EXTENDS Naturals, FiniteSets

CONSTANTS
  Learners,    \* runs that learn
  Contents,    \* contents (by hash) that runs produce, and ids of workflows
  Promotable,  \* those the promotion policy accepts
  NameOf,      \* the canonical name the orchestrator gives a content
  MaxVersion,  \* bound on versions
  None         \* stands for "nothing"

Versions == 1..MaxVersion
Statuses == {"active", "deprecated", "blocked"}
Row      == [version : Versions, content : Contents, status : Statuses]

ASSUME MemoryAssumption ==
  /\ Promotable \subseteq Contents /\ DOMAIN NameOf = Contents
  /\ None \notin Contents /\ None \notin Row
  /\ MaxVersion \in Nat \ {0}

VARIABLES
  rows,      \* workflows: the current row of each id, or None
  history,   \* workflow_versions: the content each version was recorded with
  index,     \* the ids in the vector index
  learner,   \* the runs that learn: step of each, and the row it is writing
  raced,     \* history: ids that two of them read before either had written
  operator,  \* the command line: its step and its workflow
  search     \* the search: its step, what is left to read, its hits

memoryVars == <<rows, history, index, learner, raced, operator, search>>

IdleLearner  == [step |-> "idle", id |-> None, content |-> None, version |-> 0]
IdleOperator == [step |-> "idle", id |-> None]
IdleSearch   == [step |-> "idle", left |-> {}, hits |-> {}, barred |-> {}]

MemoryInit ==
  /\ rows = [i \in Contents |-> None]
  /\ history = [i \in Contents |-> [v \in Versions |-> None]]
  /\ index = {} /\ raced = {}
  /\ learner = [l \in Learners |-> IdleLearner]
  /\ operator = IdleOperator /\ search = IdleSearch

-----------------------------------------------------------------------------
(* Promotion.                                                              *)

Learn(l, next) == learner' = [learner EXCEPT ![l] = next]

Known(content) == \E i \in Contents : rows[i] # None /\ rows[i].content = content

\* Seeded fault: a new version takes the number of its parent.
NextVersionOfParent(i) == IF rows[i] = None THEN 1 ELSE rows[i].version

NextVersion(i) == IF rows[i] = None THEN 1 ELSE rows[i].version + 1

Evaluate(content) == content \in Promotable

\* The policy and the lookup by hash.  A content that is the current one of
\* some row is not stored again, whatever the status of that row.
PromoteLooksUp(l, c) ==
  /\ learner[l].step = "idle"
  /\ Evaluate(c) /\ ~Known(c)
  /\ Learn(l, [IdleLearner EXCEPT !.step = "parent", !.content = c])
  /\ UNCHANGED <<rows, history, index, raced, operator, search>>

\* The row with the highest version of that name, or a workflow of its own.
Prior(c) == {i \in Contents : rows[i] # None /\ NameOf[i] = NameOf[c]}
Parents(c) ==
  IF Prior(c) = {} THEN {c}
  ELSE {i \in Prior(c) : \A j \in Prior(c) : rows[j].version <= rows[i].version}

\* What another run has read and not written yet.
ReadByAnother(l, i) == \E k \in Learners \ {l} : learner[k].step = "upsert" /\ learner[k].id = i

PromoteReads(l) ==
  /\ learner[l].step = "parent"
  /\ \E i \in Parents(learner[l].content) :
       /\ NextVersion(i) \in Versions
       /\ Learn(l, [step |-> "upsert", id |-> i, content |-> learner[l].content,
                    version |-> NextVersion(i)])
       /\ raced' = IF ReadByAnother(l, i) THEN raced \cup {i} ELSE raced
  /\ UNCHANGED <<rows, history, index, operator, search>>

\* A workflow that is active again is no longer barred from a search.
Unbar(i) == search' = [search EXCEPT !.barred = @ \ {i}]

\* The new version, ACTIVE whatever the row was, over whatever the row is.
Promoted(w) == [version |-> w.version, content |-> w.content, status |-> "active"]

PromoteUpserts(l) ==
  /\ learner[l].step = "upsert"
  /\ rows' = [rows EXCEPT ![learner[l].id] = Promoted(learner[l])]
  /\ Learn(l, [learner[l] EXCEPT !.step = "history"])
  /\ Unbar(learner[l].id)
  /\ UNCHANGED <<history, index, raced, operator>>

\* INSERT OR IGNORE: a version already recorded stays as it is.
PromoteRecords(l) ==
  /\ learner[l].step = "history"
  /\ history' = [history EXCEPT ![learner[l].id][learner[l].version] =
                   IF @ = None THEN learner[l].content ELSE @]
  /\ Learn(l, [learner[l] EXCEPT !.step = "index"])
  /\ UNCHANGED <<rows, index, raced, operator, search>>

PromoteIndexes(l) ==
  /\ learner[l].step = "index"
  /\ index' = index \cup {learner[l].id}
  /\ Learn(l, IdleLearner)
  /\ UNCHANGED <<rows, history, raced, operator, search>>

\* The process dies, or a write raises: the run swallows what learning raises.
PromoteStops(l) ==
  /\ learner[l].step # "idle"
  /\ Learn(l, IdleLearner)
  /\ UNCHANGED <<rows, history, index, raced, operator, search>>

-----------------------------------------------------------------------------
(* Management at the command line.                                         *)

SetStatus(i, s) == rows' = [rows EXCEPT ![i].status = s]

Block(i) ==
  /\ operator.step = "idle" /\ rows[i] # None
  /\ SetStatus(i, "blocked")
  /\ operator' = [step |-> "unindex", id |-> i]
  /\ UNCHANGED <<history, index, learner, raced, search>>

BlockUnindexes ==
  /\ operator.step = "unindex"
  /\ index' = index \ {operator.id}
  /\ operator' = IdleOperator
  /\ UNCHANGED <<rows, history, learner, raced, search>>

\* deprecate and restore ask nothing of the status they replace.
Deprecate(i) ==
  /\ operator.step = "idle" /\ rows[i] # None
  /\ SetStatus(i, "deprecated") /\ Unbar(i)
  /\ UNCHANGED <<history, index, learner, raced, operator>>

Restore(i) ==
  /\ operator.step = "idle" /\ rows[i] # None
  /\ SetStatus(i, "active") /\ Unbar(i)
  /\ operator' = [step |-> "index", id |-> i]
  /\ UNCHANGED <<history, index, learner, raced>>

RestoreIndexes ==
  /\ operator.step = "index"
  /\ index' = index \cup {operator.id}
  /\ operator' = IdleOperator
  /\ UNCHANGED <<rows, history, learner, raced, search>>

OperatorStops ==
  /\ operator.step # "idle"
  /\ operator' = IdleOperator
  /\ UNCHANGED <<rows, history, index, learner, raced, search>>

-----------------------------------------------------------------------------
(* Search: the index names the candidates, the table decides about each.   *)

\* barred: what was blocked when the search began and has stayed so.
SearchQueries ==
  /\ search.step = "query"
  /\ search' = [search EXCEPT !.step = "read", !.left = index,
                              !.barred = {i \in Contents : rows[i] # None /\ rows[i].status = "blocked"}]
  /\ UNCHANGED <<rows, history, index, learner, raced, operator>>

\* Seeded fault: what the index returns is taken for reusable.
ServableIfIndexed(i) == rows[i] # None

Servable(i) == rows[i] # None /\ rows[i].status # "blocked"

SearchReads(i) ==
  /\ search.step = "read" /\ i \in search.left
  /\ search' = [search EXCEPT !.left = @ \ {i},
                              !.hits = IF Servable(i) THEN @ \cup {[id |-> i, content |-> rows[i].content]}
                                      ELSE @]
  /\ UNCHANGED <<rows, history, index, learner, raced, operator>>

-----------------------------------------------------------------------------
(* Properties                                                              *)

\* The types of the tables and of the processes.
MemoryTypeOK ==
  /\ rows \in [Contents -> Row \cup {None}]
  /\ history \in [Contents -> [Versions -> Contents \cup {None}]]
  /\ index \subseteq Contents /\ raced \subseteq Contents
  /\ learner \in [Learners ->
       {IdleLearner}
       \cup [step : {"parent"}, id : {None}, content : Contents, version : {0}]
       \cup [step : {"upsert", "history", "index"}, id : Contents, content : Contents,
             version : Versions]]
  /\ operator \in [step : {"unindex", "index"}, id : Contents] \cup {IdleOperator}
  /\ search \in [step : {"idle", "query", "read"}, left : SUBSET Contents,
                 hits : SUBSET [id : Contents, content : Contents], barred : SUBSET Contents]

\* A search serves no workflow that was blocked when the search began and
\* that nothing has made active or deprecated since, although a promotion
\* under way may put it back into the index after block took it out
\* (memory/service.py:207, 240-248, 313-316).
BlockedIsNotServed == \A hit \in search.hits : hit.id \notin search.barred

\* A version names one content for good: the row of a workflow holds what
\* the history recorded for its version, whichever promotions overlapped or
\* died half way, unless two of them had both read their parent before either
\* wrote: no lock stands between the reads and the upsert
\* (memory/service.py:160-206, storage.py:126-144).
VersionNamesOneContentUnlessRaced ==
  \A i \in Contents \ raced : rows[i] # None =>
    history[i][rows[i].version] \in {None, rows[i].content}

\* What makes it inductive: a promotion that did not race writes a version
\* above everything recorded, and records what it wrote as long as the row is
\* at its version.
PromotionInv ==
  /\ \A i \in Contents \ raced, v \in Versions :
       history[i][v] # None => rows[i] # None /\ v <= rows[i].version
  /\ \A l \in Learners : LET w == learner[l] IN
       /\ w.step = "upsert" /\ w.id \notin raced =>
            w.version = NextVersion(w.id) /\ ~ReadByAnother(l, w.id)
       /\ w.step = "history" /\ w.id \notin raced =>
            /\ rows[w.id] # None /\ w.version <= rows[w.id].version
            /\ w.version = rows[w.id].version => w.content = rows[w.id].content

\* What makes BlockedIsNotServed inductive.
SearchInv ==
  /\ search.step = "query" => search.hits = {}
  /\ \A i \in search.barred : rows[i] # None /\ rows[i].status = "blocked"

=============================================================================
