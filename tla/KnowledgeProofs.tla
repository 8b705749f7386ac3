--------------------------- MODULE KnowledgeProofs ---------------------------
(***************************************************************************)
(* Theorems about Knowledge for all names, contents, documents, windows    *)
(* and bounds.                                                             *)
(***************************************************************************)
EXTENDS Knowledge, TLAPS

-----------------------------------------------------------------------------
(* Context assembly.                                                       *)

\* Filtering twice is filtering once, so what is excluded leaves no trace in
\* the context.
LEMMA AuthorizedTwice ==
  ASSUME NEW S, NEW auth PROVE Authorized(Authorized(S, auth), auth) = Authorized(S, auth)
  BY DEF Authorized

LEMMA AssembledFromAuthorized ==
  ASSUME NEW S, NEW auth, NEW w
  PROVE  Assembled(Authorized(S, auth), auth, w) = Assembled(S, auth, w)
  BY AuthorizedTwice DEF Assembled, Candidates

\* What the caller may not see has no influence on its context
\* (context/assembler.py:73-96), whatever is offered and whatever the window.
THEOREM UnseenInfluencesNothing == Spec => UnseenHasNoInfluence
<1> DEFINE Shaped == bundle = [items |-> bundle.items, window |-> bundle.window]
<1>1. Init => Shaped
  BY DEF Init, NoBundle
<1>2. Shaped /\ [Next]_vars => Shaped'
  BY DEF Next, MemoryStep, DocumentStep, BuildBegins, BuildEnds, vars
<1>3. Shaped' => SameWithoutUnseen
  BY AssembledFromAuthorized DEF SameWithoutUnseen, Shown
<1> HIDE DEF Shaped
<1> QED BY <1>1, <1>2, <1>3, PTL DEF Spec, UnseenHasNoInfluence

-----------------------------------------------------------------------------
(* Workflow memory.                                                        *)

MemoryInv ==
  MemoryTypeOK /\ PromotionInv /\ VersionNamesOneContentUnlessRaced /\ SearchInv /\ BlockedIsNotServed

\* What a step of the whole may do to the variables of workflow memory.
MemoryMoves ==
  \/ \E l \in Learners : \/ \E c \in Contents : PromoteLooksUp(l, c)
                         \/ PromoteReads(l) \/ PromoteUpserts(l) \/ PromoteRecords(l)
                         \/ PromoteIndexes(l) \/ PromoteStops(l)
  \/ \E i \in Contents : Block(i) \/ Deprecate(i) \/ Restore(i) \/ SearchReads(i)
  \/ BlockUnindexes \/ RestoreIndexes \/ OperatorStops \/ SearchQueries
  \/ /\ search' \in {IdleSearch, [IdleSearch EXCEPT !.step = "query"]}
     /\ UNCHANGED <<rows, history, index, learner, raced, operator>>
  \/ UNCHANGED memoryVars

LEMMA MemoryStepMoves == [Next]_vars => MemoryMoves
  BY DEF Next, vars, MemoryStep, DocumentStep, BuildBegins, BuildEnds, MemoryMoves

LEMMA MemoryInitInv == Init => MemoryInv
  BY MemoryAssumption DEF Init, MemoryInit, MemoryInv, MemoryTypeOK, PromotionInv, SearchInv,
     VersionNamesOneContentUnlessRaced, BlockedIsNotServed, IdleLearner, IdleOperator, IdleSearch

\* Setting a status changes nothing else of the table.
LEMMA StatusOnly ==
  ASSUME NEW n \in Contents, NEW s \in Statuses, MemoryTypeOK, rows[n] # None, SetStatus(n, s)
  PROVE  /\ rows' \in [Contents -> Row \cup {None}]
         /\ \A m \in Contents : /\ (rows'[m] = None) <=> (rows[m] = None)
                                /\ rows[m] # None => /\ rows'[m].version = rows[m].version
                                                     /\ rows'[m].content = rows[m].content
         /\ rows'[n] # None /\ rows'[n].status = s
         /\ \A m \in Contents \ {n} : rows'[m] = rows[m]
<1>1. rows[n] \in Row
  BY DEF MemoryTypeOK
<1>2. PICK r \in Row : r = [rows[n] EXCEPT !.status = s]
  BY <1>1 DEF Row
<1>3. r.version = rows[n].version /\ r.content = rows[n].content /\ r.status = s /\ r # None
  BY <1>1, <1>2, MemoryAssumption DEF Row
<1>4. rows' = [rows EXCEPT ![n] = r]
  BY <1>2 DEF SetStatus
<1> QED BY <1>3, <1>4 DEF MemoryTypeOK

LEMMA UnbarTyped ==
  ASSUME NEW n, MemoryTypeOK, Unbar(n)
  PROVE  /\ search' \in [step : {"idle", "query", "read"}, left : SUBSET Contents,
                         hits : SUBSET [id : Contents, content : Contents], barred : SUBSET Contents]
         /\ search'.barred = search.barred \ {n}
         /\ search'.step = search.step /\ search'.hits = search.hits
  BY DEF Unbar, MemoryTypeOK

\* What a run that learns holds at each of its steps.
Idle    == IdleLearner
Looking == [step : {"parent"}, id : {None}, content : Contents, version : {0}]
Promoting == [step : {"upsert", "history", "index"}, id : Contents, content : Contents,
            version : Versions]
Held    == {Idle} \cup Looking \cup Promoting

LEMMA HeldBy ==
  ASSUME MemoryTypeOK, NEW l \in Learners
  PROVE  /\ learner \in [Learners -> Held]
         /\ learner[l].step \in {"idle", "parent", "upsert", "history", "index"}
         /\ learner[l].step = "parent" => learner[l] \in Looking
         /\ learner[l].step \in {"upsert", "history", "index"} => learner[l] \in Promoting
<1>1. learner \in [Learners -> Held]
  BY DEF MemoryTypeOK, Held, Idle, Looking, Promoting
<1>2. learner[l] \in Held
  BY <1>1
<1> QED BY <1>1, <1>2 DEF Held, Idle, Looking, Promoting, IdleLearner

LEMMA LearnTyped ==
  ASSUME MemoryTypeOK, NEW l \in Learners, NEW w \in Held, Learn(l, w)
  PROVE  /\ learner' \in [Learners -> Held]
         /\ learner'[l] = w /\ \A k \in Learners \ {l} : learner'[k] = learner[k]
  BY HeldBy DEF Learn

\* What a promotion reads and writes has its type.
LEMMA ReadsTyped ==
  ASSUME MemoryTypeOK, NEW l \in Learners, PromoteReads(l)
  PROVE  \E i \in Contents, v \in Versions, c \in Contents :
           /\ c = learner[l].content /\ i \in Parents(c) /\ v = NextVersion(i)
           /\ Learn(l, [step |-> "upsert", id |-> i, content |-> c, version |-> v])
           /\ raced' = IF ReadByAnother(l, i) THEN raced \cup {i} ELSE raced
<1>1. learner[l].content \in Contents
  BY HeldBy DEF PromoteReads, Looking
<1>2. Parents(learner[l].content) \subseteq Contents
  BY <1>1 DEF Parents, Prior
<1> QED BY <1>1, <1>2 DEF PromoteReads

LEMMA PromotedTyped ==
  ASSUME NEW w \in Promoting
  PROVE  Promoted(w) \in Row /\ Promoted(w) # None
  BY MemoryAssumption DEF Promoting, Promoted, Row, Statuses

LEMMA MemoryTypes == MemoryTypeOK /\ MemoryMoves => MemoryTypeOK'
<1> SUFFICES ASSUME MemoryTypeOK, MemoryMoves PROVE MemoryTypeOK'
  OBVIOUS
<1>a. ASSUME learner' \in [Learners -> Held], UNCHANGED <<rows, history, operator, search>>,
             index' \subseteq Contents, raced' \subseteq Contents
      PROVE  MemoryTypeOK'
  BY <1>a DEF MemoryTypeOK, Held, Idle, Looking, Promoting
<1>1. ASSUME NEW l \in Learners, NEW c \in Contents, PromoteLooksUp(l, c) PROVE MemoryTypeOK'
  <2>1. [IdleLearner EXCEPT !.step = "parent", !.content = c] \in Held
    BY DEF IdleLearner, Held, Looking
  <2> QED BY <1>1, <1>a, <2>1, LearnTyped DEF PromoteLooksUp, MemoryTypeOK
<1>2. ASSUME NEW l \in Learners, PromoteReads(l) PROVE MemoryTypeOK'
  <2>1. PICK i \in Contents, v \in Versions, c \in Contents :
           /\ Learn(l, [step |-> "upsert", id |-> i, content |-> c, version |-> v])
           /\ raced' = IF ReadByAnother(l, i) THEN raced \cup {i} ELSE raced
    BY <1>2, ReadsTyped
  <2>2. [step |-> "upsert", id |-> i, content |-> c, version |-> v] \in Held
    BY DEF Held, Promoting
  <2>3. raced' \subseteq Contents /\ index' = index
    BY <1>2, <2>1 DEF MemoryTypeOK, PromoteReads
  <2> QED BY <1>2, <1>a, <2>1, <2>2, <2>3, LearnTyped DEF PromoteReads, MemoryTypeOK
<1>3. ASSUME NEW l \in Learners, PromoteUpserts(l) \/ PromoteRecords(l)
      PROVE  MemoryTypeOK'
  <2> DEFINE w == learner[l]
  <2>1. w \in Promoting
    BY <1>3, HeldBy DEF PromoteUpserts, PromoteRecords
  <2>2. learner' \in [Learners -> Held]
    <3>1. [w EXCEPT !.step = "history"] \in Held /\ [w EXCEPT !.step = "index"] \in Held
      BY <2>1 DEF Held, Promoting
    <3> QED BY <1>3, <3>1, LearnTyped DEF PromoteUpserts, PromoteRecords
  <2>3. CASE PromoteUpserts(l)
    <3>1. rows' \in [Contents -> Row \cup {None}]
      BY <2>1, <2>3, PromotedTyped DEF PromoteUpserts, MemoryTypeOK
    <3> QED BY <2>2, <2>3, <3>1, UnbarTyped DEF PromoteUpserts, MemoryTypeOK, Held, Idle, Looking, Promoting
  <2>4. CASE PromoteRecords(l)
    <3>1. w.id \in Contents /\ w.version \in Versions /\ w.content \in Contents
      BY <2>1 DEF Promoting
    <3>2. history' \in [Contents -> [Versions -> Contents \cup {None}]]
      BY <2>4, <3>1 DEF PromoteRecords, MemoryTypeOK
    <3> QED BY <2>2, <2>4, <3>2 DEF PromoteRecords, MemoryTypeOK, Held, Idle, Looking, Promoting
  <2> QED BY <1>3, <2>3, <2>4
<1>4. ASSUME NEW l \in Learners, PromoteIndexes(l) \/ PromoteStops(l) PROVE MemoryTypeOK'
  <2>1. learner' \in [Learners -> Held]
    BY <1>4, LearnTyped DEF PromoteIndexes, PromoteStops, Held, Idle
  <2>2. index' \subseteq Contents
    BY <1>4, HeldBy DEF PromoteIndexes, PromoteStops, Promoting, MemoryTypeOK
  <2> QED BY <1>4, <1>a, <2>1, <2>2 DEF PromoteIndexes, PromoteStops, MemoryTypeOK
<1>5. ASSUME NEW n \in Contents, Block(n) \/ Deprecate(n) \/ Restore(n) PROVE MemoryTypeOK'
  <2>1. rows' \in [Contents -> Row \cup {None}]
    BY <1>5, StatusOnly DEF Block, Deprecate, Restore, Statuses
  <2>2. search' \in [step : {"idle", "query", "read"}, left : SUBSET Contents,
                     hits : SUBSET [id : Contents, content : Contents], barred : SUBSET Contents]
    BY <1>5, UnbarTyped DEF Block, Deprecate, Restore, MemoryTypeOK
  <2>3. operator' \in [step : {"unindex", "index"}, id : Contents] \cup {IdleOperator}
    BY <1>5 DEF Block, Deprecate, Restore, MemoryTypeOK
  <2> QED BY <1>5, <2>1, <2>2, <2>3 DEF Block, Deprecate, Restore, MemoryTypeOK
<1>6. CASE BlockUnindexes \/ RestoreIndexes \/ OperatorStops
  BY <1>6 DEF MemoryTypeOK, BlockUnindexes, RestoreIndexes, OperatorStops, IdleOperator
<1>7. CASE SearchQueries
  BY <1>7 DEF MemoryTypeOK, SearchQueries
<1>8. ASSUME NEW n \in Contents, SearchReads(n) PROVE MemoryTypeOK'
  <2>1. Servable(n) => rows[n].content \in Contents
    BY DEF MemoryTypeOK, Servable, Row
  <2> DEFINE H == IF Servable(n) THEN search.hits \cup {[id |-> n, content |-> rows[n].content]}
                                ELSE search.hits
  <2>2. search.hits \in SUBSET [id : Contents, content : Contents]
    BY DEF MemoryTypeOK
  <2>3. H \in SUBSET [id : Contents, content : Contents]
    BY <2>1, <2>2
  <2>4. search' = [search EXCEPT !.left = search.left \ {n}, !.hits = H]
    BY <1>8 DEF SearchReads
  <2> HIDE DEF H
  <2>5. search' \in [step : {"idle", "query", "read"}, left : SUBSET Contents,
                     hits : SUBSET [id : Contents, content : Contents], barred : SUBSET Contents]
    BY <2>3, <2>4 DEF MemoryTypeOK
  <2> QED BY <1>8, <2>5 DEF MemoryTypeOK, SearchReads
<1>9. ASSUME search' \in {IdleSearch, [IdleSearch EXCEPT !.step = "query"]},
             UNCHANGED <<rows, history, index, learner, raced, operator>>
      PROVE  MemoryTypeOK'
  BY <1>9 DEF MemoryTypeOK, IdleSearch
<1>10. CASE UNCHANGED memoryVars
  BY <1>10 DEF MemoryTypeOK, memoryVars
<1> QED BY <1>1, <1>2, <1>3, <1>4, <1>5, <1>6, <1>7, <1>8, <1>9, <1>10 DEF MemoryMoves

\* The part of PromotionInv that is about one run.
LearnerInv(l) == LET w == learner[l] IN
  /\ w.step = "upsert" /\ w.id \notin raced =>
       w.version = NextVersion(w.id) /\ ~ReadByAnother(l, w.id)
  /\ w.step = "history" /\ w.id \notin raced =>
       /\ rows[w.id] # None /\ w.version <= rows[w.id].version
       /\ w.version = rows[w.id].version => w.content = rows[w.id].content
RecordedInv ==
  \A i \in Contents \ raced, v \in Versions :
    history[i][v] # None => rows[i] # None /\ v <= rows[i].version

LEMMA PromotionParts == PromotionInv <=> (RecordedInv /\ \A l \in Learners : LearnerInv(l))
  BY DEF PromotionInv, RecordedInv, LearnerInv

LEMMA PromotionKept ==
  MemoryTypeOK /\ PromotionInv /\ VersionNamesOneContentUnlessRaced /\ MemoryMoves
    => PromotionInv' /\ VersionNamesOneContentUnlessRaced'
<1> SUFFICES ASSUME MemoryTypeOK, RecordedInv, \A l \in Learners : LearnerInv(l),
                    VersionNamesOneContentUnlessRaced, MemoryMoves
             PROVE  /\ RecordedInv' /\ (\A l \in Learners : LearnerInv(l)')
                    /\ VersionNamesOneContentUnlessRaced'
  BY PromotionParts, MemoryTypes DEF PromotionInv, RecordedInv, LearnerInv
<1> USE MemoryAssumption
\* A run that reads, writes or ends without touching the two tables.
<1>a. ASSUME NEW l \in Learners, UNCHANGED <<rows, history>>, raced \subseteq raced',
             \A k \in Learners \ {l} : learner'[k] = learner[k],
             learner'[l].step = "upsert" =>
               /\ learner'[l].version = NextVersion(learner'[l].id)
               /\ learner'[l].id \in raced' \/ ~ReadByAnother(l, learner'[l].id),
             learner'[l].step # "history"
      PROVE  /\ RecordedInv' /\ (\A k \in Learners : LearnerInv(k)')
             /\ VersionNamesOneContentUnlessRaced'
  <2>1. RecordedInv' /\ VersionNamesOneContentUnlessRaced'
    BY <1>a DEF RecordedInv, VersionNamesOneContentUnlessRaced
  <2>2. \A i : NextVersion(i)' = NextVersion(i)
    BY <1>a DEF NextVersion
  <2>3. LearnerInv(l)'
    <3>1. \A i : ReadByAnother(l, i)' <=> ReadByAnother(l, i)
      BY <1>a DEF ReadByAnother
    <3> QED BY <1>a, <2>2, <3>1 DEF LearnerInv
  <2>4. ASSUME NEW k \in Learners, k # l PROVE LearnerInv(k)'
    <3>1. learner'[k] = learner[k] /\ LearnerInv(k)
      BY <1>a, <2>4
    <3>2. ASSUME NEW i, learner[k].step = "upsert", learner[k].id = i, i \notin raced'
          PROVE  ~ReadByAnother(k, i)'
      <4>1. ~ReadByAnother(k, i) /\ i \notin raced
        BY <1>a, <3>1, <3>2 DEF LearnerInv
      <4>2. learner'[l].step = "upsert" => learner'[l].id # i
        BY <1>a, <2>4, <3>2 DEF ReadByAnother
      <4>3. ASSUME NEW m \in Learners \ {k} PROVE ~(learner'[m].step = "upsert" /\ learner'[m].id = i)
        <5>1. CASE m = l
          BY <5>1, <4>2
        <5>2. CASE m # l
          <6>1. learner'[m] = learner[m]
            BY <5>2, <1>a
          <6> QED BY <6>1, <4>1, <4>3 DEF ReadByAnother
        <5> QED BY <5>1, <5>2
      <4> QED BY <4>3 DEF ReadByAnother
    <3> QED BY <1>a, <2>2, <3>1, <3>2 DEF LearnerInv
  <2> QED BY <2>1, <2>3, <2>4
<1>1. ASSUME NEW l \in Learners, NEW c \in Contents, PromoteLooksUp(l, c)
      PROVE  /\ RecordedInv' /\ (\A k \in Learners : LearnerInv(k)')
             /\ VersionNamesOneContentUnlessRaced'
  <2>1. /\ learner'[l].step = "parent"
        /\ \A k \in Learners \ {l} : learner'[k] = learner[k]
    BY <1>1 DEF PromoteLooksUp, Learn, IdleLearner, MemoryTypeOK
  <2> QED BY <1>1, <1>a, <2>1 DEF PromoteLooksUp
<1>2. ASSUME NEW l \in Learners, PromoteReads(l)
      PROVE  /\ RecordedInv' /\ (\A k \in Learners : LearnerInv(k)')
             /\ VersionNamesOneContentUnlessRaced'
  <2>1. PICK i \in Contents, v \in Versions, c \in Contents :
           /\ v = NextVersion(i)
           /\ Learn(l, [step |-> "upsert", id |-> i, content |-> c, version |-> v])
           /\ raced' = IF ReadByAnother(l, i) THEN raced \cup {i} ELSE raced
    BY <1>2, ReadsTyped
  <2>2. /\ learner'[l] = [step |-> "upsert", id |-> i, content |-> c, version |-> v]
        /\ \A k \in Learners \ {l} : learner'[k] = learner[k]
    BY <2>1 DEF Learn, MemoryTypeOK
  <2>3. i \in raced' \/ ~ReadByAnother(l, i)
    BY <2>1
  <2>4. raced \subseteq raced' /\ UNCHANGED <<rows, history>>
    BY <1>2, <2>1 DEF PromoteReads
  <2> QED BY <1>a, <2>1, <2>2, <2>3, <2>4
<1>3. ASSUME NEW l \in Learners, PromoteUpserts(l)
      PROVE  /\ RecordedInv' /\ (\A k \in Learners : LearnerInv(k)')
             /\ VersionNamesOneContentUnlessRaced'
  <2> DEFINE w == learner[l]
             r == Promoted(w)
  <2>1. /\ w.step = "upsert" /\ w \in Promoting /\ w.id \in Contents /\ w.version \in Versions
        /\ r \in Row /\ r # None /\ r.version = w.version /\ r.content = w.content
    <3>1. w.step = "upsert" /\ w \in Promoting
      BY <1>3, HeldBy DEF PromoteUpserts
    <3> QED BY <3>1, PromotedTyped DEF Promoting, Promoted
  <2>2. /\ rows' = [rows EXCEPT ![w.id] = r] /\ history' = history /\ raced' = raced
        /\ learner' = [learner EXCEPT ![l] = [w EXCEPT !.step = "history"]]
    BY <1>3 DEF PromoteUpserts, Learn
  <2>3. rows'[w.id] = r /\ \A i \in Contents \ {w.id} : rows'[i] = rows[i]
    BY <2>1, <2>2 DEF MemoryTypeOK
  <2>4. /\ learner'[l].step = "history" /\ learner'[l].id = w.id
        /\ learner'[l].version = w.version /\ learner'[l].content = w.content
        /\ \A k \in Learners \ {l} : learner'[k] = learner[k]
    BY <2>1, <2>2 DEF MemoryTypeOK, Promoting
  <2>5. w.id \notin raced =>
          /\ w.version = NextVersion(w.id) /\ ~ReadByAnother(l, w.id)
    BY <2>1 DEF LearnerInv
  <2> DEFINE old == rows[w.id]
  <2>6. /\ old # None => old.version \in Nat
        /\ w.version \in Nat /\ \A v \in Versions : v \in Nat
        /\ w.id \notin raced /\ old # None => w.version = old.version + 1
    BY <2>1, <2>5 DEF NextVersion, MemoryTypeOK, Row, Versions
  <2>7. w.id \notin raced => \A v \in Versions : history[w.id][v] # None => v < w.version
    <3> SUFFICES ASSUME w.id \notin raced, NEW v \in Versions, history[w.id][v] # None
                 PROVE  v < w.version
      OBVIOUS
    <3>1. old # None /\ v <= old.version
      BY <2>1 DEF RecordedInv
    <3> QED BY <3>1, <2>6
  <2> HIDE DEF r
  <2>8. RecordedInv'
    <3> SUFFICES ASSUME NEW i \in Contents \ raced, NEW v \in Versions, history[i][v] # None
                 PROVE  rows'[i] # None /\ v <= rows'[i].version
      BY <2>2 DEF RecordedInv
    <3>1. CASE i = w.id
      BY <3>1, <2>1, <2>3, <2>6, <2>7
    <3>2. CASE i # w.id
      BY <3>2, <2>3 DEF RecordedInv
    <3> QED BY <3>1, <3>2
  <2>9. VersionNamesOneContentUnlessRaced'
    <3>1. w.id \notin raced => history[w.id][w.version] = None
      BY <2>1, <2>6, <2>7
    <3> QED BY <2>1, <2>2, <2>3, <3>1 DEF VersionNamesOneContentUnlessRaced
  <2>10. LearnerInv(l)'
    BY <2>1, <2>2, <2>3, <2>4, <2>6 DEF LearnerInv
  <2>11. ASSUME NEW k \in Learners, k # l PROVE LearnerInv(k)'
    <3> DEFINE x == learner[k]
    <3>1. learner'[k] = x /\ LearnerInv(k)
      BY <2>4, <2>11
    <3>2. CASE x.step = "upsert"
      <4> SUFFICES ASSUME x.id \notin raced
                   PROVE  learner'[k].version = NextVersion(learner[k].id)' /\ ~ReadByAnother(k, learner[k].id)'
        BY <3>1, <3>2, <2>2 DEF LearnerInv
      <4>1. x.version = NextVersion(x.id) /\ ~ReadByAnother(k, x.id)
        BY <3>1, <3>2 DEF LearnerInv
      <4>2. x.id # w.id
        BY <4>1, <2>1, <2>11 DEF ReadByAnother
      <4>3. x.id \in Contents
        BY <3>2, HeldBy DEF Promoting
      <4>4. ASSUME NEW i \in Contents, i = x.id
            PROVE  x.version = NextVersion(i)' /\ ~ReadByAnother(k, i)'
        <5>1. rows'[i] = rows[i]
          BY <2>3, <4>2, <4>4
        <5>2. NextVersion(i)' = NextVersion(i)
          BY <5>1 DEF NextVersion
        <5>3. \A m \in Learners \ {k} : ~(learner'[m].step = "upsert" /\ learner'[m].id = i)
          BY <4>1, <4>4, <2>4 DEF ReadByAnother
        <5>4. ~ReadByAnother(k, i)'
          BY <5>3 DEF ReadByAnother
        <5> QED BY <4>1, <4>4, <5>2, <5>4
      <4> QED BY <4>3, <4>4, <3>1
    <3>3. CASE x.step = "history"
      <4>1. x.id \in Contents /\ x.version \in Nat
        BY <3>3, HeldBy DEF Promoting, Versions
      <4>2. CASE x.id # w.id
        BY <4>1, <4>2, <3>1, <3>3, <2>2, <2>3 DEF LearnerInv
      <4>3. CASE x.id = w.id
        <5> SUFFICES ASSUME x.id \notin raced
                     PROVE  /\ rows'[x.id] # None /\ x.version <= rows'[x.id].version
                            /\ x.version = rows'[x.id].version => x.content = rows'[x.id].content
          BY <3>1, <3>3, <2>2 DEF LearnerInv
        <5>1. old # None /\ x.version <= old.version
          BY <3>1, <3>3, <4>3 DEF LearnerInv
        <5> QED BY <5>1, <4>1, <4>3, <2>1, <2>3, <2>6
      <4> QED BY <4>2, <4>3
    <3>4. CASE x.step \notin {"upsert", "history"}
      BY <3>1, <3>4 DEF LearnerInv
    <3> QED BY <3>2, <3>3, <3>4
  <2> QED BY <2>8, <2>9, <2>10, <2>11
<1>4. ASSUME NEW l \in Learners, PromoteRecords(l)
      PROVE  /\ RecordedInv' /\ (\A k \in Learners : LearnerInv(k)')
             /\ VersionNamesOneContentUnlessRaced'
  <2> DEFINE w == learner[l]
  <2>1. /\ w.step = "history" /\ w \in Promoting
        /\ w.id \in Contents /\ w.version \in Versions /\ w.content \in Contents
    <3>1. w.step = "history" /\ w \in Promoting
      BY <1>4, HeldBy DEF PromoteRecords
    <3> QED BY <3>1 DEF Promoting
  <2>2. /\ rows' = rows /\ raced' = raced
        /\ learner' = [learner EXCEPT ![l] = [w EXCEPT !.step = "index"]]
        /\ history' = [history EXCEPT ![w.id][w.version] = IF @ = None THEN w.content ELSE @]
    BY <1>4 DEF PromoteRecords, Learn
  <2>3. \A i \in Contents, v \in Versions :
          \/ history'[i][v] = history[i][v]
          \/ i = w.id /\ v = w.version /\ history[i][v] = None /\ history'[i][v] = w.content
    BY <2>1, <2>2 DEF MemoryTypeOK
  <2>4. /\ learner'[l].step = "index"
        /\ \A k \in Learners \ {l} : learner'[k] = learner[k]
    BY <2>1, <2>2 DEF MemoryTypeOK, Promoting
  <2>5. w.id \notin raced => /\ rows[w.id] # None /\ w.version <= rows[w.id].version
                             /\ w.version = rows[w.id].version => w.content = rows[w.id].content
    BY <2>1 DEF LearnerInv
  <2>6. RecordedInv'
    BY <2>2, <2>3, <2>5 DEF RecordedInv
  <2>7. VersionNamesOneContentUnlessRaced'
    <3> SUFFICES ASSUME NEW i \in Contents \ raced, rows[i] # None
                 PROVE  history'[i][rows[i].version] \in {None, rows[i].content}
      BY <2>2 DEF VersionNamesOneContentUnlessRaced
    <3>1. rows[i].version \in Versions
      BY DEF MemoryTypeOK, Row
    <3>2. history[i][rows[i].version] \in {None, rows[i].content}
      BY DEF VersionNamesOneContentUnlessRaced
    <3> QED BY <3>1, <3>2, <2>3, <2>5
  <2>8. \A k \in Learners : LearnerInv(k)'
    <3>1. \A i : NextVersion(i)' = NextVersion(i)
      BY <2>2 DEF NextVersion
    <3>2. \A k \in Learners, i \in Contents : ReadByAnother(k, i)' => ReadByAnother(k, i)
      BY <2>4 DEF ReadByAnother
    <3>3. LearnerInv(l)'
      BY <2>4 DEF LearnerInv
    <3>4. ASSUME NEW k \in Learners, k # l PROVE LearnerInv(k)'
      <4>1. learner[k].step = "upsert" => learner[k].id \in Contents
        BY HeldBy DEF Promoting
      <4> QED BY <2>2, <2>4, <3>1, <3>2, <3>4, <4>1 DEF LearnerInv
    <3> QED BY <3>3, <3>4
  <2> QED BY <2>6, <2>7, <2>8
<1>5. ASSUME NEW l \in Learners, PromoteIndexes(l) \/ PromoteStops(l)
      PROVE  /\ RecordedInv' /\ (\A k \in Learners : LearnerInv(k)')
             /\ VersionNamesOneContentUnlessRaced'
  <2>1. /\ learner'[l].step = "idle" /\ UNCHANGED <<rows, history, raced>>
        /\ \A k \in Learners \ {l} : learner'[k] = learner[k]
    BY <1>5 DEF PromoteIndexes, PromoteStops, Learn, IdleLearner, MemoryTypeOK
  <2> QED BY <1>a, <2>1
<1>6. ASSUME NEW n \in Contents, Block(n) \/ Deprecate(n) \/ Restore(n)
      PROVE  /\ RecordedInv' /\ (\A k \in Learners : LearnerInv(k)')
             /\ VersionNamesOneContentUnlessRaced'
  <2>1. /\ history' = history /\ learner' = learner /\ raced' = raced
        /\ \A m \in Contents : /\ (rows'[m] = None) <=> (rows[m] = None)
                               /\ rows[m] # None => /\ rows'[m].version = rows[m].version
                                                    /\ rows'[m].content = rows[m].content
    BY <1>6, StatusOnly DEF Block, Deprecate, Restore, Statuses
  <2>2. \A m \in Contents : NextVersion(m)' = NextVersion(m)
    BY <2>1 DEF NextVersion
  <2>3. ASSUME NEW l \in Learners PROVE LearnerInv(l)'
    <3>1. learner[l].step \in {"upsert", "history"} => learner[l].id \in Contents
      BY HeldBy DEF Promoting
    <3>2. \A i : ReadByAnother(l, i)' <=> ReadByAnother(l, i)
      BY <2>1 DEF ReadByAnother
    <3> QED BY <2>1, <2>2, <3>1, <3>2 DEF LearnerInv
  <2>4. RecordedInv'
    BY <2>1 DEF RecordedInv
  <2>5. VersionNamesOneContentUnlessRaced'
    BY <2>1 DEF VersionNamesOneContentUnlessRaced
  <2> QED BY <2>3, <2>4, <2>5
<1>7. CASE UNCHANGED <<rows, history, learner, raced>>
  BY <1>7 DEF RecordedInv, LearnerInv, ReadByAnother, VersionNamesOneContentUnlessRaced, NextVersion
<1> QED BY <1>1, <1>2, <1>3, <1>4, <1>5, <1>6, <1>7 DEF MemoryMoves, BlockUnindexes, RestoreIndexes,
     OperatorStops, SearchQueries, SearchReads, memoryVars

LEMMA SearchKept ==
  MemoryTypeOK /\ SearchInv /\ BlockedIsNotServed /\ MemoryMoves
    => SearchInv' /\ BlockedIsNotServed'
<1> SUFFICES ASSUME MemoryTypeOK, SearchInv, BlockedIsNotServed, MemoryMoves
             PROVE  SearchInv' /\ BlockedIsNotServed'
  OBVIOUS
<1> USE MemoryAssumption
<1>1. ASSUME NEW n \in Contents, rows' = [rows EXCEPT ![n] = rows'[n]], Unbar(n)
      PROVE  SearchInv' /\ BlockedIsNotServed'
  BY <1>1 DEF MemoryTypeOK, SearchInv, BlockedIsNotServed, Unbar
<1>2. ASSUME NEW l \in Learners, PromoteUpserts(l) PROVE SearchInv' /\ BlockedIsNotServed'
  <2>1. learner[l].id \in Contents
    BY <1>2, HeldBy DEF PromoteUpserts, Promoting
  <2>2. PICK r : rows' = [rows EXCEPT ![learner[l].id] = r]
    BY <1>2 DEF PromoteUpserts
  <2>3. rows' = [rows EXCEPT ![learner[l].id] = rows'[learner[l].id]]
    BY <2>1, <2>2 DEF MemoryTypeOK
  <2> QED BY <1>1, <1>2, <2>1, <2>3 DEF PromoteUpserts
<1>3. ASSUME NEW n \in Contents, Deprecate(n) \/ Restore(n) PROVE SearchInv' /\ BlockedIsNotServed'
  BY <1>1, <1>3 DEF MemoryTypeOK, Deprecate, Restore, SetStatus
<1>4. ASSUME NEW n \in Contents, Block(n) PROVE SearchInv' /\ BlockedIsNotServed'
  BY <1>4 DEF MemoryTypeOK, SearchInv, BlockedIsNotServed, Block, SetStatus, Row, Statuses
<1>5. CASE SearchQueries
  BY <1>5 DEF MemoryTypeOK, SearchInv, BlockedIsNotServed, SearchQueries
<1>6. ASSUME NEW n \in Contents, SearchReads(n) PROVE SearchInv' /\ BlockedIsNotServed'
  BY <1>6 DEF MemoryTypeOK, SearchInv, BlockedIsNotServed, SearchReads, Servable
<1>7. ASSUME search' \in {IdleSearch, [IdleSearch EXCEPT !.step = "query"]}, rows' = rows
      PROVE  SearchInv' /\ BlockedIsNotServed'
  BY <1>7 DEF SearchInv, BlockedIsNotServed, IdleSearch
<1>8. CASE UNCHANGED <<rows, search>>
  BY <1>8 DEF SearchInv, BlockedIsNotServed
<1> QED BY <1>2, <1>3, <1>4, <1>5, <1>6, <1>7, <1>8 DEF MemoryMoves, PromoteLooksUp, PromoteReads,
     PromoteRecords, PromoteIndexes, PromoteStops, BlockUnindexes, RestoreIndexes, OperatorStops,
     memoryVars

LEMMA MemoryInvariant == Spec => []MemoryInv
<1>1. MemoryInv /\ [Next]_vars => MemoryInv'
  BY MemoryStepMoves, MemoryTypes, PromotionKept, SearchKept DEF MemoryInv
<1> QED BY <1>1, MemoryInitInv, PTL DEF Spec

\* A version of a workflow names one content for good, however many runs learn
\* at once, whichever of them die half way and whatever the command line does
\* meanwhile, unless two had read their parent before either wrote.
THEOREM VersionsAreFaithful == Spec => []VersionNamesOneContentUnlessRaced
<1>1. MemoryInv => VersionNamesOneContentUnlessRaced
  BY DEF MemoryInv
<1> QED BY <1>1, MemoryInvariant, PTL

\* No search serves a workflow that was blocked when it began and stayed so.
THEOREM BlockedStaysUnserved == Spec => []BlockedIsNotServed
<1>1. MemoryInv => BlockedIsNotServed
  BY DEF MemoryInv
<1> QED BY <1>1, MemoryInvariant, PTL

-----------------------------------------------------------------------------
(* The document store.                                                     *)

DocumentInv == DocumentTypeOK /\ LedgerInv /\ OneContentUnlessForgotten

DocumentMoves ==
  \/ \E d \in Docs : \/ Ingest(d) \/ DeleteDocument(d) \/ Reindex(d) \/ ReindexFails(d)
                     \/ \E t \in Texts : EditFile(d, t)
  \/ Parse \/ DeleteOld \/ Upsert \/ IngestFails \/ ServiceRestarts
  \/ UNCHANGED documentVars

LEMMA DocumentStepMoves == [Next]_vars => DocumentMoves
  BY DEF Next, vars, MemoryStep, DocumentStep, BuildBegins, BuildEnds, DocumentMoves

LEMMA DocumentInitInv == Init => DocumentInv
  BY DocumentAssumption DEF Init, DocumentInit, DocumentInv, DocumentTypeOK, LedgerInv,
     OneContentUnlessForgotten, IdleIngest

LEMMA Ingesting ==
  ASSUME NEW d \in Docs, NEW led \in [Docs -> Texts \cup {NoText}], DocumentTypeOK, Ingests(d, led)
  PROVE  \/ ingest' = IdleIngest
         \/ /\ ingest' \in [step : {"parse"}, doc : {d}, hash : Texts,
                            text : Texts \cup {NoText}, version : {1, 2}]
            /\ ingest'.version = 1 => led[d] = NoText
  BY DEF Ingests, Version, DocumentTypeOK

LEMMA DocumentKept == DocumentInv /\ DocumentMoves => DocumentInv'
<1> SUFFICES ASSUME DocumentTypeOK, LedgerInv, OneContentUnlessForgotten, DocumentMoves
             PROVE  DocumentTypeOK' /\ LedgerInv' /\ OneContentUnlessForgotten'
  BY DEF DocumentInv
<1> USE DocumentAssumption
<1>1. ASSUME NEW d \in Docs, Ingest(d)
      PROVE  DocumentTypeOK' /\ LedgerInv' /\ OneContentUnlessForgotten'
  BY <1>1, Ingesting DEF DocumentTypeOK, LedgerInv, OneContentUnlessForgotten, Ingest, ChunksOf, IdleIngest
<1>2. ASSUME NEW d \in Docs, DeleteDocument(d)
      PROVE  DocumentTypeOK' /\ LedgerInv' /\ OneContentUnlessForgotten'
  BY <1>2 DEF DocumentTypeOK, LedgerInv, OneContentUnlessForgotten, DeleteDocument, Remove,
     StartsAfresh, ChunksOf, IdleIngest
<1>3. ASSUME NEW d \in Docs, Reindex(d)
      PROVE  DocumentTypeOK' /\ LedgerInv' /\ OneContentUnlessForgotten'
  <2>1. ledger' \in [Docs -> Texts \cup {NoText}] /\ ledger' = [ledger EXCEPT ![d] = NoText]
    BY <1>3 DEF Reindex, DocumentTypeOK
  <2>2. \/ ingest' = IdleIngest
        \/ /\ ingest' \in [step : {"parse"}, doc : {d}, hash : Texts,
                           text : Texts \cup {NoText}, version : {1, 2}]
           /\ ingest'.version = 1 => ledger'[d] = NoText
    BY <1>3, <2>1, Ingesting DEF Reindex
  <2>3. chunks' = chunks \ ChunksOf(d) /\ forgotten' = forgotten \ {d} /\ file' = file
    BY <1>3 DEF Reindex, Remove, StartsAfresh
  <2>4. DocumentTypeOK'
    BY <2>1, <2>2, <2>3 DEF DocumentTypeOK, ChunksOf
  <2>5. LedgerInv'
    BY <2>1, <2>2, <2>3 DEF LedgerInv, ChunksOf, DocumentTypeOK, IdleIngest
  <2> QED BY <2>3, <2>4, <2>5 DEF OneContentUnlessForgotten, ChunksOf
<1>4. ASSUME NEW d \in Docs, ReindexFails(d)
      PROVE  DocumentTypeOK' /\ LedgerInv' /\ OneContentUnlessForgotten'
  BY <1>4 DEF DocumentTypeOK, LedgerInv, OneContentUnlessForgotten, ReindexFails, Forgets,
     ChunksOf, IdleIngest
<1>5. ASSUME NEW d \in Docs, NEW t \in Texts, EditFile(d, t)
      PROVE  DocumentTypeOK' /\ LedgerInv' /\ OneContentUnlessForgotten'
  BY <1>5 DEF DocumentTypeOK, LedgerInv, OneContentUnlessForgotten, EditFile, ChunksOf
<1>6. CASE Parse
  <2> DEFINE next == IF ingest.version > 1 THEN "delete" ELSE "upsert"
  <2>1. /\ ingest \in [step : {"parse", "delete", "upsert"}, doc : Docs, hash : Texts,
                       text : Texts \cup {NoText}, version : {1, 2}]
        /\ ingest.step = "parse" /\ file[ingest.doc] \in Texts
    BY <1>6 DEF Parse, DocumentTypeOK, IdleIngest
  <2>2. /\ ingest' = [ingest EXCEPT !.text = file[ingest.doc], !.step = next]
        /\ UNCHANGED <<file, chunks, ledger, forgotten>>
    BY <1>6 DEF Parse
  <2>3. next \in {"delete", "upsert"} /\ (next = "upsert" => ingest.version = 1)
    BY <2>1
  <2> HIDE DEF next
  <2>4. /\ ingest' \in [step : {"parse", "delete", "upsert"}, doc : Docs, hash : Texts,
                        text : Texts \cup {NoText}, version : {1, 2}]
        /\ ingest'.text \in Texts /\ ingest'.step = next
        /\ ingest'.doc = ingest.doc /\ ingest'.version = ingest.version
    BY <2>1, <2>2, <2>3
  <2>5. DocumentTypeOK'
    BY <2>2, <2>4 DEF DocumentTypeOK
  <2>6. LedgerInv'
    BY <2>1, <2>2, <2>3, <2>4 DEF LedgerInv, ChunksOf
  <2> QED BY <2>2, <2>5, <2>6 DEF OneContentUnlessForgotten
<1>7. CASE DeleteOld
  <2> DEFINE d == ingest.doc
  <2>1. /\ ingest \in [step : {"parse", "delete", "upsert"}, doc : Docs, hash : Texts,
                       text : Texts \cup {NoText}, version : {1, 2}]
        /\ ingest.step = "delete" /\ ingest.text \in Texts
    BY <1>7 DEF DeleteOld, DocumentTypeOK, IdleIngest
  <2>2. /\ ingest' = [ingest EXCEPT !.step = "upsert"]
        /\ chunks' = chunks \ ChunksOf(d) /\ forgotten' = forgotten \ {d}
        /\ file' = file /\ ledger' = ledger
    BY <1>7 DEF DeleteOld, RemoveOld, Remove, StartsAfresh
  <2>3. /\ ingest' \in [step : {"parse", "delete", "upsert"}, doc : Docs, hash : Texts,
                        text : Texts \cup {NoText}, version : {1, 2}]
        /\ ingest'.text \in Texts /\ ingest'.step = "upsert"
        /\ ingest'.doc = d /\ ingest'.version = ingest.version
    BY <2>1, <2>2
  <2>4. DocumentTypeOK'
    BY <2>2, <2>3 DEF DocumentTypeOK
  <2>5. LedgerInv'
    BY <2>1, <2>2, <2>3 DEF LedgerInv, ChunksOf
  <2> QED BY <2>2, <2>4, <2>5 DEF OneContentUnlessForgotten, ChunksOf
<1>8. CASE Upsert
  <2> DEFINE d == ingest.doc
             new == Cut(d, ingest.version, ingest.text)
  <2>1. /\ d \in Docs /\ ingest.text \in Texts /\ ingest.hash \in Texts /\ ingest.hash # NoText
        /\ ingest.version \in {1, 2}
    BY <1>8 DEF Upsert, DocumentTypeOK, IdleIngest
  <2>2. \A c \in new : c.doc = d /\ c.text = ingest.text
    BY DEF Cut
  <2>3. d \notin forgotten => ChunksOf(d) = {}
    BY <1>8, <2>1 DEF LedgerInv, Upsert, ChunksOf
  <2>4. /\ chunks' = {c \in chunks : \A n \in new : ~SameId(c, n)} \cup new
        /\ ledger' = [ledger EXCEPT ![d] = ingest.hash]
        /\ ingest' = IdleIngest /\ file' = file /\ forgotten' = forgotten
    BY <1>8 DEF Upsert
  <2> HIDE DEF new
  <2>5. DocumentTypeOK'
    BY <2>1, <2>2, <2>4 DEF DocumentTypeOK
  <2>6. LedgerInv'
    BY <2>1, <2>2, <2>4 DEF LedgerInv, DocumentTypeOK, IdleIngest
  <2>7. \A a \in chunks' : a \in chunks \/ (a.doc = d /\ a.text = ingest.text)
    BY <2>2, <2>4
  <2>8. OneContentUnlessForgotten'
    BY <2>3, <2>4, <2>7 DEF OneContentUnlessForgotten, ChunksOf
  <2> QED BY <2>5, <2>6, <2>8
<1>9. CASE IngestFails
  BY <1>9 DEF DocumentTypeOK, LedgerInv, OneContentUnlessForgotten, IngestFails, IdleIngest
<1>10. CASE ServiceRestarts
  BY <1>10 DEF DocumentTypeOK, LedgerInv, OneContentUnlessForgotten, ServiceRestarts, Forgets,
     ChunksOf, IdleIngest
<1>11. CASE UNCHANGED documentVars
  BY <1>11 DEF documentVars, DocumentTypeOK, LedgerInv, OneContentUnlessForgotten, ChunksOf
<1> QED BY <1>1, <1>2, <1>3, <1>4, <1>5, <1>6, <1>7, <1>8, <1>9, <1>10, <1>11 DEF DocumentMoves

\* As long as nothing of a document is forgotten, its chunks come from one
\* content.
THEOREM OneContentHolds == Spec => []OneContentUnlessForgotten
<1>1. DocumentInv /\ [Next]_vars => DocumentInv'
  BY DocumentStepMoves, DocumentKept
<1>2. DocumentInv => OneContentUnlessForgotten
  BY DEF DocumentInv
<1> QED BY <1>1, <1>2, DocumentInitInv, PTL DEF Spec

=============================================================================
