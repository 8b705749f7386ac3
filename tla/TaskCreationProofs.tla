--------------------------- MODULE TaskCreationProofs ---------------------------
(***************************************************************************)
(* Theorems about TaskCreation for every set of requests, keys and bodies. *)
(***************************************************************************)
EXTENDS TaskCreation, TLAPS

LEMMA InitInv == Init => CreationInv
  BY CreationAssumption DEF Init, CreationInv, TypeOK, KeyInv, JobInv, JobsAreForTasks,
                            NoTaskForgotten, Uncommitted

\* Answering and moving on, without touching tasks, keys or jobs.
LEMMA TypeStep == TypeOK /\ [Next]_vars => TypeOK'
<1> SUFFICES ASSUME TypeOK, [Next]_vars PROVE TypeOK'
  OBVIOUS
<1>1. ASSUME NEW r \in Requests, Step(r) PROVE TypeOK'
  <2>0. Keyed(r) => KeyOf[r] \in Keys
    BY CreationAssumption DEF Keyed
  <2>1. CASE Replay(r)
    BY <2>0, <2>1 DEF Replay, Found, Go, Reply, jobVars, TypeOK
  <2>2. CASE Conflict(r)
    BY <2>2 DEF Conflict, Go, Reply, jobVars, TypeOK
  <2>3. CASE Miss(r)
    BY <2>3 DEF Miss, Go, jobVars, TypeOK
  <2>4. CASE Create(r)
    BY <2>4 DEF Create, Go, jobVars, TypeOK
  <2>5. CASE CreateTwice(r)
    BY <2>5 DEF CreateTwice, Go, Reply, jobVars, TypeOK
  <2>6. CASE Commit(r)
    BY <2>6 DEF Commit, Go, jobVars, TypeOK
  <2>7. CASE Respond(r)
    BY <2>7 DEF Respond, Respondable, Go, Reply, jobVars, TypeOK
  <2>8. CASE Enqueue(r)
    BY <2>8 DEF Enqueue, Hand, Go, TypeOK
  <2> QED BY <1>1, <2>1, <2>2, <2>3, <2>4, <2>5, <2>6, <2>7, <2>8 DEF Step
<1>2. ASSUME NEW r \in Requests, Crash(r) PROVE TypeOK'
  BY <1>2 DEF Crash, Go, jobVars, TypeOK
<1>3. CASE Work
  <2>1. Tail(queue) \in Seq(Requests)
    BY <1>3 DEF Work, TypeOK
  <2> QED BY <1>3, <2>1 DEF Work, TypeOK
<1>4. CASE UNCHANGED vars
  BY <1>4 DEF vars, jobVars, TypeOK
<1> QED BY <1>1, <1>2, <1>3, <1>4 DEF Next

\* The record of a key, once committed, is and stays its only task.
LEMMA KeyStep == TypeOK /\ KeyInv /\ JobInv /\ [Next]_vars => KeyInv'
<1> SUFFICES ASSUME TypeOK, KeyInv, JobInv, [Next]_vars PROVE KeyInv'
  OBVIOUS
<1> USE CreationAssumption
<1>0. ASSUME NEW r \in Requests, Keyed(r) PROVE KeyOf[r] \in Keys
  BY <1>0 DEF Keyed
<1>1. ASSUME NEW r \in Requests, Replay(r) PROVE KeyInv'
  <2>1. keys[KeyOf[r]] \in tasks /\ KeyOf[keys[KeyOf[r]]] = KeyOf[r]
    BY <1>0, <1>1 DEF Replay, Found, KeyInv
  <2>2. /\ UNCHANGED <<tasks, keys, late, crashes>> /\ answer' = [answer EXCEPT ![r] = keys[KeyOf[r]]]
        /\ \A q \in Requests : q # r => pc'[q] = pc[q]
        /\ pc[r] = "new" /\ pc'[r] = "done"
        /\ BodyOf[r] = BodyOf[keys[KeyOf[r]]]
    BY <1>1 DEF Replay, Found, SameBody, Go, Reply, TypeOK
  <2>3. \A q \in Requests : Uncommitted(q)' <=> Uncommitted(q)
    BY <2>2 DEF Uncommitted
  <2>4. \A q \in Requests : q # r => (Unconfirmed(q)' <=> Unconfirmed(q))
    BY <2>2, <2>3 DEF Unconfirmed, TypeOK
  <2>5. \A q \in Requests : answer'[q] \in Requests =>
          /\ answer'[q] \in tasks' \/ Unconfirmed(q)'
          /\ BodyOf[answer'[q]] = BodyOf[q]
          /\ KeyOf[answer'[q]] = KeyOf[q]
    BY <2>1, <2>2, <2>4 DEF KeyInv, TypeOK
  <2> QED BY <2>2, <2>3, <2>5 DEF KeyInv, Keyed
<1>2. ASSUME NEW r \in Requests, Conflict(r) \/ Miss(r) \/ CreateTwice(r) \/ Crash(r)
      PROVE  KeyInv'
  <2>1. /\ tasks' = tasks /\ keys' = keys /\ late' = late
        /\ crashes \in Nat
        /\ crashes' = crashes \/ (crashes \in Nat /\ crashes' = crashes + 1)
        /\ \A q \in Requests : /\ pc'[q] = pc[q] \/ (pc'[q] = "missed" /\ pc[q] = "new") \/ (pc'[q] = "done" /\ pc[q] \in {"new", "missed"})
                                  \/ (pc'[q] = "done" /\ crashes' = crashes + 1)
                               /\ answer'[q] = answer[q] \/ answer'[q] \notin Requests
    <3>1. CASE Miss(r)
      BY <3>1 DEF Miss, Go, TypeOK
    <3>2. CASE Conflict(r)
      BY <3>2 DEF Conflict, Found, Go, Reply, TypeOK
    <3>3. CASE CreateTwice(r)
      BY <3>3 DEF CreateTwice, Insertable, Go, Reply, TypeOK
    <3>4. CASE Crash(r)
      BY <3>4 DEF Crash, Go, TypeOK
    <3> QED BY <1>2, <3>1, <3>2, <3>3, <3>4 DEF TypeOK
  <2>2. \A q \in Requests : Uncommitted(q)' => Uncommitted(q)
    BY <2>1 DEF Uncommitted
  <2>3. \A q \in Requests : Uncommitted(q) => Uncommitted(q)' \/ crashes' > 0
    <3> SUFFICES ASSUME NEW q \in Requests, Uncommitted(q) PROVE Uncommitted(q)' \/ crashes' > 0
      OBVIOUS
    <3>1. pc[q] \notin {"new", "missed"} BY DEF Uncommitted
    <3>2. CASE pc'[q] = pc[q] BY <3>2, <2>1 DEF Uncommitted
    <3>3. CASE pc'[q] = "done" /\ crashes' = crashes + 1
      <4>1. crashes \in Nat BY <2>1
      <4> QED BY <3>3, <4>1
    <3> QED BY <2>1, <3>1, <3>2, <3>3
  <2>4. \A q \in Requests : (Uncommitted(q)' /\ Keyed(q)) =>
          /\ keys'[KeyOf[q]] = NoTask
          /\ \A p \in Requests : (Uncommitted(p)' /\ KeyOf[p] = KeyOf[q]) => p = q
    BY <2>1, <2>2 DEF KeyInv
  <2>5. \A q \in Requests : (Unconfirmed(q) /\ answer'[q] = answer[q]) => Unconfirmed(q)'
    BY <2>1, <2>3 DEF Unconfirmed
  <2>6. \A q \in Requests : answer'[q] \in Requests =>
          /\ answer'[q] \in tasks' \/ Unconfirmed(q)'
          /\ BodyOf[answer'[q]] = BodyOf[q]
          /\ KeyOf[answer'[q]] = KeyOf[q]
    BY <2>1, <2>5 DEF KeyInv
  <2>7. /\ \A t \in tasks' : Keyed(t) => keys'[KeyOf[t]] = t
        /\ \A k \in Keys : keys'[k] # NoTask => keys'[k] \in tasks' /\ KeyOf[keys'[k]] = k
    BY <2>1 DEF KeyInv
  <2> QED BY <2>4, <2>6, <2>7 DEF KeyInv, Keyed
<1>3. ASSUME NEW r \in Requests, Create(r) PROVE KeyInv'
  <2>1. /\ UNCHANGED <<tasks, keys, answer, late, crashes>>
        /\ Unique(r) /\ ~Waits(r)
        /\ pc[r] = "missed" /\ pc'[r] = "open"
        /\ \A q \in Requests : q # r => pc'[q] = pc[q]
    BY <1>3 DEF Create, Insertable, Go, TypeOK
  <2>2. \A q \in Requests : Uncommitted(q)' <=> (q = r \/ Uncommitted(q))
    BY <2>1 DEF Uncommitted
  <2>3. \A q \in Requests : Unconfirmed(q) => Unconfirmed(q)'
    BY <2>1, <2>2 DEF Unconfirmed
  <2>4. \A q \in Requests : (Uncommitted(q)' /\ Keyed(q)) =>
          /\ keys'[KeyOf[q]] = NoTask
          /\ \A p \in Requests : (Uncommitted(p)' /\ KeyOf[p] = KeyOf[q]) => p = q
    BY <2>1, <2>2 DEF KeyInv, Unique, Waits, Keyed
  <2> QED BY <2>1, <2>3, <2>4 DEF KeyInv, Keyed
<1>4. ASSUME NEW r \in Requests, Commit(r) PROVE KeyInv'
  <2>1. /\ UNCHANGED <<answer, late, crashes>>
        /\ tasks' = tasks \cup {r}
        /\ keys' = [k \in Keys |-> IF k = KeyOf[r] THEN r ELSE keys[k]]
        /\ Uncommitted(r) /\ ~Uncommitted(r)'
        /\ \A q \in Requests : q # r => pc'[q] = pc[q]
    BY <1>4 DEF Commit, Go, TypeOK, Uncommitted
  <2>2. \A q \in Requests : Uncommitted(q)' <=> (q # r /\ Uncommitted(q))
    BY <2>1 DEF Uncommitted
  <2>3. \A q \in Requests : (Unconfirmed(q) /\ q # r) => Unconfirmed(q)'
    BY <2>1, <2>2 DEF Unconfirmed
  <2>4. \A q \in Requests : (Uncommitted(q)' /\ Keyed(q)) =>
          /\ keys'[KeyOf[q]] = NoTask
          /\ \A p \in Requests : (Uncommitted(p)' /\ KeyOf[p] = KeyOf[q]) => p = q
    BY <1>0, <2>1, <2>2 DEF KeyInv
  <2>5. \A t \in tasks' : Keyed(t) => keys'[KeyOf[t]] = t
    BY <1>0, <2>1 DEF KeyInv, TypeOK, Keyed
  <2>6. \A k \in Keys : keys'[k] # NoTask => keys'[k] \in tasks' /\ KeyOf[keys'[k]] = k
    BY <2>1 DEF KeyInv
  <2>7. \A q \in Requests : answer'[q] \in Requests =>
          /\ answer'[q] \in tasks' \/ Unconfirmed(q)'
          /\ BodyOf[answer'[q]] = BodyOf[q]
          /\ KeyOf[answer'[q]] = KeyOf[q]
    <3> TAKE q \in Requests
    <3>1. CASE q = r
      BY <2>1, <3>1 DEF KeyInv, Unconfirmed
    <3>2. CASE q # r
      BY <2>1, <2>3, <3>2 DEF KeyInv
    <3> QED BY <3>1, <3>2
  <2> QED BY <2>4, <2>5, <2>6, <2>7 DEF KeyInv, Keyed
<1>5. ASSUME NEW r \in Requests, Respond(r) PROVE KeyInv'
  <2>1. /\ UNCHANGED <<tasks, keys, late, crashes>>
        /\ answer' = [answer EXCEPT ![r] = r]
        /\ Uncommitted(r)' <=> late
        /\ late => Uncommitted(r)
        /\ \A q \in Requests : q # r => pc'[q] = pc[q]
    BY <1>5 DEF Respond, Respondable, Go, Reply, TypeOK, Uncommitted
  <2>2. ~late => r \in tasks
    <3>1. CASE late
      BY <3>1
    <3>2. CASE ~late
      BY <1>5, <3>2 DEF Respond, Respondable, JobInv
    <3> QED BY <3>1, <3>2
  <2>3. \A q \in Requests : Uncommitted(q)' => Uncommitted(q)
    BY <2>1 DEF Uncommitted
  <2>4. \A q \in Requests : q # r => (Uncommitted(q)' <=> Uncommitted(q))
    BY <2>1 DEF Uncommitted
  <2>5. answer \in [Requests -> Requests \cup {NoTask, "conflict", "error"}]
    BY DEF TypeOK
  <2>6. \A q \in Requests : (q # r /\ Unconfirmed(q)) => Unconfirmed(q)'
    BY <2>1, <2>4, <2>5 DEF Unconfirmed
  <2>7. answer'[r] = r /\ (r \in tasks' \/ Unconfirmed(r)')
    BY <2>1, <2>2, <2>5 DEF Unconfirmed, TypeOK
  <2>8. \A q \in Requests : answer'[q] \in Requests =>
          /\ answer'[q] \in tasks' \/ Unconfirmed(q)'
          /\ BodyOf[answer'[q]] = BodyOf[q]
          /\ KeyOf[answer'[q]] = KeyOf[q]
    BY <2>1, <2>5, <2>6, <2>7 DEF KeyInv
  <2> QED BY <2>1, <2>3, <2>8 DEF KeyInv, Keyed
<1>6. ASSUME NEW r \in Requests, Enqueue(r) PROVE KeyInv'
  <2>1. /\ UNCHANGED <<tasks, keys, answer, late, crashes>>
        /\ \A q \in Requests : Uncommitted(q)' <=> Uncommitted(q)
    BY <1>6 DEF Enqueue, Hand, Go, TypeOK, Uncommitted
  <2>2. \A q \in Requests : Unconfirmed(q)' <=> Unconfirmed(q)
    BY <2>1 DEF Unconfirmed
  <2> QED BY <2>1, <2>2 DEF KeyInv, Keyed
<1>7. CASE Work \/ UNCHANGED vars
  <2>1. UNCHANGED <<tasks, keys, answer, late, crashes, pc>>
    BY <1>7 DEF Work, vars
  <2>2. \A q \in Requests : /\ Uncommitted(q)' <=> Uncommitted(q)
                            /\ Unconfirmed(q)' <=> Unconfirmed(q)
    BY <2>1 DEF Uncommitted, Unconfirmed
  <2> QED BY <2>1, <2>2 DEF KeyInv, Keyed
<1> QED BY <1>1, <1>2, <1>3, <1>4, <1>5, <1>6, <1>7 DEF Next, Step

\* A step that only adds tasks which are accounted for, and jobs, forgets none.
LEMMA StaysAccounted ==
  ASSUME NEW t \in Requests, AccountedFor(t), TypeOK,
         late' = late, planned' = planned, dropped' = dropped, queue' = queue,
         crashes' = crashes \/ crashes' = crashes + 1,
         pc'[t] = pc[t] \/ pc[t] \notin {"committed", "background"}
                        \/ (pc[t] = "committed" /\ pc'[t] = "background") \/ crashes' = crashes + 1
  PROVE  AccountedFor(t)'
  BY DEF AccountedFor, TypeOK

\* Jobs come of requests that created a task, one each, and none is lost.
LEMMA JobStep == TypeOK /\ KeyInv /\ JobInv /\ [Next]_vars => JobInv'
<1> SUFFICES ASSUME TypeOK, KeyInv, JobInv, [Next]_vars PROVE JobInv'
  OBVIOUS
<1> DEFINE InQueue(t) == \E i \in DOMAIN queue : queue[i] = t
<1>0. queue \in Seq(Requests) /\ late \in BOOLEAN /\ crashes \in Nat /\ pc \in [Requests -> {"new",
        "missed", "open", "committed", "background", "handed", "done"}]
  BY DEF TypeOK
<1>1. ASSUME NEW r \in Requests, Enqueue(r) PROVE JobInv'
  <2>1. /\ UNCHANGED <<tasks, late, planned, dropped, crashes>>
        /\ queue' = Append(queue, r)
        /\ enqueued' = [enqueued EXCEPT ![r] = @ + 1]
        /\ pc[r] = "background" /\ pc'[r] = (IF late THEN "handed" ELSE "done")
        /\ \A q \in Requests : q # r => pc'[q] = pc[q]
    BY <1>0, <1>1 DEF Enqueue, Hand, Go
  <2>2. /\ DOMAIN queue' = 1..(Len(queue) + 1) /\ DOMAIN queue = 1..Len(queue) /\ Len(queue) \in Nat
        /\ queue'[Len(queue) + 1] = r /\ \A i \in DOMAIN queue : queue'[i] = queue[i]
    BY <1>0, <2>1
  <2>3. InQueue(r)' /\ \A t \in Requests : InQueue(t) => InQueue(t)'
    BY <2>2
  <2>4. \A q \in Requests : pc'[q] = "committed" \/ (~late' /\ pc'[q] = "background") => q \in tasks'
    BY <2>1 DEF JobInv
  <2>5. ~late' => JobsAreForTasks' /\ \A q \in Requests : pc'[q] # "handed"
    <3>1. \A i \in DOMAIN queue' : i \in DOMAIN queue \/ queue'[i] = r
      BY <2>2
    <3> QED BY <2>1, <2>2, <3>1 DEF JobInv, JobsAreForTasks
  <2>6. \A q \in Requests : enqueued'[q] = 0 \/ (enqueued'[q] = 1 /\ pc'[q] \in {"handed", "done"})
    BY <2>1 DEF JobInv, TypeOK
  <2>7. \A q \in Requests : pc'[q] = "handed" => q \in dropped' \/ InQueue(q)'
    BY <2>1, <2>3 DEF JobInv
  <2>8. NoTaskForgotten'
    <3> SUFFICES ASSUME NEW t \in tasks' PROVE AccountedFor(t)'
      BY DEF NoTaskForgotten
    <3>1. t \in tasks /\ t \in Requests /\ AccountedFor(t)
      BY <2>1 DEF JobInv, NoTaskForgotten, TypeOK
    <3>2. CASE t = r
      BY <2>3, <3>2 DEF AccountedFor
    <3>3. CASE t # r
      BY <2>1, <2>3, <3>1, <3>3 DEF AccountedFor
    <3> QED BY <3>2, <3>3
  <2>9. \A q \in tasks' : pc'[q] \notin {"new", "missed", "open", "handed"} /\ ~(late' /\ pc'[q] = "background")
    BY <2>1 DEF JobInv, TypeOK
  <2> QED BY <2>4, <2>5, <2>6, <2>7, <2>8, <2>9 DEF JobInv
<1>2. ASSUME NEW r \in Requests, Replay(r) \/ Conflict(r) \/ Miss(r) \/ Create(r) \/ CreateTwice(r)
                                 \/ Commit(r) \/ Respond(r) \/ Crash(r)
      PROVE  JobInv'
  <2>1. /\ UNCHANGED <<queue, enqueued, planned, dropped, late>>
        /\ tasks \subseteq tasks' /\ tasks' \subseteq tasks \cup {r}
        /\ \A q \in Requests : q # r => pc'[q] = pc[q]
    BY <1>2 DEF Replay, Conflict, Miss, Create, CreateTwice, Commit, Respond, Crash, Go, jobVars, TypeOK
  <2>2. /\ \/ /\ tasks' = tasks /\ crashes' = crashes
              /\ pc[r] \in {"new", "missed"} /\ pc'[r] \in {"missed", "open", "done"}
           \/ tasks' = tasks /\ crashes' = crashes + 1 /\ pc[r] # "done" /\ pc'[r] = "done"
           \/ /\ r \in tasks' /\ crashes' = crashes
              /\ \/ late /\ pc[r] = "handed" /\ pc'[r] = "done"
                 \/ ~late /\ pc[r] = "open" /\ pc'[r] = "committed"
           \/ /\ tasks' = tasks /\ crashes' = crashes /\ pc'[r] = "background"
              /\ pc[r] = (IF late THEN "open" ELSE "committed")
    <3>1. CASE Replay(r) \/ Conflict(r)
      BY <1>0, <3>1 DEF Replay, Conflict, Found, Go
    <3>2. CASE Miss(r) \/ Create(r) \/ CreateTwice(r)
      BY <1>0, <3>2 DEF Miss, Create, CreateTwice, Insertable, Go
    <3>3. CASE Commit(r)
      BY <1>0, <3>3 DEF Commit, Go
    <3>4. CASE Respond(r)
      BY <1>0, <3>4 DEF Respond, Respondable, Go
    <3>5. CASE Crash(r)
      BY <1>0, <3>5 DEF Crash, Go
    <3> QED BY <1>2, <3>1, <3>2, <3>3, <3>4, <3>5
  <2>3. \A q \in Requests : pc'[q] = "committed" \/ (~late' /\ pc'[q] = "background") => q \in tasks'
    BY <2>1, <2>2 DEF JobInv
  <2>4. ~late' => JobsAreForTasks' /\ \A q \in Requests : pc'[q] # "handed"
    BY <2>1, <2>2 DEF JobInv, JobsAreForTasks
  <2>5. \A q \in Requests : enqueued'[q] = 0 \/ (enqueued'[q] = 1 /\ pc'[q] \in {"handed", "done"})
    BY <2>1, <2>2 DEF JobInv
  <2>6. \A q \in Requests : pc'[q] = "handed" => q \in dropped' \/ InQueue(q)'
    BY <2>1, <2>2 DEF JobInv
  <2>7. ASSUME NEW t \in tasks' PROVE AccountedFor(t)'
    <3>1. t \in Requests
      BY <2>1, <2>7 DEF TypeOK
    <3>2. CASE t \in tasks
      <4>1. AccountedFor(t)
        BY <3>2 DEF JobInv, NoTaskForgotten
      <4>2. CASE t # r
        BY <2>1, <2>2, <3>1, <4>1, <4>2 DEF AccountedFor, TypeOK
      <4>3. CASE t = r
        BY <2>1, <2>2, <3>1, <4>1, <4>3 DEF AccountedFor, TypeOK
      <4> QED BY <4>2, <4>3
    <3>3. CASE t \notin tasks
      <4>1. /\ t = r
            /\ \/ late /\ pc[r] = "handed" /\ pc'[r] = "done"
               \/ ~late /\ pc[r] = "open" /\ pc'[r] = "committed"
        BY <2>1, <2>2, <2>7, <3>3
      <4>2. CASE pc'[r] = "committed"
        BY <4>1, <4>2 DEF AccountedFor
      <4>3. CASE late /\ pc[r] = "handed"
        BY <2>1, <4>1, <4>3 DEF AccountedFor, JobInv
      <4> QED BY <4>1, <4>2, <4>3
    <3> QED BY <3>2, <3>3
  <2>8. \A q \in tasks' : pc'[q] \notin {"new", "missed", "open", "handed"} /\ ~(late' /\ pc'[q] = "background")
    BY <2>1, <2>2 DEF JobInv, TypeOK
  <2> QED BY <2>3, <2>4, <2>5, <2>6, <2>7, <2>8 DEF JobInv, NoTaskForgotten
<1>3. CASE Work
  <2>1. /\ queue' = Tail(queue) /\ queue # <<>>
        /\ UNCHANGED <<tasks, enqueued, pc, late, crashes>>
        /\ planned' = planned \cup ({Head(queue)} \cap tasks)
        /\ dropped' = dropped \cup ({Head(queue)} \ tasks)
    BY <1>3 DEF Work
  <2>2. /\ \A i \in DOMAIN queue' : queue'[i] = queue[i + 1] /\ i + 1 \in DOMAIN queue
        /\ \A i \in DOMAIN queue : i = 1 \/ (i - 1 \in DOMAIN queue' /\ queue'[i - 1] = queue[i])
        /\ Head(queue) = queue[1] /\ 1 \in DOMAIN queue
    BY <1>0, <2>1
  <2>3. \A t \in Requests : InQueue(t) => InQueue(t)' \/ t = Head(queue)
    BY <2>2
  <2>4. ~late' => JobsAreForTasks' /\ \A q \in Requests : pc'[q] # "handed"
    BY <2>1, <2>2 DEF JobInv, JobsAreForTasks
  <2>6. ASSUME NEW q \in Requests, pc'[q] = "handed" PROVE q \in dropped' \/ InQueue(q)'
    <3>1. q \in dropped \/ InQueue(q)
      BY <2>1, <2>6 DEF JobInv
    <3>2. q \notin tasks
      BY <2>1, <2>6 DEF JobInv
    <3> QED BY <2>1, <2>3, <3>1, <3>2
  <2>7. ASSUME NEW t \in tasks' PROVE AccountedFor(t)'
    <3>1. t \in tasks /\ t \in Requests /\ AccountedFor(t)
      BY <2>1, <2>7 DEF JobInv, NoTaskForgotten, TypeOK
    <3> QED BY <2>1, <2>3, <3>1 DEF AccountedFor
  <2> QED BY <2>1, <2>4, <2>6, <2>7 DEF JobInv, NoTaskForgotten
<1>4. CASE UNCHANGED vars
  BY <1>4 DEF vars, jobVars, JobInv, JobsAreForTasks, NoTaskForgotten, AccountedFor
<1> QED BY <1>1, <1>2, <1>3, <1>4 DEF Next, Step

LEMMA Inductive == Spec => []CreationInv
<1>1. CreationInv /\ [Next]_vars => CreationInv'
  BY TypeStep, KeyStep, JobStep DEF CreationInv
<1> QED BY <1>1, InitInv, PTL DEF Spec

\* Concurrent requests with one Idempotency-Key never make two tasks, however
\* many there are and whoever dies (create_task, store_key).
THEOREM IdempotentCreation == Spec => []OneTaskPerKey
<1>1. CreationInv => OneTaskPerKey
  BY DEF CreationInv, KeyInv, OneTaskPerKey, Keyed
<1> QED BY <1>1, Inductive, PTL

\* Whoever is answered with a task is answered with the one task of its key,
\* unless the framework answered before the commit and a death undid it.
THEOREM FaithfulReplay == Spec => []ReplayIsFaithful
<1>1. ASSUME CreationInv PROVE ReplayIsFaithful
  <2> SUFFICES ASSUME NEW r \in Requests, NEW q \in Requests, answer[r] \in Requests,
                      Keyed(r), KeyOf[q] = KeyOf[r], answer[q] \in Requests,
                      ~(late /\ crashes > 0)
               PROVE  answer[q] = answer[r]
    BY <1>1 DEF CreationInv, KeyInv, ReplayIsFaithful
  <2>1. /\ answer[r] \in tasks \/ (Uncommitted(r) /\ answer[r] = r)
        /\ answer[q] \in tasks \/ (Uncommitted(q) /\ answer[q] = q)
        /\ KeyOf[answer[r]] = KeyOf[r] /\ KeyOf[answer[q]] = KeyOf[r] /\ Keyed(q)
    BY <1>1 DEF CreationInv, KeyInv, Unconfirmed, Keyed
  <2>2. CASE answer[r] \in tasks
    <3>1. keys[KeyOf[r]] = answer[r] /\ answer[r] # NoTask
      BY <1>1, <2>1, <2>2, CreationAssumption DEF CreationInv, KeyInv, TypeOK, Keyed
    <3> QED BY <1>1, <2>1, <3>1 DEF CreationInv, KeyInv, Keyed
  <2>3. CASE Uncommitted(r) /\ answer[r] = r
    <3>1. keys[KeyOf[r]] = NoTask
      BY <1>1, <2>3 DEF CreationInv, KeyInv
    <3>2. answer[q] \notin tasks
      BY <1>1, <2>1, <3>1, CreationAssumption DEF CreationInv, KeyInv, TypeOK, Keyed
    <3> QED BY <1>1, <2>1, <2>3, <3>2 DEF CreationInv, KeyInv
  <2> QED BY <2>1, <2>2, <2>3
<1> QED BY <1>1, Inductive, PTL

\* However requests, retries and workers interleave, and whenever the framework
\* commits: a task whose processes live is planned, has its job in the queue or
\* is about to, unless a worker took the job before the commit.
THEOREM NothingForgotten == Spec => []NoTaskForgotten
<1>1. CreationInv => NoTaskForgotten
  BY DEF CreationInv, JobInv
<1> QED BY <1>1, Inductive, PTL

\* No task is handed to the queue twice.
THEOREM OneJobPerTask == Spec => []EnqueuedOnce
<1>1. CreationInv => EnqueuedOnce
  BY DEF CreationInv, JobInv, EnqueuedOnce
<1> QED BY <1>1, Inductive, PTL

=============================================================================
