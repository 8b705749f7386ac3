------------------------- MODULE MissionBridgeProofs -------------------------
(***************************************************************************)
(* What the bridge and the mission server promise, for any missions, goals *)
(* and bounds: the gate holds, COMPLETE is earned, only a dead worker      *)
(* sends twice, and the end of an event stream is the end of the mission.  *)
(***************************************************************************)
EXTENDS MissionBridge, FiniteSetTheorems, TLAPS

-----------------------------------------------------------------------------
(* The report of a thread                                                  *)

Words == {"verified", "approval", "completed", "artifact", "progress", "failed",
          "complete", "awaiting_approval", "stored", "bus"}
Lines == {"emit", "status", "result", "close"} \X Words

\* The status a report may give a mission with outcome o.
Fits(o, v) ==
  /\ v \in Settled
  /\ v = "complete" => o \in {"complete", "opened"}
  /\ v = "awaiting_approval" => o = "awaiting_approval"

\* What holds of a report and of every rest of it: the statuses in it fit,
\* neither a status nor the result follows a status, and nothing the close.
Tells(t, o) ==
  /\ t \in Seq(Lines)
  /\ \A i \in 1..Len(t) : t[i][1] = "status" => Fits(o, t[i][2])
  /\ \A i, j \in 1..Len(t) :
       i < j /\ t[i][1] = "status" => t[j][1] \notin {"status", "result"}
  /\ \A i \in 1..Len(t) : t[i][1] = "close" => i = Len(t)

\* A status is still to come; a completion comes after the result; neither
\* a status nor a result is to come.
Announces(t) == \E i \in 1..Len(t) : t[i][1] = "status"
StoresFirst(t) ==
  \A i \in 1..Len(t) : t[i] = <<"status", "complete">> =>
    \E j \in 1..Len(t) : j < i /\ t[j][1] = "result"
Quiet(t) == \A i \in 1..Len(t) : t[i][1] \notin {"status", "result"}

-----------------------------------------------------------------------------
(* A mission                                                               *)

Statuses == {"none", "created", "running"} \cup Settled
Stages   == {"none", "begun", "working", "reporting", "dead"}

Untouched(m) == result[m] = NoResult /\ m \notin sent /\ ~closed[m]
Earned(m) ==
  /\ outcome[m] \in {"complete", "opened"}
  /\ result[m] = Verdict(outcome[m])
  /\ run[m].kind = "simulate" => m \in sent

Reporting(m) ==
  /\ outcome[m] \in Outcomes(run[m])
  /\ MustSend(run[m], outcome[m]) => m \in sent
  /\ result[m] \in {NoResult, Verdict(outcome[m])}
  /\ Tells(todo[m], outcome[m])
  /\ status[m] = "running" => /\ Announces(todo[m])
                              /\ result[m] = Verdict(outcome[m]) \/ StoresFirst(todo[m])
  /\ status[m] \in Settled => Quiet(todo[m])

MissionInv(m) ==
  /\ run[m] \in Runs
  /\ m \notin known => at[m] = "none"
  /\ status[m] = "none" => m \notin known /\ Untouched(m)
  /\ m \in known /\ at[m] = "none" => status[m] = "created" /\ Untouched(m)
  /\ at[m] = "begun" => status[m] = "created" /\ Untouched(m)
  /\ at[m] = "working" => status[m] = "running" /\ Untouched(m)
  /\ at[m] = "reporting" => status[m] \in {"running"} \cup Settled /\ Reporting(m)
  /\ at[m] = "dead" => status[m] \in {"running"} \cup Settled /\ ~closed[m]
  /\ m \in known /\ closed[m] => at[m] = "reporting" /\ todo[m] = <<>>
  /\ status[m] = "complete" => Earned(m)
  /\ status[m] = "awaiting_approval" => run[m].gated
  /\ m \in sent => run[m].kind = "simulate" /\ ~run[m].gated

ServerTypeOK ==
  /\ known \subseteq Missions /\ sent \subseteq Missions
  /\ status \in [Missions -> Statuses]
  /\ at \in [Missions -> Stages]
  /\ DOMAIN run = Missions /\ DOMAIN result = Missions /\ DOMAIN outcome = Missions
  /\ DOMAIN todo = Missions /\ DOMAIN closed = Missions
  /\ events \in [Missions -> Seq(Words)]

ServerInv == ServerTypeOK /\ \A m \in Missions : MissionInv(m)

-----------------------------------------------------------------------------
(* The page                                                                *)

Following == {"deliver", "closed?", "drained?", "ended", "settled", "done"}

PageInv ==
  /\ {"step", "mission", "after", "shown", "status", "artifact"} \subseteq DOMAIN page
  /\ page.step \in {"absent", "idle", "created", "broken"} \cup Following
  /\ page.step \in {"created"} \cup Following => page.mission \in known
  /\ page.step = "created" => at[page.mission] = "none"
  /\ page.step = "idle" => page.shown = 0 /\ page.after = 0 /\ known = {}
  /\ page.step \in {"created"} \cup Following =>
       /\ page.shown \in 0..Len(events[page.mission])
       /\ page.after \in 0..page.shown
  /\ page.step \in {"drained?", "ended", "settled", "done"} => closed[page.mission]
  /\ page.step \in {"ended", "settled", "done"} =>
       page.shown = Len(events[page.mission])
  /\ page.step \in {"settled", "done"} => page.status \in Settled
  /\ page.step = "done" =>
       (page.artifact <=> "artifact" \in ToSet(events[page.mission]))

-----------------------------------------------------------------------------
(* The bridge                                                              *)

\* The missions that may send.
Senders == {m \in Missions : run[m].kind = "simulate" /\ ~run[m].gated}

Over == {"COMPLETE", "FAILED"}
Watching == {"derive", "poll", "result", "reconcile"}

\* The one mission that a worker's job may let send is counted for: the
\* execution is over, or the job knows the mission, or is about to end it.
Used ==
  \/ row.status \in Over
  \/ work.at \in Watching /\ work.mission \in Senders
  \/ work.at = "commit" /\ work.row.status \in Over

WorkInv ==
  /\ row.status \in {"QUEUED", "AWAITING_APPROVAL", "BLOCKED", "RUNNING"} \cup Over
  /\ work.at \in {"idle", "create", "start", "commit"} \cup Watching
  /\ work.at # "idle" =>
       \/ work.job = "plan" /\ row.status = "QUEUED"
       \/ work.job = "resume" /\ row.status = "RUNNING"
  /\ work.at \in {"create", "start"} /\ work.job = "resume" => row.granted
  /\ work.at = "start" => /\ work.mission \in Missions
                          /\ status[work.mission] # "none"
                          /\ at[work.mission] = "none"
  /\ work.at \in {"result", "reconcile"} /\ work.status = "awaiting_approval" =>
       work.mission \notin Senders
  /\ work.at \in {"result", "reconcile"} /\ work.status = "complete" =>
       \E m \in Missions : status[m] = "complete"
  /\ work.at = "commit" =>
       /\ work.row.status \in {"AWAITING_APPROVAL"} \cup Over
       /\ work.row.status = "COMPLETE" => \E m \in Missions : status[m] = "complete"
  /\ row.status = "COMPLETE" => \E m \in Missions : status[m] = "complete"

SendersInv ==
  /\ page.step = "absent" /\ goal.gated /\ goal.kind = "simulate" /\ Senders # {}
       => row.granted
  /\ IsFiniteSet(Senders)
  /\ page.step = "absent" => Cardinality(Senders) <= spent.crashes + (IF Used THEN 1 ELSE 0)
  /\ page.step # "absent" =>
       Senders \subseteq (IF page.step \in {"idle", "created"} THEN {} ELSE {page.mission})

RowType(r) ==
  {"status", "granted", "pending", "cancel", "mission", "steps", "verification"} = DOMAIN r
WorkType(w) ==
  {"at", "job", "row", "mission", "status", "result"} = DOMAIN w /\ RowType(w.row)

BridgeTypeOK ==
  /\ RowType(row) /\ WorkType(work)
  /\ {"requests", "crashes", "redeliveries", "faults"} = DOMAIN spent
  /\ spent.crashes \in Nat
  /\ page.step = "absent" => goal \in Runs
  /\ page.step # "absent" =>
       queue = <<>> /\ work.at = "idle" /\ row.status = "QUEUED" /\ row.pending = 0

Inv == ServerInv /\ PageInv /\ BridgeTypeOK /\ WorkInv /\ SendersInv

-----------------------------------------------------------------------------
(* What a report says                                                      *)

\* Its pieces: events only, and events around the result.
Emits(s) == s \in Seq(Lines) /\ \A i \in 1..Len(s) : s[i][1] = "emit"

IsJoin(u, s, t) ==
  /\ u \in Seq(Lines) /\ Len(s) \in Nat /\ Len(t) \in Nat /\ Len(u) = Len(s) + Len(t)
  /\ \A i \in 1..Len(s) : i \in 1..Len(u) /\ u[i] = s[i]
  /\ \A i \in 1..Len(u) : i > Len(s) => i - Len(s) \in 1..Len(t) /\ u[i] = t[i - Len(s)]

LEMMA Joined == \A s, t \in Seq(Lines) : IsJoin(s \o t, s, t)
BY DEF IsJoin

LEMMA EmitsOne ==
  ASSUME NEW e \in Words
  PROVE  Emits(Emit(e))
BY DEF Emits, Emit, Heard, Lines

LEMMA EmitsMore ==
  ASSUME NEW s, NEW t, Emits(s), Emits(t)
  PROVE  Emits(s \o t)
BY DEF Emits

\* The end of every report: a status, events, the close.
LEMMA Endings ==
  ASSUME NEW v \in Settled, NEW z, Emits(z), NEW o, Fits(o, v),
         NEW t, t = SetStatus(v) \o z \o Close
  PROVE  /\ Tells(t, o) /\ Len(t) > 0 /\ t[1] = <<"status", v>>
         /\ \A i \in 2..Len(t) : t[i][1] \in {"emit", "close"}
<1> DEFINE c == Close
           h == SetStatus(v)
           p == h \o z
<1>1. h \in Seq(Lines) /\ Len(h) = 1 /\ h[1] = <<"status", v>>
  BY DEF SetStatus, Lines, Words, Settled
<1>2. c \in Seq(Lines) /\ \A i \in 1..Len(c) : c[i][1] = "close" /\ i = Len(c)
  BY DEF Close, Heard, Lines, Words
<1>3. z \in Seq(Lines) /\ \A i \in 1..Len(z) : z[i][1] = "emit"
  BY DEF Emits
<1>4. t = p \o c
  OBVIOUS
<1> HIDE DEF c, h
<1>5. /\ p \in Seq(Lines) /\ Len(p) = 1 + Len(z) /\ Len(z) \in Nat /\ p[1] = h[1]
      /\ \A i \in 1..Len(p) : i > 1 => i - 1 \in 1..Len(z) /\ p[i] = z[i - 1]
  <2>1. IsJoin(p, h, z)
    BY <1>1, <1>3, Joined
  <2>2. 1 \in 1..Len(h)
    BY <1>1
  <2> HIDE DEF p
  <2> QED
    BY <2>1, <2>2, <1>1 DEF IsJoin
<1> HIDE DEF p
<1>6. /\ t \in Seq(Lines) /\ Len(c) \in Nat /\ Len(t) = Len(p) + Len(c)
      /\ \A i \in 1..Len(p) : t[i] = p[i]
      /\ \A i \in 1..Len(t) : i > Len(p) => i - Len(p) \in 1..Len(c) /\ t[i] = c[i - Len(p)]
  <2>1. IsJoin(t, p, c)
    BY <1>2, <1>4, <1>5, Joined
  <2> QED
    BY <2>1 DEF IsJoin
<1>7. Len(t) > 0 /\ t[1] = <<"status", v>>
  <2>1. Len(p) \in Nat /\ Len(t) \in Nat /\ 1 \in 1..Len(p) /\ Len(t) > 0
    BY <1>5, <1>6
  <2> QED
    BY <2>1, <1>1, <1>5, <1>6
<1>8. ASSUME NEW i \in 2..Len(t)
      PROVE  t[i][1] \in {"emit", "close"} /\ (t[i][1] = "close" => i = Len(t))
  <2>1. CASE i <= Len(p)
    <3>1. i \in 1..Len(p) /\ i > 1
      BY <2>1, <1>5, <1>6
    <3>2. t[i] = z[i - 1] /\ i - 1 \in 1..Len(z)
      BY <3>1, <1>5, <1>6
    <3> QED
      BY <3>2, <1>3
  <2>2. CASE i > Len(p)
    <3>1. i - Len(p) \in 1..Len(c) /\ t[i] = c[i - Len(p)]
      BY <2>2, <1>5, <1>6
    <3>2. t[i][1] = "close" /\ i - Len(p) = Len(c)
      BY <3>1, <1>2
    <3> QED
      BY <3>2, <1>5, <1>6
  <2> QED
    BY <2>1, <2>2, <1>5
<1>9. Tells(t, o)
  <2>1. \A i \in 1..Len(t) : t[i][1] = "status" => i = 1
    <3> SUFFICES ASSUME NEW i \in 1..Len(t), i # 1 PROVE t[i][1] # "status"
      OBVIOUS
    <3>1. i \in 2..Len(t)
      BY <1>5, <1>6
    <3> QED
      BY <3>1, <1>8
  <2>2. \A i \in 1..Len(t) : t[i][1] = "status" => Fits(o, t[i][2])
    BY <2>1, <1>7
  <2>3. \A i, j \in 1..Len(t) :
          i < j /\ t[i][1] = "status" => t[j][1] \notin {"status", "result"}
    BY <2>1, <1>8
  <2>4. \A i \in 1..Len(t) : t[i][1] = "close" => i = Len(t)
    BY <1>8, <1>7
  <2> QED
    BY <2>2, <2>3, <2>4, <1>6 DEF Tells
<1> QED
  BY <1>7, <1>8, <1>9

\* What comes before does not spoil it: events, with the result among them.
LEMMA Beginnings ==
  ASSUME NEW s \in Seq(Lines), \A i \in 1..Len(s) : s[i][1] \in {"emit", "result"},
         NEW t, NEW o, Tells(t, o), NEW u, u = s \o t
  PROVE  Tells(u, o)
<1>1. /\ t \in Seq(Lines)
      /\ \A i \in 1..Len(t) : t[i][1] = "status" => Fits(o, t[i][2])
      /\ \A i, j \in 1..Len(t) :
           i < j /\ t[i][1] = "status" => t[j][1] \notin {"status", "result"}
      /\ \A i \in 1..Len(t) : t[i][1] = "close" => i = Len(t)
  BY DEF Tells
<1>2. /\ u \in Seq(Lines) /\ Len(s) \in Nat /\ Len(t) \in Nat /\ Len(u) = Len(s) + Len(t)
      /\ \A i \in 1..Len(s) : i \in 1..Len(u) /\ u[i] = s[i]
      /\ \A i \in 1..Len(u) : i > Len(s) => i - Len(s) \in 1..Len(t) /\ u[i] = t[i - Len(s)]
  BY <1>1, Joined DEF IsJoin
<1>3. ASSUME NEW i \in 1..Len(u), u[i][1] \in {"status", "close"}
      PROVE  i > Len(s) /\ i - Len(s) \in 1..Len(t) /\ u[i] = t[i - Len(s)]
  <2>1. ~(i <= Len(s))
    <3> SUFFICES ASSUME i <= Len(s) PROVE FALSE
      OBVIOUS
    <3>1. i \in 1..Len(s)
      BY <1>2
    <3> QED
      BY <1>2, <1>3, <3>1
  <2> QED
    BY <2>1, <1>2
<1>4. \A i \in 1..Len(u) : u[i][1] = "status" => Fits(o, u[i][2])
  BY <1>1, <1>3
<1>5. \A i \in 1..Len(u) : u[i][1] = "close" => i = Len(u)
  <2> SUFFICES ASSUME NEW i \in 1..Len(u), u[i][1] = "close" PROVE i = Len(u)
    OBVIOUS
  <2>1. i - Len(s) \in 1..Len(t) /\ u[i] = t[i - Len(s)]
    BY <1>3
  <2>2. i - Len(s) = Len(t)
    BY <2>1, <1>1
  <2> QED
    BY <2>2, <1>2
<1>6. \A i, j \in 1..Len(u) :
        i < j /\ u[i][1] = "status" => u[j][1] \notin {"status", "result"}
  <2> SUFFICES ASSUME NEW i \in 1..Len(u), NEW j \in 1..Len(u), i < j, u[i][1] = "status"
               PROVE  u[j][1] \notin {"status", "result"}
    OBVIOUS
  <2>1. i > Len(s) /\ i - Len(s) \in 1..Len(t) /\ u[i] = t[i - Len(s)]
    BY <1>3
  <2>2. j > Len(s) /\ j - Len(s) \in 1..Len(t) /\ u[j] = t[j - Len(s)]
    BY <2>1, <1>2
  <2>3. i - Len(s) < j - Len(s)
    BY <1>2
  <2> QED
    BY <2>1, <2>2, <2>3, <1>1
<1> QED
  BY <1>2, <1>4, <1>5, <1>6 DEF Tells

Prelude(s) ==
  /\ s \in Seq(Lines) /\ \A i \in 1..Len(s) : s[i][1] \in {"emit", "result"}
  /\ \E i \in 1..Len(s) : s[i][1] = "result"

LEMMA AroundTheResult ==
  ASSUME NEW x, NEW y, Emits(x), Emits(y)
  PROVE  Prelude(x \o StoreResult \o y)
<1> DEFINE r == StoreResult
           p == x \o r
           s == p \o y
<1>1. r \in Seq(Lines) /\ Len(r) = 1 /\ r[1][1] = "result"
  BY DEF StoreResult, Lines, Words
<1>2. /\ x \in Seq(Lines) /\ \A i \in 1..Len(x) : x[i][1] = "emit"
      /\ y \in Seq(Lines) /\ \A i \in 1..Len(y) : y[i][1] = "emit"
  BY DEF Emits
<1> HIDE DEF r
<1>4. /\ p \in Seq(Lines) /\ Len(x) \in Nat /\ Len(p) = Len(x) + 1
      /\ \A i \in 1..Len(x) : p[i] = x[i]
      /\ p[Len(x) + 1] = r[1]
  <2>1. IsJoin(p, x, r)
    BY <1>1, <1>2, Joined
  <2> HIDE DEF p
  <2>2. Len(x) + 1 \in 1..Len(p) /\ Len(x) + 1 > Len(x) /\ Len(x) + 1 - Len(x) = 1
    BY <2>1, <1>1 DEF IsJoin
  <2> QED
    BY <2>1, <2>2, <1>1 DEF IsJoin
<1> HIDE DEF p
<1>5. /\ s \in Seq(Lines) /\ Len(y) \in Nat /\ Len(s) = Len(p) + Len(y)
      /\ \A i \in 1..Len(p) : s[i] = p[i]
      /\ \A i \in 1..Len(s) : i > Len(p) => i - Len(p) \in 1..Len(y) /\ s[i] = y[i - Len(p)]
  <2>1. IsJoin(s, p, y)
    BY <1>2, <1>4, Joined
  <2> QED
    BY <2>1 DEF IsJoin
<1> HIDE DEF s
<1>6. Len(p) \in 1..Len(s) /\ s[Len(p)][1] = "result"
  BY <1>1, <1>4, <1>5
<1>7. ASSUME NEW i \in 1..Len(s) PROVE s[i][1] \in {"emit", "result"}
  <2>1. CASE i <= Len(x)
    BY <2>1, <1>2, <1>4, <1>5
  <2>2. CASE i = Len(p)
    BY <2>2, <1>6
  <2>3. CASE i > Len(p)
    <3>1. i - Len(p) \in 1..Len(y) /\ s[i] = y[i - Len(p)]
      BY <2>3, <1>5
    <3> QED
      BY <3>1, <1>2
  <2> QED
    BY <2>1, <2>2, <2>3, <1>4
<1>8. Prelude(s)
  BY <1>5, <1>6, <1>7 DEF Prelude
<1> QED
  BY <1>8 DEF s, p, r

LEMMA Failures ==
  /\ Tells(Failing, "error") /\ Announces(Failing) /\ StoresFirst(Failing)
<1>1. "failed" \in Settled /\ Fits("error", "failed") /\ Emits(Emit("failed"))
  BY EmitsOne DEF Settled, Fits, Words
<1>2. Failing = SetStatus("failed") \o Emit("failed") \o Close
  BY DEF Failing
<1>3. /\ Tells(Failing, "error") /\ Len(Failing) > 0 /\ Failing[1] = <<"status", "failed">>
      /\ \A i \in 2..Len(Failing) : Failing[i][1] \in {"emit", "close"}
  BY <1>1, <1>2, Endings
<1>4. Len(Failing) \in Nat
  BY <1>3 DEF Tells
<1>5. Announces(Failing)
  <2>1. 1 \in 1..Len(Failing) /\ Failing[1][1] = "status"
    BY <1>3, <1>4
  <2> QED
    BY <2>1 DEF Announces
<1>6. StoresFirst(Failing)
  <2> SUFFICES ASSUME NEW i \in 1..Len(Failing), Failing[i] = <<"status", "complete">>
               PROVE  FALSE
    BY DEF StoresFirst
  <2>1. CASE i = 1
    BY <2>1, <1>3
  <2>2. CASE i \in 2..Len(Failing)
    BY <2>2, <1>3
  <2> QED
    BY <2>1, <2>2, <1>4
<1> QED
  BY <1>3, <1>5, <1>6

LEMMA WithTheResult ==
  ASSUME NEW x, NEW y, NEW z, Emits(x), Emits(y), Emits(z),
         NEW o, NEW v \in Settled, Fits(o, v),
         NEW t, t = x \o StoreResult \o y \o (SetStatus(v) \o z \o Close)
  PROVE  Tells(t, o) /\ Announces(t) /\ StoresFirst(t)
<1> DEFINE s == x \o StoreResult \o y
           e == SetStatus(v) \o z \o Close
<1>1. t = s \o e
  OBVIOUS
<1>2. /\ s \in Seq(Lines) /\ \A i \in 1..Len(s) : s[i][1] \in {"emit", "result"}
      /\ \E i \in 1..Len(s) : s[i][1] = "result"
  BY AroundTheResult DEF Prelude
<1>3. Tells(e, o) /\ Len(e) > 0 /\ e[1] = <<"status", v>>
  BY Endings
<1> HIDE DEF s, e
<1>4. e \in Seq(Lines)
  BY <1>3 DEF Tells
<1>5. IsJoin(t, s, e)
  BY <1>1, <1>2, <1>4, Joined
<1>6. Tells(t, o)
  BY <1>1, <1>2, <1>3, Beginnings
<1>7. Announces(t)
  <2>1. Len(s) + 1 \in 1..Len(t) /\ Len(s) + 1 > Len(s) /\ Len(s) + 1 - Len(s) = 1
    BY <1>3, <1>5 DEF IsJoin
  <2>2. t[Len(s) + 1] = e[1]
    BY <2>1, <1>5 DEF IsJoin
  <2>3. t[Len(s) + 1][1] = "status"
    BY <2>2, <1>3
  <2> QED
    BY <2>1, <2>3 DEF Announces
<1>8. StoresFirst(t)
  <2> SUFFICES ASSUME NEW i \in 1..Len(t), t[i] = <<"status", "complete">>
               PROVE  \E j \in 1..Len(t) : j < i /\ t[j][1] = "result"
    BY DEF StoresFirst
  <2>1. PICK k \in 1..Len(s) : s[k][1] = "result"
    BY <1>2
  <2>2. k \in 1..Len(t) /\ t[k][1] = "result"
    BY <2>1, <1>5 DEF IsJoin
  <2>3. ~(i \in 1..Len(s))
    <3>1. <<"status", "complete">>[1] \notin {"emit", "result"}
      OBVIOUS
    <3>2. i \in 1..Len(s) => t[i] = s[i]
      BY <1>5 DEF IsJoin
    <3>3. i \in 1..Len(s) => t[i][1] \in {"emit", "result"}
      BY <1>2, <3>2
    <3> QED
      BY <3>1, <3>3
  <2>4. k < i
    BY <2>3, <1>5 DEF IsJoin
  <2> QED
    BY <2>2, <2>4
<1> QED
  BY <1>6, <1>7, <1>8

LEMMA ReportTells ==
  ASSUME NEW r \in Runs, NEW o \in Outcomes(r), NEW t, t = Report(r, o)
  PROVE  Tells(t, o) /\ Announces(t) /\ StoresFirst(t)

<1>1. /\ Emits(<<>>) /\ Emits(Emit("verified")) /\ Emits(Emit("approval"))
      /\ Emits(Emit("completed")) /\ Emits(Emit("artifact")) /\ Emits(Emit("progress"))
      /\ Emits(Emit("failed"))
  <2>1. Emits(<<>>)
    BY DEF Emits
  <2> QED
    BY <2>1, EmitsOne DEF Words
<1>2. Fits(o, "failed") /\ "failed" \in Settled /\ "complete" \in Settled
      /\ "awaiting_approval" \in Settled
  BY DEF Fits, Settled
<1>3. CASE o = "error"
  BY <1>3, Failures DEF Report
<1>4. CASE o # "error" /\ r.kind = "simulate"
  <2> DEFINE y == IF Verdict(o).document THEN Emit("verified") \o Emit("artifact") ELSE <<>>
  <2>1. Emits(Replayed(o))
    <3>1. Emits(Emit("verified") \o (IF o = "awaiting_approval" THEN Emit("approval") ELSE <<>>))
      BY <1>1, EmitsMore
    <3> QED
      BY <3>1, <1>1, EmitsMore DEF Replayed
  <2>2. Emits(y)
    BY <1>1, EmitsMore
  <2> HIDE DEF y
  <2>3. CASE o = "awaiting_approval"
    <3>1. t = Replayed(o) \o StoreResult \o y
                \o (SetStatus("awaiting_approval") \o Emit("approval") \o Close)
      BY <1>4, <2>3 DEF Report, Simulated, y
    <3>2. Fits(o, "awaiting_approval")
      BY <2>3, <1>2 DEF Fits
    <3> QED
      BY <3>1, <3>2, <1>1, <1>2, <2>1, <2>2, WithTheResult
  <2>4. CASE o = "complete"
    <3>1. t = Replayed(o) \o StoreResult \o y
                \o (SetStatus("complete") \o Emit("completed") \o Close)
      BY <1>4, <2>4 DEF Report, Simulated, y
    <3>2. Fits(o, "complete")
      BY <2>4, <1>2 DEF Fits
    <3> QED
      BY <3>1, <3>2, <1>1, <1>2, <2>1, <2>2, WithTheResult
  <2>5. CASE o \notin {"awaiting_approval", "complete"}
    <3>1. t = Replayed(o) \o StoreResult \o y
                \o (SetStatus("failed") \o Emit("failed") \o Close)
      BY <1>4, <2>5 DEF Report, Simulated, y, Failing
    <3> QED
      BY <3>1, <1>1, <1>2, <2>1, <2>2, WithTheResult
  <2> QED
    BY <2>3, <2>4, <2>5
<1>5. CASE o # "error" /\ r.kind # "simulate"
  <2> DEFINE x == Emit("progress")
  <2>1. StoreResult \in Seq(Lines) /\ x \in Seq(Lines)
    BY <1>1 DEF StoreResult, Lines, Words, Emits
  <2>2. x \o StoreResult = x \o StoreResult \o <<>>
    <3> HIDE DEF x
    <3>1. x \o StoreResult \in Seq(Lines)
      BY <2>1
    <3> QED
      BY <3>1
  <2>3. Emits(Announced(o))
    <3>1. Emits(Emit("verified") \o (IF o = "opened" THEN <<>> ELSE Emit("artifact")))
      BY <1>1, EmitsMore
    <3> QED
      BY <3>1, <1>1, EmitsMore DEF Announced
  <2>4. CASE o \in {"complete", "opened"}
    <3>1. Verdict(o).complete
      BY <2>4 DEF Verdict
    <3>2. t = x \o StoreResult \o (SetStatus("complete") \o Announced(o) \o Close)
      BY <1>5, <3>1 DEF Report, Performed
    <3>3. t = x \o StoreResult \o <<>> \o (SetStatus("complete") \o Announced(o) \o Close)
      BY <3>2, <2>2
    <3>4. Fits(o, "complete")
      BY <2>4, <1>2 DEF Fits
    <3> QED
      BY <3>3, <3>4, <1>1, <1>2, <2>3, WithTheResult
  <2>5. CASE o \notin {"complete", "opened"}
    <3>1. ~Verdict(o).complete
      BY <2>5 DEF Verdict
    <3>2. t = x \o StoreResult \o (SetStatus("failed") \o Emit("failed") \o Close)
      BY <1>5, <3>1 DEF Report, Performed, Failing
    <3>3. t = x \o StoreResult \o <<>> \o (SetStatus("failed") \o Emit("failed") \o Close)
      BY <3>2, <2>2
    <3> QED
      BY <3>3, <1>1, <1>2, WithTheResult
  <2> QED
    BY <2>4, <2>5
<1> QED
  BY <1>3, <1>4, <1>5

-----------------------------------------------------------------------------
(* The server keeps its invariant                                          *)

\* A mission none of whose values change keeps what holds of it.
LEMMA LeftAlone ==
  ASSUME NEW k \in Missions, MissionInv(k),
         (k \in known)' <=> k \in known, (k \in sent)' <=> k \in sent,
         status'[k] = status[k], result'[k] = result[k], run'[k] = run[k],
         at'[k] = at[k], outcome'[k] = outcome[k], todo'[k] = todo[k],
         closed'[k] = closed[k]
  PROVE  MissionInv(k)'
BY Zenon DEF MissionInv, Untouched, Earned, Reporting

LEMMA CreateKeeps ==
  ASSUME ServerInv, NEW m \in Missions, Create(m)
  PROVE  ServerInv' /\ at[m] = "none" /\ m \notin known
<1>1. /\ status[m] = "none" /\ known' = known \cup {m}
      /\ status' = [status EXCEPT ![m] = "created"]
      /\ result' = result /\ run' = run /\ at' = at /\ outcome' = outcome /\ todo' = todo
      /\ events' = events /\ closed' = closed /\ sent' = sent
  BY DEF Create
<1>2. ServerTypeOK /\ MissionInv(m)
  BY DEF ServerInv
<1>3. ServerTypeOK'
  BY <1>1, <1>2 DEF ServerTypeOK, Statuses
<1>4. m \notin known /\ at[m] = "none" /\ Untouched(m) /\ run[m] \in Runs
  BY <1>1, <1>2 DEF MissionInv
<1>5. status'[m] = "created"
  BY <1>1, <1>2 DEF ServerTypeOK
<1>6. MissionInv(m)'
  BY <1>1, <1>4, <1>5 DEF MissionInv, Untouched, Settled
<1>7. ASSUME NEW k \in Missions, k # m PROVE MissionInv(k)'
  <2>1. status'[k] = status[k] /\ ((k \in known)' <=> k \in known)
    BY <1>1, <1>2, <1>7 DEF ServerTypeOK
  <2> QED
    BY <1>1, <2>1, LeftAlone DEF ServerInv
<1> QED
  BY <1>3, <1>4, <1>6, <1>7 DEF ServerInv

LEMMA StartKeeps ==
  ASSUME ServerInv, NEW m, m \in known => at[m] = "none", NEW r \in Runs, Start(m, r)
  PROVE  ServerInv'
<1> USE DEF ServerInv
<1>1. CASE m \notin known
  <2>1. UNCHANGED missionVars
    BY <1>1 DEF Start, missionVars
  <2>2. ServerTypeOK'
    BY <2>1 DEF missionVars, ServerTypeOK
  <2>3. \A k \in Missions : MissionInv(k)'
    BY <2>1, LeftAlone DEF missionVars
  <2> QED
    BY <2>2, <2>3
<1>2. CASE m \in known
  <2>1. /\ run' = [run EXCEPT ![m] = r] /\ at' = [at EXCEPT ![m] = "begun"]
        /\ known' = known /\ status' = status /\ result' = result /\ outcome' = outcome
        /\ todo' = todo /\ events' = events /\ closed' = closed /\ sent' = sent
    BY <1>2 DEF Start
  <2>2. ServerTypeOK /\ m \in Missions
    BY <1>2 DEF ServerTypeOK
  <2>3. ServerTypeOK'
    BY <2>1, <2>2 DEF ServerTypeOK, Stages
  <2>4. status[m] = "created" /\ Untouched(m)
    BY <1>2, <2>2 DEF MissionInv
  <2>5. run'[m] = r /\ at'[m] = "begun"
    BY <2>1, <2>2 DEF ServerTypeOK
  <2>6. MissionInv(m)'
    BY <1>2, <2>1, <2>4, <2>5 DEF MissionInv, Untouched
  <2>7. ASSUME NEW k \in Missions, k # m PROVE MissionInv(k)'
    <3>1. run'[k] = run[k] /\ at'[k] = at[k]
      BY <2>1, <2>2, <2>7 DEF ServerTypeOK
    <3> QED
      BY <2>1, <3>1, LeftAlone
  <2> QED
    BY <2>3, <2>6, <2>7
<1> QED
  BY <1>1, <1>2

LEMMA BeginKeeps ==
  ASSUME ServerInv, NEW m \in Missions, ThreadBegins(m)
  PROVE  ServerInv' /\ status[m] = "created"
<1> USE DEF ServerInv
<1>1. /\ at[m] = "begun" /\ at' = [at EXCEPT ![m] = "working"]
      /\ status' = [status EXCEPT ![m] = "running"]
      /\ events' = (IF page.step = "absent" THEN events
                      ELSE [events EXCEPT ![m] = Append(@, "progress")])
      /\ known' = known /\ run' = run /\ result' = result /\ outcome' = outcome
      /\ todo' = todo /\ closed' = closed /\ sent' = sent
  BY DEF ThreadBegins
<1>2. ServerTypeOK /\ MissionInv(m)
  OBVIOUS
<1>3. events' \in [Missions -> Seq(Words)]
  BY <1>1, <1>2 DEF ServerTypeOK, Words
<1>4. ServerTypeOK'
  BY <1>1, <1>2, <1>3 DEF ServerTypeOK, Stages, Statuses
<1>5. status[m] = "created" /\ Untouched(m) /\ m \in known /\ run[m] \in Runs
      /\ status'[m] = "running" /\ at'[m] = "working"
  BY <1>1, <1>2 DEF MissionInv, ServerTypeOK
<1>6. MissionInv(m)'
  BY <1>1, <1>5 DEF MissionInv, Untouched, Settled
<1>7. ASSUME NEW k \in Missions, k # m PROVE MissionInv(k)'
  <2>1. status'[k] = status[k] /\ at'[k] = at[k]
    BY <1>1, <1>2, <1>7 DEF ServerTypeOK
  <2> QED
    BY <1>1, <2>1, LeftAlone
<1> QED
  BY <1>4, <1>5, <1>6, <1>7

LEMMA WorkKeeps ==
  ASSUME ServerInv, NEW m \in Missions, NEW o \in Outcomes(run[m]), ThreadWorks(m, o)
  PROVE  ServerInv'
<1> USE DEF ServerInv
<1>1. /\ at[m] = "working" /\ at' = [at EXCEPT ![m] = "reporting"]
      /\ outcome' = [outcome EXCEPT ![m] = o]
      /\ todo' = [todo EXCEPT ![m] = Report(run[m], o)]
      /\ \/ sent' = sent \cup {m} /\ (MustSend(run[m], o) \/ MaySend(run[m], o))
         \/ sent' = sent /\ ~MustSend(run[m], o)
      /\ known' = known /\ status' = status /\ result' = result /\ run' = run
      /\ events' = events /\ closed' = closed
  BY DEF ThreadWorks
<1>2. ServerTypeOK /\ MissionInv(m)
  OBVIOUS
<1>3. ServerTypeOK'
  BY <1>1, <1>2 DEF ServerTypeOK, Stages
<1>4. status[m] = "running" /\ Untouched(m) /\ m \in known /\ run[m] \in Runs
  BY <1>1, <1>2 DEF MissionInv
<1>5. at'[m] = "reporting" /\ outcome'[m] = o /\ todo'[m] = Report(run[m], o)
  BY <1>1, <1>2 DEF ServerTypeOK
<1>6. Tells(todo'[m], o) /\ Announces(todo'[m]) /\ StoresFirst(todo'[m])
  BY <1>4, <1>5, ReportTells
<1>7. MustSend(run[m], o) \/ MaySend(run[m], o) => run[m].kind = "simulate" /\ ~run[m].gated
  BY <1>4 DEF MustSend, MaySend, Outcomes, Runs
<1>8. Reporting(m)'
  BY <1>1, <1>4, <1>5, <1>6 DEF Reporting, Untouched, Settled
<1>9. (m \in sent)' => run[m].kind = "simulate" /\ ~run[m].gated
  BY <1>1, <1>4, <1>7 DEF Untouched
<1>10. MissionInv(m)'
  BY <1>1, <1>4, <1>5, <1>8, <1>9 DEF MissionInv, Untouched, Settled
<1>11. ASSUME NEW k \in Missions, k # m PROVE MissionInv(k)'
  <2>1. /\ outcome'[k] = outcome[k] /\ at'[k] = at[k] /\ todo'[k] = todo[k]
        /\ (k \in sent)' <=> k \in sent
    BY <1>1, <1>2, <1>11 DEF ServerTypeOK
  <2> QED
    BY <1>1, <2>1, LeftAlone
<1> QED
  BY <1>3, <1>10, <1>11

LEMMA DeathKeeps ==
  ASSUME ServerInv, NEW m \in Missions, ThreadDies(m)
  PROVE  ServerInv'
<1> USE DEF ServerInv
<1>1. /\ at[m] = "working" \/ (at[m] = "reporting" /\ todo[m] # <<>>)
      /\ at' = [at EXCEPT ![m] = "dead"] /\ todo' = [todo EXCEPT ![m] = <<>>]
      /\ known' = known /\ status' = status /\ result' = result /\ run' = run
      /\ outcome' = outcome /\ events' = events /\ closed' = closed /\ sent' = sent
  BY DEF ThreadDies
<1>2. ServerTypeOK /\ MissionInv(m)
  OBVIOUS
<1>3. ServerTypeOK'
  BY <1>1, <1>2 DEF ServerTypeOK, Stages
<1>4. status[m] \in {"running"} \cup Settled /\ ~closed[m] /\ m \in known
  BY <1>1, <1>2 DEF MissionInv, Untouched
<1>5. at'[m] = "dead"
  BY <1>1, <1>2 DEF ServerTypeOK
<1>6. MissionInv(m)'
  BY <1>1, <1>2, <1>4, <1>5 DEF MissionInv, Earned, Settled
<1>7. ASSUME NEW k \in Missions, k # m PROVE MissionInv(k)'
  <2>1. at'[k] = at[k] /\ todo'[k] = todo[k]
    BY <1>1, <1>2, <1>7 DEF ServerTypeOK
  <2> QED
    BY <1>1, <2>1, LeftAlone
<1> QED
  BY <1>3, <1>6, <1>7

LEMMA RestartKeeps ==
  ASSUME ServerInv, Restart
  PROVE  ServerInv'
<1> USE DEF ServerInv
<1>1. /\ known' = {} /\ at' = [m \in Missions |-> "none"]
      /\ todo' = [m \in Missions |-> <<>>]
      /\ status' = status /\ result' = result /\ run' = run /\ outcome' = outcome
      /\ events' = events /\ closed' = closed /\ sent' = sent
  BY DEF Restart
<1>2. ServerTypeOK'
  BY <1>1 DEF ServerTypeOK, Stages
<1>3. ASSUME NEW m \in Missions PROVE MissionInv(m)'
  BY <1>1 DEF MissionInv, Untouched, Earned
<1> QED
  BY <1>2, <1>3

\* The next line of a report, and what is left of it.
LEMMA NextLine ==
  ASSUME NEW t, NEW o, Tells(t, o), t # <<>>, NEW u, u = Tail(t), NEW h, h = Head(t)
  PROVE  /\ Tells(u, o) /\ h \in Lines
         /\ h[1] = "status" => Quiet(u) /\ Fits(o, h[2])
         /\ Announces(t) /\ h[1] # "status" => Announces(u)
         /\ StoresFirst(t) => (h[1] # "result" => StoresFirst(u)) /\ h # <<"status", "complete">>
         /\ Quiet(t) => Quiet(u) /\ h[1] \notin {"status", "result"}
         /\ h[1] = "close" => u = <<>>
<1>1. /\ t \in Seq(Lines)
      /\ \A i \in 1..Len(t) : t[i][1] = "status" => Fits(o, t[i][2])
      /\ \A i, j \in 1..Len(t) :
           i < j /\ t[i][1] = "status" => t[j][1] \notin {"status", "result"}
      /\ \A i \in 1..Len(t) : t[i][1] = "close" => i = Len(t)
  BY DEF Tells
<1>2. /\ u \in Seq(Lines) /\ Len(u) \in Nat /\ Len(t) = Len(u) + 1 /\ h = t[1] /\ h \in Lines
      /\ 1 \in 1..Len(t)
      /\ \A i \in 1..Len(u) : i + 1 \in 1..Len(t) /\ 1 < i + 1 /\ u[i] = t[i + 1]
  BY <1>1
<1>3. \A i \in 1..Len(t) : i # 1 => i - 1 \in 1..Len(u) /\ t[i] = u[i - 1]
  <2> SUFFICES ASSUME NEW i \in 1..Len(t), i # 1 PROVE i - 1 \in 1..Len(u) /\ t[i] = u[i - 1]
    OBVIOUS
  <2>1. i - 1 \in 1..Len(u) /\ (i - 1) + 1 = i
    BY <1>2
  <2> QED
    BY <2>1, <1>2
<1>4. Tells(u, o)
  <2>1. \A i \in 1..Len(u) : u[i][1] = "status" => Fits(o, u[i][2])
    BY <1>1, <1>2
  <2>2. ASSUME NEW i \in 1..Len(u), NEW j \in 1..Len(u), i < j, u[i][1] = "status"
        PROVE  u[j][1] \notin {"status", "result"}
    <3>1. i + 1 \in 1..Len(t) /\ j + 1 \in 1..Len(t) /\ i + 1 < j + 1
          /\ u[i] = t[i + 1] /\ u[j] = t[j + 1]
      BY <2>2, <1>2
    <3> QED
      BY <3>1, <2>2, <1>1
  <2>3. \A i \in 1..Len(u) : u[i][1] = "close" => i = Len(u)
    <3> SUFFICES ASSUME NEW i \in 1..Len(u), u[i][1] = "close" PROVE i = Len(u)
      OBVIOUS
    <3>1. i + 1 = Len(t)
      BY <1>1, <1>2
    <3> QED
      BY <3>1, <1>2
  <2> QED
    BY <1>2, <2>1, <2>2, <2>3 DEF Tells
<1>5. h[1] = "status" => Quiet(u) /\ Fits(o, h[2])
  BY <1>1, <1>2 DEF Quiet
<1>6. Announces(t) /\ h[1] # "status" => Announces(u)
  <2> SUFFICES ASSUME NEW i \in 1..Len(t), t[i][1] = "status", h[1] # "status"
               PROVE  Announces(u)
    BY DEF Announces
  <2>1. i # 1
    BY <1>2
  <2> QED
    BY <2>1, <1>3 DEF Announces
<1>7. StoresFirst(t) => h # <<"status", "complete">>
  <2> SUFFICES ASSUME StoresFirst(t), t[1] = <<"status", "complete">> PROVE FALSE
    BY <1>2
  <2>1. \E j \in 1..Len(t) : j < 1
    BY <1>2 DEF StoresFirst
  <2> QED
    BY <2>1
<1>8. StoresFirst(t) /\ h[1] # "result" => StoresFirst(u)
  <2> SUFFICES ASSUME StoresFirst(t), h[1] # "result", NEW i \in 1..Len(u),
                      u[i] = <<"status", "complete">>
               PROVE  \E j \in 1..Len(u) : j < i /\ u[j][1] = "result"
    BY DEF StoresFirst
  <2>1. i + 1 \in 1..Len(t) /\ t[i + 1] = <<"status", "complete">>
    BY <1>2
  <2>2. PICK j \in 1..Len(t) : j < i + 1 /\ t[j][1] = "result"
    BY <2>1 DEF StoresFirst
  <2>3. j # 1
    BY <2>2, <1>2
  <2>4. j - 1 \in 1..Len(u) /\ u[j - 1][1] = "result" /\ j - 1 < i
    BY <2>2, <2>3, <1>3
  <2> QED
    BY <2>4
<1>9. Quiet(t) => Quiet(u) /\ h[1] \notin {"status", "result"}
  BY <1>2 DEF Quiet
<1>10. h[1] = "close" => u = <<>>
  <2> SUFFICES ASSUME h[1] = "close" PROVE u = <<>>
    OBVIOUS
  <2>1. Len(t) = 1
    BY <1>1, <1>2
  <2>2. Len(u) = 0
    BY <2>1, <1>2
  <2> QED
    BY <2>2, <1>2
<1> QED
  BY <1>2, <1>4, <1>5, <1>6, <1>7, <1>8, <1>9, <1>10

LEMMA ReportKeeps ==
  ASSUME ServerInv, NEW m \in Missions, ThreadReports(m)
  PROVE  /\ ServerInv'
         /\ status[m] = "running" \/ status'[m] = status[m]
         /\ ~closed[m]
<1> DEFINE h  == Head(todo[m])
           u  == Tail(todo[m])
<1>1. /\ at[m] = "reporting" /\ todo[m] # <<>>
      /\ status' = IF h[1] = "status" THEN [status EXCEPT ![m] = h[2]] ELSE status
      /\ events' = IF h[1] = "emit" THEN [events EXCEPT ![m] = Append(@, h[2])] ELSE events
      /\ result' = IF h[1] = "result"
                     THEN [result EXCEPT ![m] = Verdict(outcome[m])] ELSE result
      /\ closed' = IF h[1] = "close" THEN [closed EXCEPT ![m] = TRUE] ELSE closed
      /\ todo' = [todo EXCEPT ![m] = u]
      /\ known' = known /\ run' = run /\ at' = at /\ outcome' = outcome /\ sent' = sent
  BY DEF ThreadReports
<1>2. ServerTypeOK /\ MissionInv(m)
  BY DEF ServerInv
<1>3. /\ m \in known /\ status[m] \in {"running"} \cup Settled /\ Reporting(m) /\ run[m] \in Runs
      /\ ~closed[m]
  BY <1>1, <1>2 DEF MissionInv
<1>4. /\ Tells(u, outcome[m]) /\ h \in Lines
      /\ h[1] = "status" => Quiet(u) /\ Fits(outcome[m], h[2])
      /\ Announces(todo[m]) /\ h[1] # "status" => Announces(u)
      /\ StoresFirst(todo[m]) =>
           (h[1] # "result" => StoresFirst(u)) /\ h # <<"status", "complete">>
      /\ Quiet(todo[m]) => Quiet(u) /\ h[1] \notin {"status", "result"}
      /\ h[1] = "close" => u = <<>>
  BY <1>1, <1>3, NextLine DEF Reporting
<1>5. todo'[m] = u
  BY <1>1, <1>2 DEF ServerTypeOK
<1> HIDE DEF h, u
<1>6. h[1] \in {"emit", "status", "result", "close"} /\ h[2] \in Words /\ h = <<h[1], h[2]>>
  BY <1>4 DEF Lines
<1>7. h[1] = "status" => h[2] \in Settled /\ status[m] = "running"
  BY <1>3, <1>4 DEF Fits, Reporting
<1>8. ServerTypeOK'
  <2>1. status' \in [Missions -> Statuses]
    BY <1>1, <1>2, <1>7 DEF ServerTypeOK, Statuses
  <2>2. events' \in [Missions -> Seq(Words)]
    BY <1>1, <1>2, <1>6 DEF ServerTypeOK
  <2> QED
    BY <1>1, <1>2, <2>1, <2>2 DEF ServerTypeOK
<1>9. /\ status'[m] = (IF h[1] = "status" THEN h[2] ELSE status[m])
      /\ result'[m] = (IF h[1] = "result" THEN Verdict(outcome[m]) ELSE result[m])
      /\ closed'[m] = (IF h[1] = "close" THEN TRUE ELSE closed[m])
  BY <1>1, <1>2 DEF ServerTypeOK
<1>10. status'[m] \in {"running"} \cup Settled
  BY <1>3, <1>7, <1>9
<1>11. h[1] = "status" /\ h[2] = "complete" => result[m] = Verdict(outcome[m])
  BY <1>3, <1>4, <1>6, <1>7 DEF Reporting
<1>12. Reporting(m)'
  <2>1. result'[m] \in {NoResult, Verdict(outcome[m])}
    BY <1>3, <1>9 DEF Reporting
  <2>2. status'[m] = "running" =>
          /\ Announces(u) /\ (result'[m] = Verdict(outcome[m]) \/ StoresFirst(u))
    <3> SUFFICES ASSUME status'[m] = "running"
                 PROVE  Announces(u) /\ (result'[m] = Verdict(outcome[m]) \/ StoresFirst(u))
      OBVIOUS
    <3>1. h[1] # "status" /\ status[m] = "running"
      BY <1>7, <1>9 DEF Settled
    <3> QED
      BY <3>1, <1>3, <1>4, <1>9 DEF Reporting
  <2>3. status'[m] \in Settled => Quiet(u)
    BY <1>3, <1>4, <1>9 DEF Reporting
  <2> QED
    BY <1>1, <1>3, <1>4, <1>5, <2>1, <2>2, <2>3 DEF Reporting
<1>13. status'[m] = "complete" => Earned(m)'
  <2> SUFFICES ASSUME status'[m] = "complete" PROVE Earned(m)'
    OBVIOUS
  <2>1. CASE h[1] = "status"
    <3>1. h[2] = "complete" /\ result'[m] = result[m] /\ outcome[m] \in {"complete", "opened"}
      BY <2>1, <1>4, <1>9 DEF Fits
    <3>2. run[m].kind = "simulate" => m \in sent
      <4> SUFFICES ASSUME run[m].kind = "simulate" PROVE m \in sent
        OBVIOUS
      <4>1. outcome[m] \in Outcomes(run[m]) /\ (MustSend(run[m], outcome[m]) => m \in sent)
        BY <1>3 DEF Reporting
      <4>2. outcome[m] = "complete"
        BY <4>1, <3>1 DEF Outcomes
      <4> QED
        BY <4>1, <4>2 DEF MustSend
    <3> QED
      BY <3>1, <3>2, <1>1, <1>11, <2>1 DEF Earned
  <2>2. CASE h[1] # "status"
    <3>1. Earned(m)
      BY <2>2, <1>2, <1>9 DEF MissionInv
    <3>2. result'[m] = Verdict(outcome[m])
      BY <3>1, <1>9 DEF Earned
    <3> QED
      BY <3>1, <3>2, <1>1 DEF Earned
  <2> QED
    BY <2>1, <2>2
<1>14. status'[m] = "awaiting_approval" => run[m].gated
  <2>1. CASE h[1] = "status"
    <3>1. h[2] = "awaiting_approval" => outcome[m] = "awaiting_approval"
      BY <2>1, <1>4 DEF Fits
    <3>2. outcome[m] \in Outcomes(run[m])
      BY <1>3 DEF Reporting
    <3>3. outcome[m] = "awaiting_approval" => run[m].gated
      BY <3>2, <1>3 DEF Outcomes, Runs, Kinds
    <3> QED
      BY <3>1, <3>3, <1>9, <2>1
  <2>2. CASE h[1] # "status"
    BY <2>2, <1>2, <1>9 DEF MissionInv
  <2> QED
    BY <2>1, <2>2
<1>15. MissionInv(m)'
  <2>1. closed'[m] => todo'[m] = <<>>
    BY <1>3, <1>4, <1>5, <1>9
  <2> QED
    BY <1>1, <1>2, <1>3, <1>10, <1>12, <1>13, <1>14, <2>1 DEF MissionInv, Settled
<1>16. ASSUME NEW k \in Missions, k # m PROVE MissionInv(k)'
  <2>1. /\ status'[k] = status[k] /\ result'[k] = result[k] /\ closed'[k] = closed[k]
        /\ todo'[k] = todo[k]
    BY <1>1, <1>2, <1>16 DEF ServerTypeOK
  <2> QED
    BY <1>1, <2>1, LeftAlone DEF ServerInv
<1> QED
  BY <1>3, <1>7, <1>8, <1>9, <1>15, <1>16 DEF ServerInv

\* A step of a mission's thread, its death included.
ThreadMoves(m) == ThreadStep(m) \/ ThreadDies(m)

\* What a step of the whole does to the missions.
Effect ==
  \/ UNCHANGED missionVars
  \/ \E m \in Missions : Create(m)
  \/ \E m : \E r \in Runs : (m \in known => at[m] = "none") /\ Start(m, r)
  \/ \E m \in Missions : ThreadMoves(m)
  \/ Restart

LEMMA EffectKeeps ==
  ASSUME ServerInv, Effect
  PROVE  /\ ServerInv'
         /\ \A m \in Missions : status[m] = "complete" => status'[m] = "complete"
<1>1. CASE UNCHANGED missionVars
  <2>1. ServerTypeOK'
    BY <1>1 DEF missionVars, ServerInv, ServerTypeOK
  <2>2. \A k \in Missions : MissionInv(k)'
    BY <1>1, LeftAlone DEF missionVars, ServerInv
  <2> QED
    BY <1>1, <2>1, <2>2 DEF missionVars, ServerInv
<1>2. ASSUME NEW m \in Missions, Create(m)
      PROVE  /\ ServerInv'
             /\ \A k \in Missions : status[k] = "complete" => status'[k] = "complete"
  <2>1. ServerInv'
    BY <1>2, CreateKeeps
  <2>2. status' = [status EXCEPT ![m] = "created"] /\ status[m] = "none"
    BY <1>2 DEF Create
  <2> QED
    BY <2>1, <2>2 DEF ServerInv, ServerTypeOK
<1>3. ASSUME NEW m, NEW r \in Runs, m \in known => at[m] = "none", Start(m, r)
      PROVE  /\ ServerInv'
             /\ \A k \in Missions : status[k] = "complete" => status'[k] = "complete"
  <2>1. ServerInv'
    BY <1>3, StartKeeps
  <2> QED
    BY <2>1, <1>3 DEF Start
<1>4. ASSUME NEW m \in Missions, ThreadMoves(m)
      PROVE  /\ ServerInv'
             /\ \A k \in Missions : status[k] = "complete" => status'[k] = "complete"
  <2>1. CASE ThreadBegins(m)
    <3>1. ServerInv' /\ status[m] = "created"
      BY <2>1, BeginKeeps
    <3>2. status' = [status EXCEPT ![m] = "running"]
      BY <2>1 DEF ThreadBegins
    <3> QED
      BY <3>1, <3>2 DEF ServerInv, ServerTypeOK
  <2>2. CASE ThreadReports(m)
    <3>1. ServerInv' /\ (status[m] = "running" \/ status'[m] = status[m])
      BY <2>2, ReportKeeps
    <3>2. \A k \in Missions : k # m => status'[k] = status[k]
      BY <2>2 DEF ThreadReports, ServerInv, ServerTypeOK
    <3> QED
      BY <3>1, <3>2
  <2>3. ASSUME NEW o \in Outcomes(run[m]), ThreadWorks(m, o)
        PROVE  /\ ServerInv'
               /\ \A k \in Missions : status[k] = "complete" => status'[k] = "complete"
    BY <2>3, WorkKeeps DEF ThreadWorks
  <2>4. CASE ThreadDies(m)
    BY <2>4, DeathKeeps DEF ThreadDies
  <2> QED
    BY <1>4, <2>1, <2>2, <2>3, <2>4 DEF ThreadMoves, ThreadStep
<1>5. CASE Restart
  BY <1>5, RestartKeeps DEF Restart
<1> QED
  BY <1>1, <1>2, <1>3, <1>4, <1>5 DEF Effect

\* The page is alone with the server, or the control plane is.
LEMMA OneClient ==
  ASSUME Inv
  PROVE  /\ work.at # "idle" \/ queue # <<>> \/ row.pending > 0 => page.step = "absent"
         /\ row.status # "QUEUED" => page.step = "absent"
BY DEF Inv, BridgeTypeOK

\* What a job asks of its mission is a run the server knows.
LEMMA RequestIsRun == goal \in Runs => Request \in Runs
<1> SUFFICES ASSUME goal \in Runs PROVE Request \in Runs
  OBVIOUS
<1>1. goal.kind \in Kinds /\ goal.gated \in BOOLEAN
  BY DEF Runs
<1>2. ApprovalGate \in BOOLEAN
  BY DEF ApprovalGate
<1>3. (IF goal.kind = "real" THEN "simulate" ELSE goal.kind) \in Kinds
  BY <1>1 DEF Kinds
<1>4. PlanRequest \in Runs
  BY <1>1, <1>2, Zenon DEF PlanRequest, Runs
<1>5. CompletingRequest \in Runs
  BY <1>3, Zenon DEF CompletingRequest, Runs
<1> QED BY <1>4, <1>5 DEF Request

LEMMA EffectOfNext ==
  ASSUME Inv, [Next]_vars
  PROVE  Effect
<1>1. CASE UNCHANGED vars
  BY <1>1 DEF vars, serverVars, Effect
<1>2. CASE ServerNext
  <2>1. ASSUME NEW m \in Missions, ThreadMoves(m) PROVE Effect
    BY <2>1 DEF Effect
  <2>2. CASE StreamStep \/ StreamExpires \/ PageReadsRecord \/ PageReadsArtifacts
    BY <2>2 DEF StreamStep, StreamDelivers, StreamChecksClosed, StreamChecksDrained,
       StreamExpires, PageReadsRecord, PageReadsArtifacts, PageTurns, Effect
  <2>3. ASSUME NEW m \in Missions, PageCreates(m) PROVE Effect
    BY <2>3 DEF PageCreates, Effect
  <2>4. ASSUME NEW kind \in Kinds, PageStarts(kind) PROVE Effect
    <3>1. [kind |-> kind, gated |-> FALSE] \in Runs
      BY DEF Runs
    <3>2. at[page.mission] = "none"
      BY <2>4 DEF PageStarts, Inv, PageInv
    <3> QED
      BY <2>4, <3>1, <3>2 DEF PageStarts, Effect
  <2> QED
    BY <1>2, <2>1, <2>2, <2>3, <2>4 DEF ServerNext, ThreadMoves, PageStep
<1>3. CASE Restart
  BY <1>3 DEF Effect
<1>4. work.at = "start" => Request \in Runs
  BY OneClient, RequestIsRun DEF Inv, BridgeTypeOK
<1>5. work.at = "start" => at[work.mission] = "none"
  BY DEF Inv, WorkInv
<1>6. CASE WorkerStep
  <2>1. CASE StartMission
    BY <2>1, <1>4, <1>5 DEF StartMission, Effect
  <2>2. ASSUME NEW m \in Missions, CreateMission(m) PROVE Effect
    BY <2>2 DEF CreateMission, Effect
  <2>3. CASE TakeJob \/ DeriveSteps \/ PollStatus \/ PollResult \/ TimeOut \/ Reconcile \/ Commit
    BY <2>3, Zenon DEF TakeJob, DeriveSteps, PollStatus, PollResult, TimeOut, Reconcile, Commit,
       UnchangedServer, serverVars, Effect
  <2> QED
    BY <1>6, <2>1, <2>2, <2>3 DEF WorkerStep
<1>7. CASE CallFails
  BY <1>7, <1>4, <1>5 DEF CallFails, Effect
<1>8. CASE UserStep \/ Crash \/ Redeliver
  BY <1>8, Zenon DEF UserStep, Approve, Reject, Pause, Resume, Cancel, UserRequest, Crash, Redeliver,
     UnchangedServer, serverVars, Effect
<1> QED
  BY <1>1, <1>2, <1>3, <1>6, <1>7, <1>8 DEF Next

-----------------------------------------------------------------------------
(* The page keeps its invariant                                            *)

\* Steps of the control plane: either there is no page or nothing of it moves.
LEMMA PageLeftAlone ==
  ASSUME PageInv, page' = page, page.step = "absent" \/ UNCHANGED missionVars
  PROVE  PageInv'
<1>1. CASE page.step = "absent"
  BY <1>1 DEF PageInv, Following
<1>2. CASE UNCHANGED missionVars
  BY <1>2 DEF PageInv, missionVars
<1> QED
  BY <1>1, <1>2

\* A mission whose bus is closed has settled, and its thread says no more.
LEMMA ClosedIsOver ==
  ASSUME ServerInv, NEW m \in known, closed[m]
  PROVE  status[m] \in Settled /\ ~ThreadMoves(m)
<1>1. m \in Missions /\ MissionInv(m)
  BY DEF ServerInv, ServerTypeOK
<1>2. at[m] = "reporting" /\ todo[m] = <<>> /\ Reporting(m)
      /\ status[m] \in {"running"} \cup Settled
  BY <1>1 DEF MissionInv
<1>3. status[m] # "running"
  <2> SUFFICES ASSUME status[m] = "running" PROVE FALSE
    OBVIOUS
  <2>1. Announces(<<>>)
    BY <1>2 DEF Reporting
  <2> QED
    BY <2>1 DEF Announces
<1>4. ~ThreadMoves(m)
  BY <1>2 DEF ThreadMoves, ThreadStep, ThreadBegins, ThreadWorks, ThreadReports, ThreadDies
<1> QED
  BY <1>2, <1>3, <1>4

LEMMA ThreadKeepsPage ==
  ASSUME ServerInv, PageInv, NEW m \in Missions, ThreadMoves(m)
  PROVE  PageInv'
<1>1. /\ page' = page /\ known' = known
      /\ m \in known /\ at[m] # "none"
      /\ \A k \in Missions : k # m => at'[k] = at[k]
      /\ \A k \in Missions : closed[k] => closed'[k]
      /\ \A k \in Missions : k # m => events'[k] = events[k]
      /\ Len(events'[m]) \in Nat /\ Len(events[m]) <= Len(events'[m])
  <2>1. at[m] # "none" /\ page' = page /\ known' = known
    BY DEF ThreadMoves, ThreadStep, ThreadBegins, ThreadWorks, ThreadReports, ThreadDies
  <2>2. m \in known
    BY <2>1 DEF ServerInv, MissionInv
  <2>3. /\ \A k \in Missions : k # m => at'[k] = at[k]
        /\ \A k \in Missions : closed[k] => closed'[k]
    BY DEF ThreadMoves, ThreadStep, ThreadBegins, ThreadWorks, ThreadReports, ThreadDies, ServerInv, ServerTypeOK
  <2>4. \/ events' = events
        \/ \E e : events' = [events EXCEPT ![m] = Append(@, e)]
    BY DEF ThreadMoves, ThreadStep, ThreadBegins, ThreadWorks, ThreadReports, ThreadDies
  <2>5. events \in [Missions -> Seq(Words)]
    BY DEF ServerInv, ServerTypeOK
  <2>6. CASE events' = events
    BY <2>1, <2>2, <2>3, <2>5, <2>6
  <2>7. ASSUME NEW e, events' = [events EXCEPT ![m] = Append(@, e)]
        PROVE  /\ \A k \in Missions : k # m => events'[k] = events[k]
               /\ Len(events'[m]) \in Nat /\ Len(events[m]) <= Len(events'[m])
    <3>1. events'[m] = Append(events[m], e) /\ events[m] \in Seq(Words)
      BY <2>5, <2>7
    <3>2. Len(events'[m]) = Len(events[m]) + 1 /\ Len(events[m]) \in Nat
      BY <3>1
    <3> QED
      BY <2>5, <2>7, <3>2
  <2> QED
    BY <2>1, <2>2, <2>3, <2>4, <2>6, <2>7
<1>2. page.step \in {"created"} \cup Following => page.mission \in Missions
  BY DEF PageInv, ServerInv, ServerTypeOK
<1>3. page.step \in {"drained?", "ended", "settled", "done"} => page.mission # m
  BY ClosedIsOver DEF PageInv, Following
<1>4. page.step \in {"created"} \cup Following =>
        /\ page.shown \in 0..Len(events'[page.mission])
        /\ page.after \in 0..page.shown
  <2> SUFFICES ASSUME page.step \in {"created"} \cup Following
               PROVE  /\ page.shown \in 0..Len(events'[page.mission])
                      /\ page.after \in 0..page.shown
    OBVIOUS
  <2>1. page.shown \in 0..Len(events[page.mission]) /\ page.after \in 0..page.shown
    BY DEF PageInv
  <2>2. CASE page.mission = m
    <3>1. Len(events[m]) \in Nat
      BY DEF ServerInv, ServerTypeOK
    <3> QED
      BY <1>1, <2>1, <2>2, <3>1
  <2>3. CASE page.mission # m
    BY <1>1, <1>2, <2>1, <2>3
  <2> QED
    BY <2>2, <2>3
<1>5. page.step = "created" => at'[page.mission] = "none"
  BY <1>1, <1>2 DEF PageInv
<1>6. page.step \in {"drained?", "ended", "settled", "done"} =>
        closed'[page.mission] /\ events'[page.mission] = events[page.mission]
  BY <1>1, <1>2, <1>3 DEF PageInv, Following
<1> QED
  BY <1>1, <1>4, <1>5, <1>6 DEF PageInv, Following

LEMMA StreamKeepsPage ==
  ASSUME ServerInv, PageInv, UNCHANGED missionVars,
         \/ StreamStep \/ StreamExpires \/ PageReadsRecord \/ PageReadsArtifacts
  PROVE  PageInv'
<1>1. /\ known' = known /\ at' = at /\ closed' = closed /\ events' = events /\ status' = status
  BY DEF missionVars
<1>2. page.step \in Following => page.mission \in known /\ page.mission \in Missions
  BY DEF PageInv, ServerInv, ServerTypeOK
<1>3. page.step \in Following => Len(events[page.mission]) \in Nat
  BY <1>2 DEF ServerInv, ServerTypeOK
<1>4. page.step \in Following =>
        /\ page.shown \in 0..Len(events[page.mission])
        /\ page.after \in 0..page.shown
  BY DEF PageInv
<1>5. CASE StreamDelivers
  <2> DEFINE n == Len(events[page.mission])
  <2>1. /\ page.step = "deliver"
        /\ page' = [page EXCEPT !.step = "closed?", !.after = n,
                                !.shown = IF n > @ THEN n ELSE @]
    BY <1>5 DEF StreamDelivers
  <2>2. page.step \in Following /\ n \in Nat
    BY <2>1, <1>3 DEF Following
  <2>3. /\ page'.step = "closed?" /\ page'.mission = page.mission /\ page'.after = n
        /\ page'.shown = n /\ DOMAIN page' = DOMAIN page
    BY <2>1, <2>2, <1>4 DEF PageInv
  <2> HIDE DEF n
  <2>4. page'.shown \in 0..n /\ page'.after \in 0..page'.shown
    BY <2>2, <2>3
  <2> QED
    BY <1>1, <1>2, <2>2, <2>3, <2>4 DEF PageInv, Following, n
<1>6. CASE StreamChecksClosed
  <2>1. /\ page.step = "closed?"
        /\ page' = [page EXCEPT !.step = IF closed[page.mission] THEN "drained?" ELSE "deliver"]
    BY <1>6 DEF StreamChecksClosed, PageTurns
  <2> QED
    BY <1>1, <2>1 DEF PageInv, Following
<1>7. CASE StreamChecksDrained
  <2>1. /\ page.step = "drained?"
        /\ page' = [page EXCEPT !.step = IF NothingNew THEN "ended" ELSE "deliver"]
    BY <1>7 DEF StreamChecksDrained, PageTurns
  <2>2. NothingNew => page.shown = Len(events[page.mission])
    BY <2>1, <1>3, <1>4 DEF NothingNew, Following
  <2> QED
    BY <1>1, <2>1, <2>2 DEF PageInv, Following
<1>8. CASE StreamExpires
  <2>1. /\ page.step = "deliver"
        /\ page' = [page EXCEPT !.after = 0, !.reconnects = @ + 1]
    BY <1>8 DEF StreamExpires
  <2>2. 0 \in 0..page.shown
    BY <2>1, <1>3, <1>4 DEF Following
  <2> QED
    BY <1>1, <2>1, <2>2 DEF PageInv, Following
<1>9. CASE PageReadsRecord
  <2>1. /\ page.step = "ended"
        /\ page' = [page EXCEPT !.step = "settled", !.status = StatusOf(page.mission)]
    BY <1>9 DEF PageReadsRecord
  <2>2. page.mission \in known /\ closed[page.mission]
    BY <2>1 DEF PageInv, Following
  <2>3. StatusOf(page.mission) \in Settled
    BY <2>2, ClosedIsOver DEF StatusOf
  <2> QED
    BY <1>1, <2>1, <2>3 DEF PageInv, Following
<1>10. CASE PageReadsArtifacts
  <2>1. /\ page.step = "settled"
        /\ page' = [page EXCEPT !.step = "done", !.artifact = HasArtifact(page.mission)]
    BY <1>10 DEF PageReadsArtifacts
  <2>2. HasArtifact(page.mission) <=> "artifact" \in ToSet(events[page.mission])
    BY <2>1 DEF HasArtifact, PageInv, Following
  <2>3. /\ page'.step = "done" /\ page'.artifact = HasArtifact(page.mission)
        /\ page'.mission = page.mission /\ page'.status = page.status
        /\ page'.shown = page.shown /\ page'.after = page.after /\ DOMAIN page' = DOMAIN page
    BY <2>1 DEF PageInv
  <2> QED
    BY <1>1, <2>1, <2>2, <2>3 DEF PageInv, Following
<1> QED
  BY <1>5, <1>6, <1>7, <1>8, <1>9, <1>10 DEF StreamStep

LEMMA PageInvInductive ==
  ASSUME Inv, [Next]_vars
  PROVE  PageInv'
<1> USE DEF Inv
<1>1. CASE UNCHANGED vars
  BY <1>1, PageLeftAlone DEF vars, serverVars
<1>2. CASE ServerNext
  <2>1. ASSUME NEW m \in Missions, ThreadMoves(m) PROVE PageInv'
    BY <2>1, ThreadKeepsPage
  <2>2. CASE StreamStep \/ StreamExpires \/ PageReadsRecord \/ PageReadsArtifacts
    <3>1. UNCHANGED missionVars
      BY <2>2 DEF StreamStep, StreamDelivers, StreamChecksClosed, StreamChecksDrained,
         StreamExpires, PageReadsRecord, PageReadsArtifacts, PageTurns
    <3> QED
      BY <2>2, <3>1, StreamKeepsPage
  <2>3. ASSUME NEW m \in Missions, PageCreates(m) PROVE PageInv'
    <3>1. /\ page.step = "idle" /\ page' = [page EXCEPT !.step = "created", !.mission = m]
          /\ Create(m)
      BY <2>3 DEF PageCreates
    <3>2. at[m] = "none" /\ known' = known \cup {m} /\ at' = at /\ events' = events
      BY <3>1, CreateKeeps DEF Create
    <3>3. Len(events[m]) \in Nat
      BY DEF ServerInv, ServerTypeOK
    <3>4. page.shown = 0 /\ page.after = 0
      BY <3>1 DEF PageInv
    <3> QED
      BY <3>1, <3>2, <3>3, <3>4 DEF PageInv, Following
  <2>4. ASSUME NEW kind \in Kinds, PageStarts(kind) PROVE PageInv'
    <3>1. /\ page.step = "created" /\ page' = [page EXCEPT !.step = "deliver"]
          /\ known' = known /\ events' = events /\ closed' = closed
      BY <2>4 DEF PageStarts, Start
    <3> QED
      BY <3>1 DEF PageInv, Following
  <2> QED
    BY <1>2, <2>1, <2>2, <2>3, <2>4 DEF ServerNext, ThreadMoves, PageStep
<1>3. CASE Restart
  <2>1. page' = IF page.step = "absent" THEN page ELSE [page EXCEPT !.step = "broken"]
    BY <1>3 DEF Restart
  <2>2. CASE page.step = "absent"
    BY <2>1, <2>2, PageLeftAlone
  <2>3. CASE page.step # "absent"
    BY <2>1, <2>3 DEF PageInv, Following
  <2> QED
    BY <2>2, <2>3
<1>4. CASE WorkerStep \/ CallFails
  <2>1. page' = page
    BY <1>4, Zenon DEF WorkerStep, CallFails, TakeJob, StartMission, DeriveSteps, PollStatus, PollResult,
       TimeOut, Reconcile, Commit, CreateMission, UnchangedServer, serverVars
  <2>2. work.at # "idle" \/ queue # <<>>
    BY <1>4 DEF WorkerStep, CallFails, TakeJob, StartMission, DeriveSteps, PollStatus, PollResult,
       TimeOut, Reconcile, Commit, CreateMission
  <2> QED
    BY <2>1, <2>2, OneClient, PageLeftAlone
<1>5. CASE UserStep \/ Crash \/ Redeliver
  <2>1. UNCHANGED serverVars
    BY <1>5, Zenon DEF UserStep, Approve, Reject, Pause, Resume, Cancel, UserRequest, Crash,
       Redeliver, UnchangedServer
  <2> QED
    BY <2>1, PageLeftAlone DEF serverVars
<1> QED
  BY <1>1, <1>2, <1>3, <1>4, <1>5 DEF Next

-----------------------------------------------------------------------------
(* The bridge keeps its invariant                                          *)

LEMMA WhoIsThere ==
  ASSUME Inv, [Next]_vars
  PROVE  (page.step = "absent")' <=> page.step = "absent"
<1>1. CASE page' = page
  BY <1>1
<1>2. CASE ServerNext
  BY <1>2 DEF ServerNext, ThreadMoves, ThreadStep, ThreadBegins, ThreadWorks, ThreadReports, ThreadDies, StreamStep,
     StreamDelivers, StreamChecksClosed, StreamChecksDrained, StreamExpires, PageStep,
     PageReadsRecord, PageReadsArtifacts, PageCreates, PageStarts, PageTurns, Inv, PageInv
<1>3. CASE Restart
  BY <1>3 DEF Restart, Inv, PageInv
<1>4. CASE WorkerStep \/ CallFails \/ UserStep \/ Crash \/ Redeliver
  <2>1. page' = page
    BY <1>4, Zenon DEF WorkerStep, CallFails, TakeJob, StartMission, DeriveSteps, PollStatus,
       PollResult, TimeOut, Reconcile, Commit, CreateMission, UserStep, Approve, Reject, Pause,
       Resume, Cancel, UserRequest, Crash, Redeliver, UnchangedServer, serverVars
  <2> QED
    BY <2>1
<1>5. CASE UNCHANGED vars
  BY <1>5 DEF vars, serverVars
<1> QED
  BY <1>1, <1>2, <1>3, <1>4, <1>5 DEF Next

\* What users can do to a status.
LEMMA UserStatus ==
  ASSUME Inv
  PROVE  /\ CanTransition(row.status, "BLOCKED") => row.status = "AWAITING_APPROVAL"
         /\ CanTransition(row.status, "RUNNING") => row.status \in {"AWAITING_APPROVAL", "BLOCKED"}
<1>1. row.status \in {"QUEUED", "AWAITING_APPROVAL", "BLOCKED", "RUNNING", "COMPLETE", "FAILED"}
  BY DEF Inv, WorkInv, Over
<1>2. /\ Allowed["QUEUED"] = {"PLANNING", "CANCELLED"}
      /\ Allowed["BLOCKED"] = {"RUNNING", "CANCELLED", "FAILED"}
      /\ Allowed["RUNNING"] = {"VERIFYING", "RECOVERY", "AWAITING_APPROVAL",
                               "CANCELLED", "FAILED", "COMPLETE"}
      /\ Allowed["COMPLETE"] = {} /\ Allowed["FAILED"] = {}
  BY DEF Allowed, Status
<1> QED
  BY <1>1, <1>2 DEF CanTransition

LEMMA UserKeepsBridge ==
  ASSUME Inv, UserStep
  PROVE  BridgeTypeOK' /\ WorkInv'
<1> USE DEF Inv
<1>1. UNCHANGED <<serverVars, goal, work, bound>> /\ ~RowIsLocked
  BY DEF UserStep, Approve, Reject, Pause, Resume, Cancel, UserRequest, UnchangedServer
<1>2. page' = page /\ goal' = goal /\ work' = work /\ status' = status /\ at' = at /\ run' = run
  BY <1>1 DEF serverVars, missionVars
<1>3. DOMAIN spent' = DOMAIN spent /\ spent'.crashes = spent.crashes
  BY DEF UserStep, Approve, Reject, Pause, Resume, Cancel, UserRequest, Spend, BridgeTypeOK, RowType, WorkType
<1>4. Senders' = Senders
  BY <1>2 DEF Senders
<1>5. work.at # "idle" => work.job = "resume" /\ row.status = "RUNNING"
  BY <1>1 DEF RowIsLocked, WorkInv
<1>6. CASE Approve
  <2>1. /\ row' = [Decided(row, "RUNNING") EXCEPT !.pending = @ - 1, !.granted = TRUE]
        /\ row.pending > 0
    BY <1>6 DEF Approve, UserRequest
  <2>2. DOMAIN Decided(row, "RUNNING") = DOMAIN row
    BY DEF Decided
  <2>3. /\ row'.granted = TRUE /\ DOMAIN row' = DOMAIN row
        /\ row'.status = IF row.status = "AWAITING_APPROVAL" THEN "RUNNING" ELSE row.status
    BY <2>1, <2>2 DEF Decided, BridgeTypeOK, RowType, WorkType
  <2>4. page.step = "absent"
    BY <2>1, OneClient
  <2>5. BridgeTypeOK'
    BY <1>2, <1>3, <2>3, <2>4 DEF BridgeTypeOK, RowType, WorkType
  <2>6. WorkInv'
    BY <1>2, <1>4, <1>5, <2>3 DEF WorkInv, Over
  <2> QED
    BY <2>5, <2>6
<1>7. CASE Reject
  <2>1. /\ row' = [Decided(row, "BLOCKED") EXCEPT !.pending = @ - 1]
        /\ row.pending > 0
    BY <1>7 DEF Reject, UserRequest
  <2>2. DOMAIN Decided(row, "BLOCKED") = DOMAIN row
    BY DEF Decided
  <2>3. /\ row'.granted = row.granted /\ DOMAIN row' = DOMAIN row
        /\ row'.status = IF row.status = "AWAITING_APPROVAL" THEN "BLOCKED" ELSE row.status
    BY <2>1, <2>2 DEF Decided, BridgeTypeOK, RowType, WorkType
  <2>4. page.step = "absent"
    BY <2>1, OneClient
  <2>5. BridgeTypeOK'
    BY <1>2, <1>3, <2>3, <2>4 DEF BridgeTypeOK, RowType, WorkType
  <2>6. WorkInv'
    BY <1>2, <1>4, <1>5, <2>3 DEF WorkInv, Over
  <2> QED
    BY <2>5, <2>6
<1>8. CASE Pause \/ Resume
  <2>1. /\ row.status \in {"AWAITING_APPROVAL", "BLOCKED"}
        /\ \/ row' = [row EXCEPT !.status = "BLOCKED"]
           \/ row' = [row EXCEPT !.status = "RUNNING"]
    BY <1>8, UserStatus DEF Pause, Resume, UserRequest
  <2>2. /\ row'.granted = row.granted /\ DOMAIN row' = DOMAIN row
        /\ row'.status \in {"BLOCKED", "RUNNING"}
    BY <2>1 DEF BridgeTypeOK, RowType, WorkType
  <2>3. page.step = "absent" /\ work.at = "idle"
    BY <2>1, <1>5, OneClient
  <2>4. BridgeTypeOK'
    BY <1>2, <1>3, <2>2, <2>3 DEF BridgeTypeOK, RowType, WorkType
  <2>5. WorkInv'
    BY <1>2, <2>2, <2>3 DEF WorkInv, Over, Watching
  <2> QED
    BY <2>4, <2>5
<1>9. CASE Cancel
  <2>1. row' = [row EXCEPT !.cancel = TRUE] /\ queue' = queue \o <<>>
    BY <1>9 DEF Cancel, UserRequest
  <2>2. /\ row'.granted = row.granted /\ DOMAIN row' = DOMAIN row
        /\ row'.status = row.status /\ row'.pending = row.pending
    BY <2>1 DEF BridgeTypeOK, RowType, WorkType
  <2>3. queue = <<>> => queue' = <<>>
    BY <2>1
  <2>4. BridgeTypeOK'
    BY <1>2, <1>3, <2>2, <2>3 DEF BridgeTypeOK, RowType, WorkType
  <2>5. WorkInv'
    BY <1>2, <1>4, <2>2 DEF WorkInv
  <2> QED
    BY <2>4, <2>5
<1> QED
  BY <1>6, <1>7, <1>8, <1>9 DEF UserStep

\* The server's own steps and the queue's leave the bridge's variables.
LEMMA OthersKeepBridge ==
  ASSUME Inv, [Next]_vars, UNCHANGED <<goal, row, work>>,
         DOMAIN spent' = DOMAIN spent, spent'.crashes = spent.crashes,
         queue = <<>> => queue' = <<>>,
         ServerNext \/ Restart \/ UNCHANGED serverVars
  PROVE  BridgeTypeOK' /\ WorkInv'
<1> USE DEF Inv
<1>1. goal' = goal /\ row' = row /\ work' = work
  OBVIOUS
<1>2. BridgeTypeOK'
  BY <1>1, WhoIsThere DEF BridgeTypeOK, RowType, WorkType
<1>3. \A m \in Missions : status[m] = "complete" => status'[m] = "complete"
  BY EffectOfNext, EffectKeeps
<1>4. CASE work.at = "idle"
  BY <1>1, <1>2, <1>3, <1>4 DEF WorkInv, Watching
<1>5. CASE work.at # "idle"
  <2>1. page.step = "absent"
    BY <1>5, OneClient
  <2>2. \/ \E m \in Missions : ThreadMoves(m)
        \/ Restart
        \/ UNCHANGED missionVars
    BY <2>1 DEF ServerNext, ThreadMoves, PageStep, PageCreates, PageStarts, PageReadsRecord, PageReadsArtifacts,
       StreamStep, StreamExpires, StreamDelivers, StreamChecksClosed, StreamChecksDrained, serverVars
  <2>3. run' = run
    BY <2>2 DEF ThreadMoves, ThreadStep, ThreadBegins, ThreadWorks, ThreadReports, ThreadDies, Restart, missionVars
  <2>4. Senders' = Senders
    BY <2>3 DEF Senders
  <2>5. ASSUME work.at = "start"
        PROVE  status'[work.mission] # "none" /\ at'[work.mission] = "none"
    <3>1. work.mission \in Missions /\ status[work.mission] # "none" /\ at[work.mission] = "none"
      BY <2>5 DEF WorkInv
    <3>2. ASSUME NEW m \in Missions, ThreadMoves(m)
          PROVE  status'[work.mission] # "none" /\ at'[work.mission] = "none"
      <4>1. m # work.mission
        BY <3>1, <3>2 DEF ThreadMoves, ThreadStep, ThreadBegins, ThreadWorks, ThreadReports, ThreadDies
      <4>2. /\ status'[work.mission] = status[work.mission]
            /\ at'[work.mission] = at[work.mission]
        BY <3>1, <3>2, <4>1 DEF ThreadMoves, ThreadStep, ThreadBegins, ThreadWorks, ThreadReports, ThreadDies,
           ServerInv, ServerTypeOK
      <4> QED
        BY <3>1, <4>2
    <3> QED
      BY <2>2, <3>1, <3>2 DEF Restart, missionVars
  <2> QED
    BY <1>1, <1>2, <1>3, <2>4, <2>5 DEF WorkInv
<1> QED
  BY <1>2, <1>4, <1>5

\* The job a worker takes.
LEMMA JobTaken ==
  ASSUME Inv, NEW kind, NEW w, w = Begun(kind)
  PROVE  /\ WorkType(w) /\ w.at \in {"idle", "create", "poll"}
         /\ w.at # "idle" => \/ w.job = "plan" /\ row.status = "QUEUED"
                             \/ w.job = "resume" /\ row.status = "RUNNING"
         /\ w.at = "create" /\ w.job = "resume" => row.granted
<1> DEFINE mine == [NoWork EXCEPT !.job = kind, !.row = row]
<1>1. RowType(row) /\ (row.status \in Advanceable => row.status = "RUNNING")
  BY DEF Inv, BridgeTypeOK, WorkInv, Advanceable, Over
<1>2. WorkType(NoWork) /\ NoWork.at = "idle"
  BY DEF WorkType, NoWork, RowType, NewRow
<1>3. WorkType(mine) /\ mine.job = kind
  <2>1. DOMAIN mine = DOMAIN NoWork /\ mine.row = row /\ mine.job = kind
    BY DEF NoWork
  <2> QED
    BY <2>1, <1>1, <1>2 DEF WorkType
<1> HIDE DEF mine
<1>4. CASE kind = "plan" /\ PlansOnly(row)
  <2>1. w = [mine EXCEPT !.at = "create"]
    BY <1>4 DEF Begun, BindMission, mine
  <2>2. w.at = "create" /\ w.job = "plan" /\ w.row = mine.row /\ DOMAIN w = DOMAIN mine
    BY <1>3, <1>4, <2>1 DEF WorkType
  <2>3. row.status = "QUEUED"
    BY <1>4 DEF PlansOnly
  <2> QED
    BY <1>3, <2>2, <2>3 DEF WorkType
<1>5. CASE kind = "resume" /\ row.status \in Advanceable /\ HasGrant(row)
  <2>1. w = [mine EXCEPT !.at = "create"]
    BY <1>5 DEF Begun, BindMission, mine
  <2>2. w.at = "create" /\ w.job = "resume" /\ w.row = mine.row /\ DOMAIN w = DOMAIN mine
    BY <1>3, <1>5, <2>1 DEF WorkType
  <2> QED
    BY <1>1, <1>3, <1>5, <2>2 DEF WorkType, HasGrant
<1>6. CASE kind = "resume" /\ row.status \in Advanceable /\ ~HasGrant(row)
  <2>1. w = [mine EXCEPT !.at = "poll",
                         !.mission = IF bound = NoMission THEN row.mission ELSE bound]
    BY <1>6 DEF Begun, BindMission, mine
  <2>2. w.at = "poll" /\ w.job = "resume" /\ w.row = mine.row /\ DOMAIN w = DOMAIN mine
    BY <1>3, <1>6, <2>1 DEF WorkType
  <2> QED
    BY <1>1, <1>3, <1>6, <2>2 DEF WorkType
<1>7. CASE /\ ~(kind = "plan" /\ PlansOnly(row))
           /\ ~(kind = "resume" /\ row.status \in Advanceable)
  <2>1. w = NoWork
    BY <1>7, Zenon DEF Begun, BindMission
  <2> QED
    BY <1>2, <2>1
<1> QED
  BY <1>4, <1>5, <1>6, <1>7

LEMMA CommitKeepsBridge ==
  ASSUME Inv, Commit
  PROVE  BridgeTypeOK' /\ WorkInv'
<1> USE DEF Inv
<1>1. /\ work.at = "commit"
      /\ row'  = [work.row EXCEPT !.cancel = row.cancel, !.granted = row.granted,
                                  !.pending = row.pending + Raised]
      /\ work' = NoWork /\ UNCHANGED serverVars /\ UNCHANGED <<goal, queue, bound, spent>>
  BY DEF Commit, UnchangedServer
<1>2. /\ status' = status /\ goal' = goal /\ page' = page /\ spent' = spent
  BY <1>1 DEF serverVars, missionVars
<1>3. row'.status = work.row.status /\ RowType(row)'
  BY <1>1 DEF BridgeTypeOK, WorkType, RowType
<1>4. work'.at = "idle" /\ WorkType(work)'
  BY <1>1 DEF NoWork, WorkType, RowType, NewRow
<1>5. page.step = "absent"
  BY <1>1, OneClient
<1>6. BridgeTypeOK'
  BY <1>2, <1>3, <1>4, <1>5 DEF BridgeTypeOK
<1>7. WorkInv'
  BY <1>1, <1>2, <1>3, <1>4 DEF WorkInv, Watching
<1> QED
  BY <1>6, <1>7

LEMMA WorkerKeepsBridge ==
  ASSUME Inv, [Next]_vars, WorkerStep \/ CallFails \/ Crash
  PROVE  BridgeTypeOK' /\ WorkInv'
<1> USE DEF Inv
<1>1. page.step = "absent"
  BY OneClient DEF WorkerStep, CallFails, Crash, TakeJob, StartMission, DeriveSteps, PollStatus,
     PollResult, TimeOut, Reconcile, Commit, CreateMission
<1>2. ServerInv' /\ \A m \in Missions : status[m] = "complete" => status'[m] = "complete"
  BY EffectOfNext, EffectKeeps
<1>3. /\ {"at", "job", "row", "mission", "status", "result"} = DOMAIN work
      /\ RowType(work.row) /\ RowType(row)
  BY DEF BridgeTypeOK, WorkType
<1>4. WorkType(NoWork) /\ NoWork.at = "idle"
  BY DEF WorkType, NoWork, RowType, NewRow
<1>5. row.status = "COMPLETE" => \E m \in Missions : status'[m] = "complete"
  BY <1>2 DEF WorkInv
<1>6. CASE Commit
  BY <1>6, CommitKeepsBridge
<1>7. CASE TakeJob
  <2>1. /\ work' = Begun(Head(queue)) /\ row' = row /\ goal' = goal /\ spent' = spent
        /\ page' = page /\ status' = status
    BY <1>7 DEF TakeJob, UnchangedServer, serverVars, missionVars
  <2>2. /\ WorkType(work') /\ work'.at \in {"idle", "create", "poll"}
        /\ work'.at # "idle" => \/ work'.job = "plan" /\ row.status = "QUEUED"
                                \/ work'.job = "resume" /\ row.status = "RUNNING"
        /\ work'.at = "create" /\ work'.job = "resume" => row.granted
    BY <2>1, JobTaken
  <2>3. BridgeTypeOK'
    BY <1>1, <2>1, <2>2 DEF BridgeTypeOK
  <2>4. WorkInv'
    BY <2>1, <2>2 DEF WorkInv, Watching
  <2> QED
    BY <2>3, <2>4
<1>8. CASE Crash
  <2>1. /\ work' = NoWork /\ row' = row /\ goal' = goal /\ page' = page /\ status' = status
        /\ spent' = [spent EXCEPT !["crashes"] = @ + 1]
    BY <1>8 DEF Crash, Trouble, Spend, UnchangedServer, serverVars, missionVars
  <2>2. BridgeTypeOK'
    BY <1>1, <1>4, <2>1 DEF BridgeTypeOK
  <2>3. WorkInv'
    BY <1>4, <2>1 DEF WorkInv, Watching
  <2> QED
    BY <2>2, <2>3
<1>9. ASSUME NEW m \in Missions, CreateMission(m)
      PROVE  BridgeTypeOK' /\ WorkInv'
  <2>1. /\ work.at = "create" /\ Create(m) /\ work' = [work EXCEPT !.at = "start", !.mission = m]
        /\ row' = row /\ goal' = goal /\ spent' = spent /\ page' = page
    BY <1>9 DEF CreateMission, Working
  <2>2. status'[m] = "created" /\ at'[m] = "none"
    BY <2>1, CreateKeeps DEF Create, ServerTypeOK, ServerInv
  <2>3. /\ work'.at = "start" /\ work'.mission = m /\ work'.job = work.job /\ WorkType(work')
    BY <1>3, <2>1 DEF WorkType
  <2>4. BridgeTypeOK'
    BY <1>1, <2>1, <2>3 DEF BridgeTypeOK
  <2>5. WorkInv'
    BY <1>5, <2>1, <2>2, <2>3 DEF WorkInv, Watching
  <2> QED
    BY <2>4, <2>5
<1>10. CASE StartMission
  <2>1. /\ work.at = "start" /\ row' = row /\ goal' = goal /\ spent' = spent /\ page' = page
        /\ work' = [work EXCEPT !.at = IF work.job = "plan" THEN "derive" ELSE "poll"]
    BY <1>10 DEF StartMission, Working
  <2>2. /\ work'.at \in {"derive", "poll"} /\ work'.job = work.job /\ WorkType(work')
    BY <1>3, <2>1 DEF WorkType
  <2>3. BridgeTypeOK'
    BY <1>1, <2>1, <2>2 DEF BridgeTypeOK
  <2>4. WorkInv'
    BY <1>5, <2>1, <2>2 DEF WorkInv, Watching
  <2> QED
    BY <2>3, <2>4
<1>11. CASE CallFails
  <2>1. /\ work.at \in {"create", "start"} /\ row' = row /\ goal' = goal /\ page' = page
        /\ work' = IF work.job = "plan" THEN Unavailable ELSE ResumeUnavailable
        /\ spent' = [spent EXCEPT !["faults"] = @ + 1]
    BY <1>11 DEF CallFails, Working, Trouble, Spend
  <2>2. /\ work'.at = "commit" /\ work'.job = work.job /\ work'.row.status = "FAILED"
        /\ WorkType(work')
    BY <1>3, <2>1 DEF WorkType, RowType, Unavailable, ResumeUnavailable
  <2>3. DOMAIN spent' = DOMAIN spent /\ spent'.crashes = spent.crashes
    BY <2>1 DEF BridgeTypeOK
  <2>4. BridgeTypeOK'
    BY <1>1, <2>1, <2>2, <2>3 DEF BridgeTypeOK
  <2>5. WorkInv'
    BY <1>5, <2>1, <2>2 DEF WorkInv, Watching, Over
  <2> QED
    BY <2>4, <2>5
<1>12. CASE DeriveSteps
  <2>1. /\ work.at = "derive" /\ row' = row /\ goal' = goal /\ page' = page /\ spent' = spent
        /\ work' = [work EXCEPT !.at = "poll", !.row.status = "RUNNING",
                                !.row.steps = "WAITING", !.row.mission = work.mission]
    BY <1>12 DEF DeriveSteps, Working, UnchangedServer, serverVars
  <2>2. work'.at = "poll" /\ work'.job = work.job /\ WorkType(work')
    BY <1>3, <2>1 DEF WorkType, RowType
  <2>3. BridgeTypeOK'
    BY <1>1, <2>1, <2>2 DEF BridgeTypeOK
  <2>4. WorkInv'
    BY <1>5, <2>1, <2>2 DEF WorkInv, Watching
  <2> QED
    BY <2>3, <2>4
<1>13. CASE PollStatus \/ TimeOut
  <2>1. /\ work.at = "poll" /\ row' = row /\ goal' = goal /\ page' = page /\ spent' = spent
        /\ status' = status /\ run' = run
        /\ work' = [work EXCEPT !.at = "result", !.status = StatusOf(work.mission)]
    BY <1>13 DEF PollStatus, TimeOut, Working, UnchangedServer, serverVars, missionVars
  <2>2. /\ work'.at = "result" /\ work'.job = work.job /\ WorkType(work')
        /\ work'.mission = work.mission /\ work'.status = StatusOf(work.mission)
    BY <1>3, <2>1 DEF WorkType
  <2>3. BridgeTypeOK'
    BY <1>1, <2>1, <2>2 DEF BridgeTypeOK
  <2>4. Senders' = Senders
    BY <2>1 DEF Senders
  <2>5. work'.status = "awaiting_approval" => work.mission \notin Senders
    BY <2>2 DEF StatusOf, Senders, ServerInv, ServerTypeOK, MissionInv
  <2>6. work'.status = "complete" => \E m \in Missions : status'[m] = "complete"
    BY <2>1, <2>2 DEF StatusOf, ServerInv, ServerTypeOK
  <2>7. WorkInv'
    BY <1>5, <2>1, <2>2, <2>4, <2>5, <2>6 DEF WorkInv, Watching
  <2> QED
    BY <2>3, <2>7
<1>14. CASE PollResult
  <2>1. /\ work.at = "result" /\ row' = row /\ goal' = goal /\ page' = page /\ spent' = spent
        /\ status' = status /\ run' = run
        /\ work' = [work EXCEPT !.at = "reconcile", !.result = ResultOf(work.mission)]
    BY <1>14 DEF PollResult, Working, UnchangedServer, serverVars, missionVars
  <2>2. /\ work'.at = "reconcile" /\ work'.job = work.job /\ WorkType(work')
        /\ work'.mission = work.mission /\ work'.status = work.status
    BY <1>3, <2>1 DEF WorkType
  <2>3. BridgeTypeOK'
    BY <1>1, <2>1, <2>2 DEF BridgeTypeOK
  <2>4. Senders' = Senders
    BY <2>1 DEF Senders
  <2>5. WorkInv'
    BY <1>5, <2>1, <2>2, <2>4 DEF WorkInv, Watching
  <2> QED
    BY <2>3, <2>5
<1>15. CASE Reconcile
  <2> DEFINE to == OutcomeOf(work.status, work.result)
  <2>1. /\ work.at = "reconcile" /\ row' = row /\ goal' = goal /\ page' = page /\ spent' = spent
        /\ status' = status
        /\ work' = [work EXCEPT !.at = "commit", !.row = Reconciled(@, to, work.result)]
    BY <1>15 DEF Reconcile, Working, UnchangedServer, serverVars, missionVars
  <2>2. to \in {"AWAITING_APPROVAL", "COMPLETE", "FAILED"}
        /\ (to = "COMPLETE" => work.status = "complete")
    BY DEF OutcomeOf
  <2> HIDE DEF to
  <2>3. /\ Reconciled(work.row, to, work.result).status = to /\ RowType(Reconciled(work.row, to, work.result))
    BY <1>3 DEF Reconciled, Recorded, MarkAllSteps, RowType
  <2>4. /\ work'.at = "commit" /\ work'.job = work.job /\ WorkType(work')
        /\ work'.row.status = to
    BY <1>3, <2>1, <2>3 DEF WorkType
  <2>5. BridgeTypeOK'
    BY <1>1, <2>1, <2>4 DEF BridgeTypeOK
  <2>6. WorkInv'
    BY <1>5, <2>1, <2>2, <2>4 DEF WorkInv, Watching, Over
  <2> QED
    BY <2>5, <2>6
<1> QED
  BY <1>6, <1>7, <1>8, <1>9, <1>10, <1>11, <1>12, <1>13, <1>14, <1>15 DEF WorkerStep

-----------------------------------------------------------------------------
(* Who may send                                                            *)

LEMMA SendersStart ==
  ASSUME ServerInv, NEW m, NEW r \in Runs, Start(m, r)
  PROVE  /\ Senders' \subseteq Senders \cup {m}
         /\ r.kind # "simulate" \/ r.gated => Senders' \subseteq Senders
<1>1. DOMAIN run = Missions
  BY DEF ServerInv, ServerTypeOK
<1>2. run' = run \/ run' = [run EXCEPT ![m] = r]
  BY DEF Start
<1>3. ASSUME NEW k \in Missions, k # m PROVE run'[k] = run[k]
  BY <1>1, <1>2, <1>3
<1>4. m \in Missions => run'[m] = run[m] \/ run'[m] = r
  BY <1>1, <1>2
<1> QED
  BY <1>3, <1>4 DEF Senders

\* Steps after which the same missions may send.
LEMMA SameSenders ==
  ASSUME Inv, [Next]_vars, run' = run, spent'.crashes = spent.crashes,
         row.granted => row'.granted, Used => Used',
         page'.step \in {"idle", "created"} => page.step \in {"idle", "created"},
         page'.mission = page.mission \/ page.step = "idle", goal' = goal
  PROVE  SendersInv'
<1>1. Senders' = Senders
  BY DEF Senders
<1>2. (page.step = "absent")' <=> page.step = "absent"
  BY WhoIsThere
<1>3. SendersInv /\ spent.crashes \in Nat
  BY DEF Inv, BridgeTypeOK
<1>4. IsFiniteSet(Senders) /\ Cardinality(Senders) \in Nat
  BY <1>3, FS_CardinalityType DEF SendersInv
<1>5. page.step = "absent" =>
        Cardinality(Senders) <= spent.crashes + (IF Used' THEN 1 ELSE 0)
  BY <1>3, <1>4 DEF SendersInv
<1>6. page.step # "absent" =>
       Senders \subseteq (IF page'.step \in {"idle", "created"} THEN {} ELSE {page'.mission})
  BY <1>3 DEF SendersInv
<1> QED
  BY <1>1, <1>2, <1>3, <1>5, <1>6 DEF SendersInv

\* The worker lets its mission start, or tries to and hears nothing.
LEMMA OneMoreSender ==
  ASSUME Inv, [Next]_vars, work.at = "start", Start(work.mission, Request),
         work'.mission = work.mission, work'.at \in Watching \/
           (work'.at = "commit" /\ work'.row.status \in Over),
         spent'.crashes = spent.crashes, row' = row, page' = page, goal' = goal
  PROVE  SendersInv'
<1> USE DEF Inv
<1>1. page.step = "absent" /\ goal \in Runs
  BY OneClient DEF BridgeTypeOK
<1>2. ~Used
  BY DEF Used, WorkInv, Over, Watching
<1>3. spent.crashes \in Nat /\ IsFiniteSet(Senders) /\ Cardinality(Senders) \in Nat
      /\ Cardinality(Senders) <= spent.crashes
  BY <1>1, <1>2, FS_CardinalityType DEF SendersInv, BridgeTypeOK
<1>4. /\ work.job \in {"plan", "resume"}
      /\ Request.kind = IF work.job = "resume" /\ goal.kind = "real" THEN "simulate" ELSE goal.kind
      /\ Request.gated = (work.job = "plan" /\ goal.gated /\ goal.kind = "simulate")
  BY DEF Request, PlanRequest, CompletingRequest, ApprovalGate, WorkInv
<1>5. Request \in Runs
  BY <1>1, RequestIsRun
<1>6. /\ Senders' \subseteq Senders \cup {work.mission}
      /\ Request.kind # "simulate" \/ Request.gated => Senders' \subseteq Senders
  BY <1>5, SendersStart
<1>7. goal.gated /\ goal.kind = "simulate" /\ Senders' # {} => row.granted
  <2> SUFFICES ASSUME goal.gated, goal.kind = "simulate", Senders' # {}
               PROVE  row.granted
    OBVIOUS
  <2>1. CASE work.job = "plan"
    BY <2>1, <1>1, <1>4, <1>6 DEF SendersInv
  <2>2. CASE work.job = "resume"
    BY <2>2 DEF WorkInv
  <2> QED
    BY <2>1, <2>2, <1>4
<1>8. /\ IsFiniteSet(Senders \cup {work.mission})
      /\ Cardinality(Senders \cup {work.mission}) <= Cardinality(Senders) + 1
      /\ Cardinality(Senders \cup {work.mission}) \in Nat
  BY <1>3, FS_AddElement, FS_CardinalityType
<1>9. /\ IsFiniteSet(Senders')
      /\ Cardinality(Senders') <= spent.crashes + (IF Used' THEN 1 ELSE 0)
  <2>1. CASE work.mission \in Senders' \/ work'.at = "commit"
    <3>1. Used'
      BY <2>1 DEF Used, Watching
    <3>2. /\ IsFiniteSet(Senders') /\ Cardinality(Senders') \in Nat
          /\ Cardinality(Senders') <= Cardinality(Senders \cup {work.mission})
      BY <1>6, <1>8, FS_Subset, FS_CardinalityType
    <3> QED
      BY <3>1, <3>2, <1>3, <1>8
  <2>2. CASE work.mission \notin Senders'
    <3>1. Senders' \subseteq Senders
      BY <2>2, <1>6
    <3>2. /\ IsFiniteSet(Senders') /\ Cardinality(Senders') \in Nat
          /\ Cardinality(Senders') <= Cardinality(Senders)
      BY <3>1, <1>3, FS_Subset, FS_CardinalityType
    <3> QED
      BY <3>2, <1>3
  <2> QED
    BY <2>1, <2>2
<1> QED
  BY <1>1, <1>7, <1>9 DEF SendersInv

LEMMA SendersInvInductive ==
  ASSUME Inv, [Next]_vars
  PROVE  SendersInv'
<1> USE DEF Inv
<1>1. CASE UNCHANGED vars
  BY <1>1, SameSenders DEF vars, serverVars, missionVars, bridgeVars, Used, Senders
<1>2. CASE (ServerNext \/ Restart) /\ UNCHANGED bridgeVars
  <2>1. UNCHANGED <<goal, row, work, spent>>
    BY <1>2 DEF bridgeVars
  <2>2. run' = run => (Used => Used')
    BY <2>1 DEF Used, Senders
  <2>3. CASE Restart
    <3>1. run' = run /\ page'.mission = page.mission
          /\ (page'.step \in {"idle", "created"} => page.step \in {"idle", "created"})
      BY <2>3 DEF Restart, PageInv
    <3> QED
      BY <2>1, <2>2, <3>1, SameSenders
  <2>4. ASSUME NEW m \in Missions, ThreadMoves(m) PROVE SendersInv'
    <3>1. run' = run /\ page' = page
      BY <2>4 DEF ThreadMoves, ThreadStep, ThreadBegins, ThreadWorks, ThreadReports, ThreadDies
    <3> QED
      BY <2>1, <2>2, <3>1, SameSenders
  <2>5. CASE StreamStep \/ StreamExpires \/ PageReadsRecord \/ PageReadsArtifacts
    <3>1. run' = run /\ page'.mission = page.mission
          /\ (page'.step \in {"idle", "created"} => page.step \in {"idle", "created"})
      BY <2>5 DEF StreamStep, StreamExpires, PageReadsRecord, PageReadsArtifacts, StreamDelivers,
         StreamChecksClosed, StreamChecksDrained, PageTurns, PageInv, missionVars
    <3> QED
      BY <2>1, <2>2, <3>1, SameSenders
  <2>6. ASSUME NEW m \in Missions, PageCreates(m) PROVE SendersInv'
    <3>1. run' = run /\ page.step = "idle"
      BY <2>6 DEF PageCreates, Create
    <3> QED
      BY <2>1, <2>2, <3>1, SameSenders
  <2>7. ASSUME NEW kind \in Kinds, PageStarts(kind) PROVE SendersInv'
    <3>1. /\ page.step = "created" /\ page' = [page EXCEPT !.step = "deliver"]
          /\ Start(page.mission, [kind |-> kind, gated |-> FALSE])
      BY <2>7 DEF PageStarts
    <3>2. [kind |-> kind, gated |-> FALSE] \in Runs
      BY DEF Runs
    <3>3. Senders' \subseteq Senders \cup {page.mission}
      BY <3>1, <3>2, SendersStart
    <3>4. Senders = {}
      BY <3>1 DEF SendersInv
    <3>5. page'.step = "deliver" /\ page'.mission = page.mission
      BY <3>1 DEF PageInv
    <3>6. IsFiniteSet(Senders')
      BY <3>3, <3>4, FS_EmptySet, FS_AddElement, FS_Subset
    <3> QED
      BY <3>3, <3>4, <3>5, <3>6 DEF SendersInv
  <2> QED
    BY <1>2, <2>3, <2>4, <2>5, <2>6, <2>7 DEF ServerNext, ThreadMoves, PageStep
<1>3. CASE UserStep
  <2>1. UNCHANGED <<serverVars, goal, work>> /\ spent'.crashes = spent.crashes /\ ~RowIsLocked
    BY <1>3 DEF UserStep, Approve, Reject, Pause, Resume, Cancel, UserRequest, UnchangedServer,
       Spend, BridgeTypeOK
  <2>2. page' = page /\ run' = run
    BY <2>1 DEF serverVars, missionVars
  <2>3. row.granted => row'.granted
    BY <1>3 DEF UserStep, Approve, Reject, Pause, Resume, Cancel, UserRequest, Decided,
       BridgeTypeOK, RowType
  <2>4. row.status \in {"AWAITING_APPROVAL", "BLOCKED"} \/ row'.status = row.status
    BY <1>3, UserStatus DEF UserStep, Approve, Reject, Pause, Resume, Cancel, UserRequest, Decided,
       BridgeTypeOK, RowType
  <2>5. Used => Used'
    BY <2>1, <2>2, <2>4 DEF Used, Senders, WorkInv, Over, Watching
  <2> QED
    BY <2>1, <2>2, <2>3, <2>5, SameSenders
<1>4. CASE Redeliver
  <2>1. UNCHANGED <<serverVars, goal, work, row>> /\ spent'.crashes = spent.crashes
    BY <1>4 DEF Redeliver, Trouble, Spend, UnchangedServer, BridgeTypeOK
  <2>2. page' = page /\ run' = run
    BY <2>1 DEF serverVars, missionVars
  <2> QED
    BY <2>1, <2>2, SameSenders DEF Used, Senders
<1>5. CASE Crash
  <2>1. /\ UNCHANGED <<serverVars, goal, row>> /\ spent'.crashes = spent.crashes + 1
        /\ spent.crashes \in Nat
    BY <1>5 DEF Crash, Trouble, Spend, UnchangedServer, BridgeTypeOK
  <2>2. page' = page /\ Senders' = Senders
    BY <2>1 DEF serverVars, missionVars, Senders
  <2>3. IsFiniteSet(Senders) /\ Cardinality(Senders) \in Nat
    BY FS_CardinalityType DEF SendersInv
  <2>4. page.step = "absent" => Cardinality(Senders) <= spent'.crashes + (IF Used' THEN 1 ELSE 0)
    BY <2>1, <2>3 DEF SendersInv
  <2> QED
    BY <2>1, <2>2, <2>4 DEF SendersInv
<1>6. CASE StartMission
  <2>1. /\ work.at = "start" /\ Start(work.mission, Request)
        /\ row' = row /\ page' = page /\ goal' = goal /\ spent' = spent
        /\ work' = [work EXCEPT !.at = IF work.job = "plan" THEN "derive" ELSE "poll"]
    BY <1>6 DEF StartMission, Working
  <2>2. work'.mission = work.mission /\ work'.at \in Watching
    BY <2>1 DEF BridgeTypeOK, WorkType, Watching
  <2> QED
    BY <2>1, <2>2, OneMoreSender
<1>7. CASE CallFails
  <2>1. /\ row' = row /\ page' = page /\ goal' = goal /\ spent'.crashes = spent.crashes
        /\ work' = IF work.job = "plan" THEN Unavailable ELSE ResumeUnavailable
        /\ work.at \in {"create", "start"}
        /\ run' = run \/ (work.at = "start" /\ Start(work.mission, Request))
    BY <1>7 DEF CallFails, Working, Trouble, Spend, BridgeTypeOK, missionVars, Create
  <2>2. work'.mission = work.mission /\ work'.at = "commit" /\ work'.row.status = "FAILED"
    BY <2>1 DEF Unavailable, ResumeUnavailable, BridgeTypeOK, WorkType, RowType
  <2>3. Used'
    BY <2>2 DEF Used, Over
  <2> QED
    BY <2>1, <2>2, <2>3, SameSenders, OneMoreSender DEF Over
<1>8. CASE TakeJob
  <2>1. /\ UNCHANGED <<serverVars, goal, row, spent>> /\ work.at = "idle"
    BY <1>8 DEF TakeJob, UnchangedServer
  <2>2. page' = page /\ run' = run /\ (Used => Used')
    BY <2>1 DEF serverVars, missionVars, Used, Watching
  <2> QED
    BY <2>1, <2>2, SameSenders
<1>9. CASE Commit
  <2>1. /\ UNCHANGED <<serverVars, goal, spent>> /\ work.at = "commit"
        /\ row'  = [work.row EXCEPT !.cancel = row.cancel, !.granted = row.granted,
                                    !.pending = row.pending + Raised]
    BY <1>9 DEF Commit, UnchangedServer
  <2>2. row'.status = work.row.status /\ row'.granted = row.granted
    BY <2>1 DEF BridgeTypeOK, WorkType, RowType
  <2>3. page' = page /\ run' = run
    BY <2>1 DEF serverVars, missionVars
  <2>4. Used => Used'
    BY <2>1, <2>2 DEF Used, WorkInv, Over, Watching
  <2> QED
    BY <2>1, <2>2, <2>3, <2>4, SameSenders
<1>10. ASSUME NEW m \in Missions, CreateMission(m) PROVE SendersInv'
  <2>1. /\ row' = row /\ page' = page /\ goal' = goal /\ spent' = spent /\ run' = run
        /\ work.at = "create"
    BY <1>10 DEF CreateMission, Working, Create
  <2>2. ~Used
    BY <2>1 DEF Used, WorkInv, Over, Watching
  <2> QED
    BY <2>1, <2>2, SameSenders
<1>11. CASE DeriveSteps \/ PollStatus \/ PollResult \/ TimeOut
  <2>1. /\ UNCHANGED <<serverVars, goal, row, spent>> /\ work.at \in Watching
        /\ work'.at \in Watching /\ work'.mission = work.mission
    BY <1>11 DEF DeriveSteps, PollStatus, PollResult, TimeOut, Working, UnchangedServer, Watching,
       BridgeTypeOK, WorkType
  <2>2. page' = page /\ run' = run
    BY <2>1 DEF serverVars, missionVars
  <2>3. Used => Used'
    BY <2>1, <2>2 DEF Used, Senders, Watching
  <2> QED
    BY <2>1, <2>2, <2>3, SameSenders
<1>12. CASE Reconcile
  <2> DEFINE to == OutcomeOf(work.status, work.result)
  <2>1. /\ UNCHANGED <<serverVars, goal, row, spent>> /\ work.at = "reconcile"
        /\ work' = [work EXCEPT !.at = "commit", !.row = Reconciled(@, to, work.result)]
    BY <1>12 DEF Reconcile, Working, UnchangedServer
  <2>2. page' = page /\ run' = run
    BY <2>1 DEF serverVars, missionVars
  <2>3. work.status # "awaiting_approval" => to \in Over
    BY DEF OutcomeOf, Over
  <2> HIDE DEF to
  <2>4. work'.at = "commit" /\ work'.row.status = to
    BY <2>1 DEF Reconciled, Recorded, MarkAllSteps, BridgeTypeOK, WorkType, RowType
  <2>5. Used => Used'
    BY <2>1, <2>3, <2>4 DEF Used, WorkInv, Over, Watching
  <2> QED
    BY <2>1, <2>2, <2>5, SameSenders
<1> QED
  BY <1>1, <1>2, <1>3, <1>4, <1>5, <1>6, <1>7, <1>8, <1>9, <1>10, <1>11, <1>12
  DEF Next, WorkerStep

-----------------------------------------------------------------------------
(* The whole                                                               *)

LEMMA Starts ==
  ASSUME Init
  PROVE  Inv
<1> USE DEF Init, ServerInit
<1>1. ServerInv
  <2>1. [kind |-> "simulate", gated |-> TRUE] \in Runs
    BY DEF Runs, Kinds
  <2>2. ServerTypeOK
    BY DEF ServerTypeOK, Statuses, Stages
  <2>3. \A m \in Missions : MissionInv(m)
    BY <2>1 DEF MissionInv, Untouched
  <2> QED
    BY <2>2, <2>3 DEF ServerInv
<1>2. page.step \in {"absent", "idle"} /\ (page = NoPage \/ page = [NoPage EXCEPT !.step = "idle"])
  <2>1. NoPage.step = "absent" /\ [NoPage EXCEPT !.step = "idle"].step = "idle"
    BY DEF NoPage
  <2>2. page = NoPage \/ page = [NoPage EXCEPT !.step = "idle"]
    BY Zenon
  <2> QED
    BY <2>1, <2>2
<1>3. PageInv
  BY <1>2 DEF PageInv, NoPage, Following
<1>4. RowType(row) /\ row.status = "QUEUED" /\ row.pending = 0
  BY DEF NewRow, RowType
<1>5. WorkType(work) /\ work.at = "idle"
  BY DEF NoWork, NewRow, WorkType, RowType
<1>6. BridgeTypeOK
  <2>1. page.step = "absent" => goal \in Runs
    BY BridgeAssumption DEF NoPage
  <2>2. page.step # "absent" => queue = <<>>
    BY DEF NoPage
  <2> QED
    BY <1>4, <1>5, <2>1, <2>2 DEF BridgeTypeOK
<1>7. WorkInv
  BY <1>4, <1>5 DEF WorkInv, Over, Watching
<1>8. SendersInv
  <2>1. Senders = {}
    BY DEF Senders
  <2>2. IsFiniteSet(Senders) /\ Cardinality(Senders) = 0 /\ spent.crashes = 0
    BY <2>1, FS_EmptySet
  <2> QED
    BY <2>1, <2>2 DEF SendersInv
<1> QED
  BY <1>1, <1>3, <1>6, <1>7, <1>8 DEF Inv

LEMMA InvInductive ==
  ASSUME Inv, [Next]_vars
  PROVE  Inv'
<1>1. ServerInv'
  BY EffectOfNext, EffectKeeps DEF Inv
<1>2. PageInv'
  BY PageInvInductive
<1>3. SendersInv'
  BY SendersInvInductive
<1>4. BridgeTypeOK' /\ WorkInv'
  <2>1. CASE UserStep
    BY <2>1, UserKeepsBridge
  <2>2. CASE WorkerStep \/ CallFails \/ Crash
    BY <2>2, WorkerKeepsBridge
  <2>3. CASE (ServerNext \/ Restart) /\ UNCHANGED bridgeVars
    <3>1. UNCHANGED <<goal, row, work, spent, queue>>
      BY <2>3 DEF bridgeVars
    <3> QED
      BY <2>3, <3>1, OthersKeepBridge
  <2>4. CASE Redeliver
    <3>1. /\ UNCHANGED <<serverVars, goal, row, work>> /\ queue # <<>>
          /\ DOMAIN spent' = DOMAIN spent /\ spent'.crashes = spent.crashes
      BY <2>4 DEF Redeliver, Trouble, Spend, UnchangedServer, Inv, BridgeTypeOK
    <3> QED
      BY <3>1, OthersKeepBridge
  <2>5. CASE UNCHANGED vars
    <3>1. UNCHANGED <<serverVars, goal, row, work, spent, queue>>
      BY <2>5 DEF vars, bridgeVars
    <3> QED
      BY <3>1, OthersKeepBridge
  <2> QED
    BY <2>1, <2>2, <2>3, <2>4, <2>5 DEF Next
<1> QED
  BY <1>1, <1>2, <1>3, <1>4 DEF Inv

LEMMA Invariant == Spec => []Inv
BY Starts, InvInductive, PTL DEF Spec

\* The end of an event stream is the end of its mission: a page that has read
\* the record after it was shown every event, sees a settled status and has
\* the artifact exactly if one was announced (app.py _sse, frontend.py run).
THEOREM EndIsTheEnd == Spec => []EndMeansSettled
<1>1. Inv => EndMeansSettled
  BY DEF Inv, PageInv, EndMeansSettled
<1> QED
  BY <1>1, Invariant, PTL

\* Nothing of a gated mail goal is sent before an approval is granted, for
\* any number of crashes, redeliveries, lost calls, restarts and requests
\* (ai_ml_runtime.py:280, execution_service._advance_real).
THEOREM GateHolds == Spec => []NoSendBeforeApproval
<1>1. Inv => NoSendBeforeApproval
  <2>1. Inv => sent \subseteq Senders
    BY DEF Inv, ServerInv, ServerTypeOK, MissionInv, Senders
  <2> QED
    BY <2>1 DEF Inv, SendersInv, NoSendBeforeApproval
<1> QED
  BY <1>1, Invariant, PTL

\* A COMPLETE execution has a mission that completed, with its document
\* verified and, for a mail, with the mail sent (_outcome_from_record).
THEOREM CompleteHasAMission == Spec => []CompleteIsEarned
<1>1. Inv => CompleteIsEarned
  <2> SUFFICES ASSUME Inv, row.status = "COMPLETE"
               PROVE  \E m \in Missions :
                        /\ result[m].stored /\ Passed(result[m])
                        /\ status[m] = "complete"
                        /\ run[m].kind = "simulate" => m \in sent
    BY DEF CompleteIsEarned
  <2>1. PICK m \in Missions : status[m] = "complete"
    BY DEF Inv, WorkInv
  <2>2. Earned(m)
    BY <2>1 DEF Inv, ServerInv, MissionInv
  <2>3. result[m].stored /\ result[m].document /\ result[m].complete
    <3>1. Verdict("complete").stored /\ Verdict("complete").document /\ Verdict("complete").complete
      BY DEF Verdict
    <3>2. Verdict("opened").stored /\ Verdict("opened").document /\ Verdict("opened").complete
      BY DEF Verdict
    <3> QED
      BY <2>2, <3>1, <3>2 DEF Earned
  <2> QED
    BY <2>1, <2>2, <2>3 DEF Earned, Passed
<1> QED
  BY <1>1, Invariant, PTL

\* Mails are sent at most once, and once more for every worker that died:
\* redelivered jobs, failed calls, timeouts and resumptions add none
\* (planning_service.run_planning, execution_worker.py:3-5).
THEOREM OneSendPerLife == Spec => []SendsOnceUnlessCrashed
<1>1. Inv => SendsOnceUnlessCrashed
  <2> SUFFICES ASSUME Inv PROVE Cardinality(sent) <= 1 + spent.crashes
    BY DEF SendsOnceUnlessCrashed
  <2>1. sent \subseteq Senders
    BY DEF Inv, ServerInv, ServerTypeOK, MissionInv, Senders
  <2>2. IsFiniteSet(Senders) /\ Cardinality(Senders) \in Nat /\ spent.crashes \in Nat
    BY FS_CardinalityType DEF Inv, SendersInv, BridgeTypeOK
  <2>3. Cardinality(sent) <= Cardinality(Senders) /\ Cardinality(sent) \in Nat
    BY <2>1, <2>2, FS_Subset, FS_CardinalityType
  <2>4. Cardinality(Senders) <= 1 + spent.crashes
    <3>1. CASE page.step = "absent"
      BY <3>1, <2>2 DEF Inv, SendersInv
    <3>2. CASE page.step # "absent"
      <4>1. Senders \subseteq {page.mission}
        BY <3>2 DEF Inv, SendersInv
      <4>2. IsFiniteSet({page.mission}) /\ Cardinality({page.mission}) = 1
        BY FS_Singleton
      <4>3. Cardinality(Senders) <= 1
        BY <4>1, <4>2, FS_Subset
      <4> QED
        BY <4>3, <2>2
    <3> QED
      BY <3>1, <3>2
  <2> QED
    BY <2>2, <2>3, <2>4
<1> QED
  BY <1>1, Invariant, PTL

=============================================================================
