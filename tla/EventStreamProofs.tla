--------------------------- MODULE EventStreamProofs ---------------------------
(***************************************************************************)
(* Theorems about EventStream for every set of writers, viewers, event     *)
(* types and transactions.                                                 *)
(***************************************************************************)
EXTENDS EventStream, FiniteSetTheorems, TLAPS

\* A transaction that has allocated nothing has an empty range of sequences.
LEMMA NothingAllocated ==
  ASSUME NEW n \in Nat
  PROVE  /\ IsFiniteSet({}) /\ Cardinality({}) = 0
         /\ {e.seq : e \in {}} = (n + 1)..(n + 0)
  BY FS_EmptySet

\* Beginning and ending a transaction leaves the others' sequences alone.
LEMMA ForgetInv ==
  ASSUME AllocationInv, NEW w \in Writers, NEW t,
         t \in [on : BOOLEAN, of : Seq(Kinds), to : Status \cup {Keep}, rows : {{}}],
         t.on => t.of # <<>>,
         tx' = [tx EXCEPT ![w] = t], row' = row, log' = log,
         lock' = lock \/ lock = w
  PROVE  AllocationInv'
<1>1. \A v \in Writers : tx'[v] = tx[v] \/ (v = w /\ tx'[v].rows = {})
  BY DEF AllocationInv
<1>2. \A v \in Writers : tx'[v].rows # {} => lock' = v /\ Allocating(v)'
  <2> SUFFICES ASSUME NEW v \in Writers, tx'[v].rows # {} PROVE lock' = v /\ Allocating(v)'
    OBVIOUS
  <2>1. tx'[v] = tx[v]
    BY <1>1
  <2>2. lock = v /\ Allocating(v)
    BY <2>1 DEF AllocationInv
  <2>3. v # w
    BY <2>1 DEF AllocationInv
  <2> QED BY <2>1, <2>2, <2>3 DEF Allocating
<1>3. tx' \in [Writers -> [on : BOOLEAN, of : Seq(Kinds), to : Status \cup {Keep},
                          rows : SUBSET Events]]
  BY DEF AllocationInv
<1>4. \A v \in Writers : tx'[v].on => tx'[v].of # <<>>
  BY DEF AllocationInv
<1> QED BY <1>2, <1>3, <1>4 DEF AllocationInv, GapFree

LEMMA BeginInv ==
  ASSUME AllocationInv, NEW w \in Writers, Begin(w)
  PROVE  AllocationInv'
<1>1. PICK t \in Transactions :
        tx' = [tx EXCEPT ![w] = [on |-> TRUE, of |-> t.emits, to |-> t.to, rows |-> {}]]
  BY DEF Begin
<1> DEFINE new == [on |-> TRUE, of |-> t.emits, to |-> t.to, rows |-> {}]
<1>2. /\ new \in [on : BOOLEAN, of : Seq(Kinds), to : Status \cup {Keep}, rows : {{}}]
      /\ new.on => new.of # <<>>
  BY StreamAssumption
<1>3. row' = row /\ log' = log /\ lock' = lock
  BY DEF Begin
<1> HIDE DEF new
<1> QED BY <1>1, <1>2, <1>3, ForgetInv DEF new

LEMMA AbortInv ==
  ASSUME AllocationInv, NEW w \in Writers, Abort(w)
  PROVE  AllocationInv'
<1>1. /\ NoTx \in [on : BOOLEAN, of : Seq(Kinds), to : Status \cup {Keep}, rows : {{}}]
      /\ NoTx.on => NoTx.of # <<>>
  BY DEF NoTx
<1>2. /\ tx' = [tx EXCEPT ![w] = NoTx] /\ row' = row /\ log' = log
      /\ lock' = lock \/ lock = w
  BY DEF Abort
<1> QED BY <1>1, <1>2, ForgetInv

\* The sequence an event gets follows those its transaction has, under a lock
\* that no other transaction has while it has sequences.
LEMMA EmitInv ==
  ASSUME AllocationInv, NEW w \in Writers, Emit(w)
  PROVE  AllocationInv'
<1> DEFINE rows == tx[w].rows
           n    == Cardinality(rows)
           e    == [seq |-> Allocated(row.last, n), kind |-> tx[w].of[n + 1]]
           new  == rows \cup {e}
<1>1. /\ n < Len(tx[w].of) /\ lock \in {NoWriter, w} /\ lock' = w
      /\ tx' = [tx EXCEPT ![w].rows = new] /\ row' = row /\ log' = log
  BY DEF Emit, Hold
<1>2. row.last \in Nat /\ tx[w].of \in Seq(Kinds) /\ NoWriter \notin Writers
  BY StreamAssumption DEF AllocationInv
<1>3. /\ rows \in SUBSET Events /\ IsFiniteSet(rows) /\ n \in Nat
      /\ {d.seq : d \in rows} = (row.last + 1)..(row.last + n)
      /\ \A c, d \in rows : c.seq = d.seq => c = d
  <2>1. CASE rows = {}
    BY <1>2, <2>1, NothingAllocated DEF AllocationInv
  <2>2. CASE rows # {}
    <3>1. Allocating(w)
      BY <2>2 DEF AllocationInv
    <3> QED BY <3>1, FS_CardinalityType DEF Allocating
  <2> QED BY <2>1, <2>2
<1>4. e \in Events /\ e.seq = row.last + n + 1
  <2>1. n + 1 \in 1..Len(tx[w].of)
    BY <1>1, <1>2, <1>3
  <2>2. tx[w].of[n + 1] \in Kinds
    BY <1>2, <2>1
  <2> QED BY <1>2, <1>3, <2>2 DEF Allocated, Events
<1> HIDE DEF rows, n, e, new
<1>5. e \notin rows
  <2>1. ASSUME e \in rows PROVE FALSE
    <3>1. e.seq \in {d.seq : d \in rows}
      BY <2>1
    <3>2. row.last + n + 1 \in (row.last + 1)..(row.last + n)
      BY <1>3, <1>4, <3>1
    <3> QED BY <1>2, <1>3, <3>2
  <2> QED BY <2>1
<1>6. IsFiniteSet(new) /\ Cardinality(new) = n + 1
  BY <1>3, <1>5, FS_AddElement DEF new, n
<1>7. {d.seq : d \in new} = (row.last + 1)..(row.last + (n + 1))
  <2>1. {d.seq : d \in rows \cup {e}} = {d.seq : d \in rows} \cup {e.seq}
    OBVIOUS
  <2>2. ((row.last + 1)..(row.last + n)) \cup {row.last + n + 1}
          = (row.last + 1)..(row.last + (n + 1))
    BY <1>2, <1>3
  <2> QED BY <1>3, <1>4, <2>1, <2>2 DEF new
<1>8. \A c, d \in new : c.seq = d.seq => c = d
  <2>1. \A d \in rows : d.seq # e.seq
    <3>1. \A d \in rows : d.seq \in (row.last + 1)..(row.last + n)
      BY <1>3
    <3> QED BY <1>2, <1>3, <1>4, <3>1
  <2> QED BY <1>3, <2>1 DEF new
<1>9. \A v \in Writers : v # w => tx[v].rows = {} /\ tx'[v] = tx[v]
  BY <1>1, <1>2 DEF AllocationInv
<1>10. tx'[w].rows = new
  BY <1>1 DEF AllocationInv
<1>11. Allocating(w)'
  BY <1>1, <1>3, <1>4, <1>6, <1>7, <1>8, <1>10 DEF Allocating, new
<1>12. tx' \in [Writers -> [on : BOOLEAN, of : Seq(Kinds), to : Status \cup {Keep},
                           rows : SUBSET Events]]
  <2>1. new \in SUBSET Events
    BY <1>3, <1>4 DEF new
  <2> QED BY <1>1, <2>1 DEF AllocationInv
<1>13. \A v \in Writers : tx'[v].on => tx'[v].of # <<>>
  BY <1>1 DEF AllocationInv
<1> QED BY <1>1, <1>9, <1>11, <1>12, <1>13 DEF AllocationInv, GapFree

\* A commit appends exactly the sequences that follow the committed ones.
LEMMA CommitInv ==
  ASSUME AllocationInv, NEW w \in Writers, Commit(w)
  PROVE  AllocationInv'
<1> DEFINE rows == tx[w].rows
           n    == Cardinality(rows)
<1>1. /\ row'.last = row.last + n /\ log' = log \cup rows
      /\ tx' = [tx EXCEPT ![w] = NoTx]
  BY DEF Commit
<1>2. /\ rows \in SUBSET Events /\ n \in Nat /\ row.last \in Nat
      /\ {d.seq : d \in rows} = (row.last + 1)..(row.last + n)
      /\ \A c, d \in rows : c.seq = d.seq => c = d
  <2>1. CASE rows = {}
    BY <2>1, NothingAllocated DEF AllocationInv
  <2>2. CASE rows # {}
    <3>1. Allocating(w)
      BY <2>2 DEF AllocationInv
    <3> QED BY <3>1, FS_CardinalityType DEF Allocating, AllocationInv
  <2> QED BY <2>1, <2>2
<1>3. {e.seq : e \in log'} = 1..row'.last
  <2>1. {e.seq : e \in log'} = {e.seq : e \in log} \cup {e.seq : e \in rows}
    BY <1>1
  <2>2. {e.seq : e \in log} = 1..row.last
    BY DEF AllocationInv, GapFree
  <2> HIDE DEF rows, n
  <2> QED BY <1>1, <1>2, <2>1, <2>2
<1>4. \A d, e \in log' : d.seq = e.seq => d = e
  <2>1. \A d \in log : d.seq \in 1..row.last
    BY DEF AllocationInv, GapFree
  <2>2. \A d \in rows : d.seq \in (row.last + 1)..(row.last + n)
    BY <1>2
  <2>3. \A d \in log, e \in rows : d.seq # e.seq
    <3> HIDE DEF rows, n
    <3> QED BY <1>2, <2>1, <2>2
  <2> QED BY <1>1, <1>2, <2>3 DEF AllocationInv, GapFree
<1>5. \A v \in Writers : tx'[v].rows = {}
  <2>1. n = Len(tx[w].of) /\ tx[w].of # <<>> /\ tx[w].of \in Seq(Kinds)
    BY DEF Commit, AllocationInv
  <2>2. rows # {}
    <3>1. Len(tx[w].of) # 0
      BY <2>1
    <3> QED BY <2>1, <3>1, FS_EmptySet
  <2>3. lock = w
    BY <2>2 DEF AllocationInv
  <2> QED BY <1>1, <2>3 DEF AllocationInv, NoTx
<1>6. /\ tx' \in [Writers -> [on : BOOLEAN, of : Seq(Kinds), to : Status \cup {Keep},
                             rows : SUBSET Events]]
      /\ \A v \in Writers : tx'[v].on => tx'[v].of # <<>>
  BY <1>1 DEF AllocationInv, NoTx
<1> QED BY <1>1, <1>2, <1>3, <1>4, <1>5, <1>6 DEF AllocationInv, GapFree

\* "gap-free from 1" for every number of writers and whatever they emit: the
\* row lock that the first event takes is what makes the cursor of a stream safe.
THEOREM LogIsGapFree == Spec => []GapFree
<1>1. Init => AllocationInv
  <2> SUFFICES ASSUME Init PROVE AllocationInv
    OBVIOUS
  <2>1. {e.seq : e \in log} = 1..row.last
    BY DEF Init
  <2>2. log \in SUBSET Events
    BY StreamAssumption DEF Init, Events
  <2> QED BY <2>1, <2>2 DEF Init, AllocationInv, GapFree, NoTx
<1>2. AllocationInv /\ [Next]_vars => AllocationInv'
  <2> SUFFICES ASSUME AllocationInv, [Next]_vars PROVE AllocationInv'
    OBVIOUS
  <2>1. ASSUME NEW w \in Writers, WriterStep(w) PROVE AllocationInv'
    BY <2>1, BeginInv, EmitInv, CommitInv, AbortInv DEF WriterStep
  <2>2. ASSUME UNCHANGED writerVars PROVE AllocationInv'
    BY <2>2 DEF writerVars, AllocationInv, Allocating, GapFree
  <2>3. ASSUME NEW v \in Viewers, ServerStep(v) \/ ViewerStep(v) \/ Drop(v)
        PROVE  UNCHANGED writerVars
    BY <2>3 DEF ServerStep, ViewerStep, Drop, ReadRows, ReadStatus, LoadTask, Seed,
                Connect, Opened, Receive, Refresh
  <2>4. UNCHANGED vars => UNCHANGED writerVars
    BY DEF vars, writerVars
  <2> QED BY <2>1, <2>2, <2>3, <2>4 DEF Next
<1>3. AllocationInv => GapFree
  BY DEF AllocationInv
<1> QED BY <1>1, <1>2, <1>3, PTL DEF Spec

-----------------------------------------------------------------------------
(* Pages                                                                   *)

\* Between two sequences there are as many events as numbers.
LEMMA EventsBetween ==
  ASSUME AllocationInv, NEW a \in 0..row.last, NEW b \in a..row.last,
         NEW D, D = {d \in log : d.seq > a /\ d.seq <= b}
  PROVE  Cardinality(D) = b - a
<1>1. /\ row.last \in Nat /\ a \in Nat /\ b \in Nat /\ a <= b /\ b <= row.last
      /\ {e.seq : e \in log} = 1..row.last
      /\ \A d, e \in log : d.seq = e.seq => d = e
  BY DEF AllocationInv, GapFree
<1> DEFINE S == (a + 1)..b
           f == [i \in S |-> CHOOSE d \in D : d.seq = i]
<1>2. ASSUME NEW i \in S PROVE f[i] \in D /\ f[i].seq = i
  <2>1. i \in 1..row.last
    BY <1>1
  <2>2. \E d \in log : d.seq = i
    BY <1>1, <2>1
  <2>3. \E d \in D : d.seq = i
    BY <1>1, <2>2
  <2> QED BY <2>3
<1>3. \A d \in D : d.seq \in S /\ f[d.seq] = d
  <2> SUFFICES ASSUME NEW d \in D PROVE d.seq \in S /\ f[d.seq] = d
    OBVIOUS
  <2>1. d \in log /\ d.seq \in 1..row.last /\ d.seq > a /\ d.seq <= b
    BY <1>1
  <2>2. d.seq \in S
    BY <1>1, <2>1
  <2>3. f[d.seq] \in D /\ f[d.seq].seq = d.seq
    BY <1>2, <2>2
  <2> QED BY <1>1, <2>1, <2>2, <2>3
<1>4. f \in Bijection(S, D)
  <2>1. f \in [S -> D]
    BY <1>2
  <2>2. \A i, j \in S : f[i] = f[j] => i = j
    <3> HIDE DEF f
    <3> QED BY <1>2
  <2>3. \A d \in D : \E i \in S : f[i] = d
    BY <1>3
  <2> HIDE DEF f, S
  <2> QED BY <2>1, <2>2, <2>3 DEF Bijection, Injection, Surjection, IsInjective
<1>5. IsFiniteSet(S) /\ Cardinality(S) = b - a
  <2>1. a + 1 \in Int /\ b \in Int
    BY <1>1
  <2>2. IsFiniteSet(S) /\ Cardinality(S) = IF a + 1 <= b THEN b - (a + 1) + 1 ELSE 0
    BY <2>1, FS_Interval
  <2> QED BY <1>1, <2>2
<1> QED BY <1>4, <1>5, FS_Bijection DEF ExistsBijection

LEMMA LeastOfTwo ==
  ASSUME NEW a \in Nat, NEW b \in Nat
  PROVE  Min({a, b}) = IF a <= b THEN a ELSE b
BY DEF Min

\* A page continues its cursor without a gap, and what follows it is its last.
LEMMA PageContinues ==
  ASSUME AllocationInv, NEW c \in 0..row.last, NEW p, p = Page(c)
  PROVE  /\ p \in Seq(Events) /\ Len(p) \in Nat /\ c + Len(p) <= row.last
         /\ \A i \in 1..Len(p) : p[i] \in log /\ p[i].seq = c + i
         /\ LastSeq(p, c) = c + Len(p)
<1>1. /\ row.last \in Nat /\ c \in Nat /\ c <= row.last /\ log \subseteq Events
      /\ {e.seq : e \in log} = 1..row.last
      /\ \A d, e \in log : d.seq = e.seq => d = e
  BY DEF AllocationInv, GapFree
<1>2. \A d \in log : d.seq \in 1..row.last
  BY <1>1
<1>3. Cardinality(After(c)) = row.last - c
  <2>1. After(c) = {d \in log : d.seq > c /\ d.seq <= row.last}
    BY <1>1, <1>2 DEF After
  <2>2. row.last \in c..row.last
    BY <1>1
  <2> QED BY <2>1, <2>2, EventsBetween
<1>4. ASSUME NEW e \in After(c) PROVE Rank(e, After(c)) = e.seq - c
  <2>1. e \in log /\ e.seq > c
    BY DEF After
  <2>2. {d \in After(c) : d.seq <= e.seq} = {d \in log : d.seq > c /\ d.seq <= e.seq}
    BY DEF After
  <2>3. e.seq \in c..row.last
    BY <1>1, <1>2, <2>1
  <2> QED BY <2>2, <2>3, EventsBetween DEF Rank
<1> DEFINE n == Min({row.last - c, Limit})
           F(i) == CHOOSE e \in After(c) : Rank(e, After(c)) = i
<1>5. n \in Nat /\ c + n <= row.last
  BY <1>1, LeastOfTwo, StreamAssumption
<1>6. p = [i \in 1..n |-> F(i)]
  BY <1>3 DEF Page
<1> HIDE DEF n
<1>7. ASSUME NEW i \in 1..n PROVE F(i) \in log /\ F(i) \in Events /\ F(i).seq = c + i
  <2>1. c + i \in 1..row.last
    BY <1>1, <1>5
  <2>2. PICK e \in log : e.seq = c + i
    BY <1>1, <2>1
  <2>3. e \in After(c) /\ Rank(e, After(c)) = i
    <3>1. e \in After(c)
      BY <1>1, <2>2 DEF After
    <3> QED BY <3>1, <2>2, <1>1, <1>4
  <2>4. F(i) \in After(c) /\ Rank(F(i), After(c)) = i
    BY <2>3
  <2> HIDE DEF F
  <2>5. F(i).seq - c = i /\ F(i) \in log
    BY <2>4, <1>4 DEF After
  <2>6. F(i).seq \in 1..row.last
    BY <2>5, <1>2
  <2> QED BY <2>5, <2>6, <1>1
<1> HIDE DEF F
<1>8. p \in Seq(Events) /\ Len(p) = n /\ \A i \in 1..n : p[i] = F(i)
  BY <1>5, <1>6, <1>7
<1>9. LastSeq(p, c) = c + Len(p)
  <2>1. CASE p = <<>>
    BY <2>1, <1>1 DEF LastSeq
  <2>2. CASE p # <<>>
    <3>1. n # 0
      BY <2>2, <1>8
    <3>2. n \in 1..n
      BY <3>1, <1>5
    <3> QED BY <2>2, <3>2, <1>7, <1>8 DEF LastSeq
  <2> QED BY <2>1, <2>2
<1> QED BY <1>5, <1>7, <1>8, <1>9

Lines == Events \cup {End(s) : s \in Status}

\* What a page or a desktop has seen of the log is all that it would hear of it.
Faithful(v) ==
  LET seen == viewer[v] IN
  /\ seen.last \in 0..row.last
  /\ seen.timeline \in Seq(Events)
  /\ \A i \in 1..Len(seen.timeline) : seen.timeline[i].seq <= seen.last
  /\ \A i, j \in 1..Len(seen.timeline) : i < j => seen.timeline[i].seq < seen.timeline[j].seq
  /\ \A e \in log : (e.seq <= seen.last /\ e.kind \in Heard) =>
                       \E i \in 1..Len(seen.timeline) : seen.timeline[i] = e

\* The events under way to a desktop, without the stream's end.
UnderWay(v) == Len(wire[v]) - (IF conn[v].phase = "ended" THEN 1 ELSE 0)

\* A batch continues the cursor, and what is under way leads up to it from what
\* the desktop has seen, with nothing it listens for in between.
Streams(v) ==
  LET cursor == conn[v].cursor
      batch  == conn[v].batch
      n      == UnderWay(v)
  IN
  /\ conn[v].phase \in {"rows", "status", "ended"}
  /\ cursor \in 0..row.last
  /\ wire[v] \in Seq(Lines)
  /\ n \in Nat /\ viewer[v].last <= cursor - n
  /\ \A i \in 1..n : wire[v][i] \in log /\ wire[v][i].seq = cursor - n + i
  /\ conn[v].phase = "ended" => wire[v][n + 1].seq = 0
  /\ \A e \in log : (viewer[v].last < e.seq /\ e.seq <= cursor - n) => e.kind \notin Heard
  /\ conn[v].phase = "status" =>
       /\ batch \in Seq(Events) /\ cursor + Len(batch) <= row.last
       /\ \A i \in 1..Len(batch) : batch[i] \in log /\ batch[i].seq = cursor + i

Watches(v) ==
  /\ {"phase", "last", "timeline", "shown"} = DOMAIN viewer[v]
  /\ {"phase", "cursor", "batch"} = DOMAIN conn[v]
  /\ Faithful(v)
  /\ viewer[v].phase \in {"load", "seed", "connect"} =>
       wire[v] = <<>> /\ conn[v].phase = "off"
  /\ viewer[v].phase = "live" => Streams(v)

ViewInv ==
  /\ DOMAIN viewer = Viewers /\ DOMAIN wire = Viewers /\ DOMAIN conn = Viewers
  /\ \A v \in Viewers : Watches(v)

Inv == AllocationInv /\ row.status \in Status /\ ViewInv

-----------------------------------------------------------------------------
(* What others do.                                                         *)

\* A transaction only appends to the log, and what it appends has new sequences.
Grows ==
  /\ row.last \in Nat /\ row'.last \in Nat /\ row.last <= row'.last
  /\ log \subseteq log'
  /\ \A e \in log' : e.seq \in Nat /\ (e \in log \/ e.seq > row.last)

LEMMA LogGrows ==
  ASSUME AllocationInv, row.status \in Status, NEW w \in Writers, WriterStep(w)
  PROVE  Grows /\ row'.status \in Status /\ UNCHANGED viewerVars
<1>1. CASE Begin(w) \/ Emit(w) \/ Abort(w)
  BY <1>1 DEF Begin, Emit, Abort, AllocationInv, Grows, Events
<1>2. CASE Commit(w)
  <2> DEFINE rows == tx[w].rows
             n    == Cardinality(rows)
  <2>1. row.last \in Nat /\ tx[w].to \in Status \cup {Keep}
    BY DEF AllocationInv
  <2>2. n \in Nat /\ {d.seq : d \in rows} = (row.last + 1)..(row.last + n)
    <3>1. CASE rows = {}
      BY <2>1, <3>1, NothingAllocated
    <3>2. CASE rows # {}
      <4>1. Allocating(w)
        BY <3>2 DEF AllocationInv
      <4> QED BY <4>1, FS_CardinalityType DEF Allocating
    <3> QED BY <3>1, <3>2
  <2>3. /\ row'.last = row.last + n /\ log' = log \cup rows
        /\ row'.status = IF tx[w].to = Keep THEN row.status ELSE tx[w].to
        /\ UNCHANGED viewerVars
    BY <1>2 DEF Commit, viewerVars
  <2>4. row'.status \in Status
    BY <2>1, <2>3
  <2>5. \A d \in rows : d.seq \in (row.last + 1)..(row.last + n)
    BY <2>2
  <2>6. \A e \in log : e.seq \in Nat
    BY DEF AllocationInv, Events
  <2> HIDE DEF rows, n
  <2> QED BY <2>1, <2>2, <2>3, <2>4, <2>5, <2>6 DEF Grows
<1> QED BY <1>1, <1>2 DEF WriterStep

\* A desktop that does nothing still watches: the log has only grown.
LEMMA WatchesOn ==
  ASSUME AllocationInv, Grows, NEW v \in Viewers, Watches(v),
         viewer'[v] = viewer[v], conn'[v] = conn[v], wire'[v] = wire[v]
  PROVE  Watches(v)'
<1>1. Faithful(v)'
  <2> DEFINE seen == viewer[v]
  <2>1. Faithful(v) /\ viewer'[v] = seen
    BY DEF Watches
  <2>2. seen.last \in 0..row'.last
    BY <2>1 DEF Faithful, Grows
  <2>3. ASSUME NEW e \in log', e.seq <= seen.last, e.kind \in Heard
        PROVE  \E i \in 1..Len(seen.timeline) : seen.timeline[i] = e
    <3>1. e \in log
      BY <2>1, <2>3 DEF Faithful, Grows
    <3> QED BY <2>1, <2>3, <3>1 DEF Faithful
  <2> QED BY <2>1, <2>2, <2>3 DEF Faithful
<1>2. UnderWay(v)' = UnderWay(v)
  BY DEF UnderWay
<1>3. CASE viewer[v].phase = "live"
  <2>1. Streams(v)
    BY <1>3 DEF Watches
  <2>2. /\ conn[v].cursor \in Nat /\ UnderWay(v) \in Nat
        /\ conn[v].cursor <= row.last /\ row.last \in Nat
    BY <2>1 DEF Streams, Grows
  <2>3. \A e \in log' : (viewer[v].last < e.seq /\ e.seq <= conn[v].cursor - UnderWay(v))
                            => e.kind \notin Heard
    <3> SUFFICES ASSUME NEW e \in log', viewer[v].last < e.seq,
                        e.seq <= conn[v].cursor - UnderWay(v)
                 PROVE  e.kind \notin Heard
      OBVIOUS
    <3>1. CASE e \in log
      BY <2>1, <3>1 DEF Streams
    <3>2. CASE e \notin log
      <4>1. e.seq \in Nat /\ e.seq > row.last
        BY <3>2 DEF Grows
      <4> QED BY <2>2, <4>1
    <3> QED BY <3>1, <3>2
  <2>4. Streams(v)'
    <3> DEFINE n == UnderWay(v)
    <3>1. /\ n' = n /\ conn'[v] = conn[v] /\ wire'[v] = wire[v]
          /\ viewer'[v] = viewer[v] /\ log \subseteq log' /\ row.last <= row'.last
          /\ row'.last \in Nat
      BY <1>2 DEF Grows
    <3>2. conn[v].phase = "status" =>
            /\ conn[v].batch \in Seq(Events) /\ conn[v].cursor + Len(conn[v].batch) <= row'.last
            /\ \A i \in 1..Len(conn[v].batch) :
                 conn[v].batch[i] \in log' /\ conn[v].batch[i].seq = conn[v].cursor + i
      <4> HAVE conn[v].phase = "status"
      <4>1. /\ conn[v].batch \in Seq(Events) /\ conn[v].cursor + Len(conn[v].batch) <= row.last
            /\ \A i \in 1..Len(conn[v].batch) :
                 conn[v].batch[i] \in log /\ conn[v].batch[i].seq = conn[v].cursor + i
        BY <2>1 DEF Streams
      <4>2. Len(conn[v].batch) \in Nat
        BY <4>1
      <4> QED BY <2>2, <3>1, <4>1, <4>2
    <3>3. \A i \in 1..n : wire[v][i] \in log' /\ wire[v][i].seq = conn[v].cursor - n + i
      BY <2>1, <3>1 DEF Streams
    <3>4. conn[v].cursor \in 0..row'.last
      BY <2>2, <3>1
    <3>5. /\ conn[v].phase \in {"rows", "status", "ended"} /\ wire[v] \in Seq(Lines)
          /\ viewer[v].last <= conn[v].cursor - n
          /\ conn[v].phase = "ended" => wire[v][n + 1].seq = 0
      BY <2>1 DEF Streams
    <3> HIDE DEF n
    <3> QED BY <2>2, <2>3, <3>1, <3>2, <3>3, <3>4, <3>5 DEF Streams, n
  <2> QED BY <1>1, <1>3, <2>4 DEF Watches
<1> QED BY <1>1, <1>3 DEF Watches

LEMMA WriterView ==
  ASSUME Inv, NEW w \in Writers, WriterStep(w)
  PROVE  Inv'
<1>1. Grows /\ row'.status \in Status /\ UNCHANGED viewerVars
  BY LogGrows DEF Inv
<1>2. AllocationInv'
  BY BeginInv, EmitInv, CommitInv, AbortInv DEF WriterStep, Inv
<1>3. \A v \in Viewers : Watches(v)'
  <2> SUFFICES ASSUME NEW v \in Viewers PROVE Watches(v)'
    OBVIOUS
  <2>1. viewer'[v] = viewer[v] /\ conn'[v] = conn[v] /\ wire'[v] = wire[v]
    BY <1>1 DEF viewerVars
  <2> QED BY <1>1, <2>1, WatchesOn DEF Inv, ViewInv
<1> QED BY <1>1, <1>2, <1>3 DEF Inv, ViewInv, viewerVars

\* A step of one desktop or of its stream concerns that desktop.
LEMMA OneView ==
  ASSUME Inv, NEW v \in Viewers, UNCHANGED writerVars, Watches(v)',
         DOMAIN viewer' = Viewers, DOMAIN wire' = Viewers, DOMAIN conn' = Viewers,
         \A u \in Viewers \ {v} : /\ viewer'[u] = viewer[u]
                                  /\ conn'[u] = conn[u] /\ wire'[u] = wire[u]
  PROVE  Inv'
<1>1. Grows /\ row' = row
  BY DEF Inv, AllocationInv, writerVars, Grows, Events
<1>2. AllocationInv'
  BY DEF Inv, AllocationInv, writerVars, Allocating, GapFree
<1>3. \A u \in Viewers : Watches(u)'
  BY <1>1, WatchesOn DEF Inv, ViewInv
<1> QED BY <1>1, <1>2, <1>3 DEF Inv, ViewInv

-----------------------------------------------------------------------------
(* What a desktop and its stream do.                                       *)

\* The timeline a desktop starts from is the first page of the log.
LEMMA PageIsFaithful ==
  ASSUME AllocationInv, NEW p, p = Page(0)
  PROVE  /\ p \in Seq(Events) /\ LastSeq(p, 0) \in 0..row.last
         /\ \A i \in 1..Len(p) : p[i].seq <= LastSeq(p, 0)
         /\ \A i, j \in 1..Len(p) : i < j => p[i].seq < p[j].seq
         /\ \A e \in log : e.seq <= LastSeq(p, 0) => \E i \in 1..Len(p) : p[i] = e
<1>1. /\ row.last \in Nat /\ {e.seq : e \in log} = 1..row.last
      /\ \A d, e \in log : d.seq = e.seq => d = e
  BY DEF AllocationInv, GapFree
<1>2. 0 \in 0..row.last
  BY <1>1
<1>3. /\ p \in Seq(Events) /\ Len(p) \in Nat /\ 0 + Len(p) <= row.last
      /\ \A i \in 1..Len(p) : p[i] \in log /\ p[i].seq = 0 + i
      /\ LastSeq(p, 0) = 0 + Len(p)
  BY <1>2, PageContinues
<1>4. LastSeq(p, 0) = Len(p) /\ \A i \in 1..Len(p) : p[i] \in log /\ p[i].seq = i
  BY <1>3
<1>5. \A e \in log : e.seq \in 1..row.last
  BY <1>1
<1>6. ASSUME NEW e \in log, e.seq <= Len(p) PROVE \E i \in 1..Len(p) : p[i] = e
  <2>1. e.seq \in 1..Len(p)
    BY <1>3, <1>5, <1>6
  <2>2. p[e.seq] \in log /\ p[e.seq].seq = e.seq
    BY <1>4, <2>1
  <2> QED BY <1>1, <2>1, <2>2
<1> QED BY <1>1, <1>3, <1>4, <1>6

LEMMA LoadTaskView ==
  ASSUME Inv, NEW v \in Viewers, LoadTask(v)
  PROVE  Inv'
<1>1. /\ UNCHANGED <<writerVars, conn, wire>> /\ viewer[v].phase = "load"
      /\ viewer' = [viewer EXCEPT ![v].phase = "seed", ![v].shown = row.status]
      /\ Watches(v) /\ DOMAIN viewer = Viewers
  BY DEF LoadTask, Inv, ViewInv
<1>2. /\ viewer'[v].phase = "seed" /\ viewer'[v].last = viewer[v].last
      /\ viewer'[v].timeline = viewer[v].timeline
      /\ {"phase", "last", "timeline", "shown"} = DOMAIN viewer'[v]
      /\ \A u \in Viewers \ {v} : viewer'[u] = viewer[u]
  BY <1>1 DEF Watches
<1>3. Watches(v)'
  BY <1>1, <1>2 DEF Watches, Faithful, writerVars
<1> QED BY <1>1, <1>2, <1>3, OneView DEF Inv, ViewInv

LEMMA SeedView ==
  ASSUME Inv, NEW v \in Viewers, Seed(v)
  PROVE  Inv'
<1> DEFINE p == Page(0)
           l == LastSeq(p, 0)
<1>1. /\ UNCHANGED <<writerVars, conn, wire>> /\ viewer[v].phase = "seed"
      /\ viewer' = [viewer EXCEPT ![v].phase = "connect", ![v].timeline = p, ![v].last = l]
      /\ Watches(v) /\ DOMAIN viewer = Viewers
  BY DEF Seed, Inv, ViewInv
<1> HIDE DEF p, l
<1>2. /\ viewer'[v].phase = "connect" /\ viewer'[v].last = l
      /\ viewer'[v].timeline = p
      /\ {"phase", "last", "timeline", "shown"} = DOMAIN viewer'[v]
      /\ \A u \in Viewers \ {v} : viewer'[u] = viewer[u]
  BY <1>1 DEF Watches
<1>3. /\ p \in Seq(Events) /\ l \in 0..row.last
      /\ \A i \in 1..Len(p) : p[i].seq <= l
      /\ \A i, j \in 1..Len(p) : i < j => p[i].seq < p[j].seq
      /\ \A e \in log : e.seq <= l => \E i \in 1..Len(p) : p[i] = e
  BY PageIsFaithful DEF p, l, Inv
<1>4. Faithful(v)'
  BY <1>1, <1>2, <1>3 DEF Faithful, writerVars
<1>5. Watches(v)'
  BY <1>1, <1>2, <1>4 DEF Watches
<1> QED BY <1>1, <1>2, <1>5, OneView DEF Inv, ViewInv

LEMMA ConnectView ==
  ASSUME Inv, NEW v \in Viewers, Connect(v)
  PROVE  Inv'
<1> DEFINE c == [phase |-> "rows", cursor |-> viewer[v].last, batch |-> <<>>]
<1>1. /\ UNCHANGED <<writerVars, wire>> /\ viewer[v].phase = "connect"
      /\ viewer' = [viewer EXCEPT ![v].phase = "live"]
      /\ conn' = [conn EXCEPT ![v] = c]
      /\ Watches(v) /\ DOMAIN viewer = Viewers /\ DOMAIN conn = Viewers
  BY DEF Connect, Opened, ResumeAt, Inv, ViewInv
<1>2. /\ viewer'[v].phase = "live" /\ viewer'[v].last = viewer[v].last
      /\ viewer'[v].timeline = viewer[v].timeline
      /\ {"phase", "last", "timeline", "shown"} = DOMAIN viewer'[v]
      /\ \A u \in Viewers \ {v} : viewer'[u] = viewer[u]
  BY <1>1 DEF Watches
<1>3. /\ conn'[v] = c /\ c.phase = "rows" /\ c.cursor = viewer[v].last
      /\ {"phase", "cursor", "batch"} = DOMAIN c
      /\ \A u \in Viewers \ {v} : conn'[u] = conn[u]
  BY <1>1
<1>4. Faithful(v)'
  BY <1>1, <1>2 DEF Watches, Faithful, writerVars
<1>5. Streams(v)'
  <2>1. wire'[v] = <<>> /\ Len(<<>>) = 0 /\ <<>> \in Seq(Lines)
    BY <1>1 DEF Watches
  <2>2. UnderWay(v)' = 0
    BY <1>3, <2>1 DEF UnderWay
  <2>3. viewer[v].last \in 0..row.last /\ row' = row /\ row.last \in Nat
    BY <1>1 DEF Watches, Faithful, writerVars, Inv, AllocationInv
  <2>4. \A e \in log' : e.seq \in Nat
    BY <1>1 DEF Inv, AllocationInv, Events, writerVars
  <2>5. \A e \in log' : (viewer[v].last < e.seq /\ e.seq <= viewer[v].last) => e.kind \notin Heard
    BY <2>3, <2>4
  <2> HIDE DEF c
  <2> QED BY <1>2, <1>3, <2>1, <2>2, <2>3, <2>5 DEF Streams
<1>6. Watches(v)'
  BY <1>2, <1>3, <1>4, <1>5 DEF Watches
<1> QED BY <1>1, <1>2, <1>3, <1>6, OneView DEF Inv, ViewInv

LEMMA RefreshView ==
  ASSUME Inv, NEW v \in Viewers, Refresh(v)
  PROVE  Inv'
<1>1. /\ UNCHANGED <<writerVars, conn, wire>> /\ viewer[v].phase = "closed"
      /\ viewer' = [viewer EXCEPT ![v].phase = "done", ![v].shown = row.status]
      /\ Watches(v) /\ DOMAIN viewer = Viewers
  BY DEF Refresh, Inv, ViewInv
<1>2. /\ viewer'[v].phase = "done" /\ viewer'[v].last = viewer[v].last
      /\ viewer'[v].timeline = viewer[v].timeline
      /\ {"phase", "last", "timeline", "shown"} = DOMAIN viewer'[v]
      /\ \A u \in Viewers \ {v} : viewer'[u] = viewer[u]
  BY <1>1 DEF Watches
<1>3. Watches(v)'
  BY <1>1, <1>2 DEF Watches, Faithful, writerVars
<1> QED BY <1>1, <1>2, <1>3, OneView DEF Inv, ViewInv

LEMMA DropView ==
  ASSUME Inv, NEW v \in Viewers, Drop(v)
  PROVE  Inv'
<1>1. /\ UNCHANGED writerVars
      /\ viewer' = [viewer EXCEPT ![v].phase = "connect"]
      /\ conn' = [conn EXCEPT ![v] = NoConn] /\ wire' = [wire EXCEPT ![v] = <<>>]
      /\ Watches(v) /\ DOMAIN viewer = Viewers /\ DOMAIN conn = Viewers
      /\ DOMAIN wire = Viewers
  BY DEF Drop, Inv, ViewInv
<1>2. /\ viewer'[v].phase = "connect" /\ viewer'[v].last = viewer[v].last
      /\ viewer'[v].timeline = viewer[v].timeline
      /\ {"phase", "last", "timeline", "shown"} = DOMAIN viewer'[v]
      /\ \A u \in Viewers \ {v} : viewer'[u] = viewer[u]
  BY <1>1 DEF Watches
<1>3. /\ conn'[v].phase = "off" /\ {"phase", "cursor", "batch"} = DOMAIN conn'[v]
      /\ wire'[v] = <<>>
      /\ \A u \in Viewers \ {v} : conn'[u] = conn[u] /\ wire'[u] = wire[u]
  BY <1>1 DEF NoConn
<1>4. Watches(v)'
  BY <1>1, <1>2, <1>3 DEF Watches, Faithful, writerVars
<1> QED BY <1>1, <1>2, <1>3, <1>4, OneView DEF Inv, ViewInv

\* A turn of the generator on a stream nobody reads any more changes nothing else.
LEMMA ReadRowsView ==
  ASSUME Inv, NEW v \in Viewers, ReadRows(v)
  PROVE  Inv'
<1> DEFINE p == Page(conn[v].cursor)
<1>1. /\ UNCHANGED <<writerVars, wire, viewer>> /\ conn[v].phase = "rows"
      /\ conn' = [conn EXCEPT ![v].phase = "status", ![v].batch = p]
      /\ Watches(v) /\ DOMAIN conn = Viewers
  BY DEF ReadRows, Inv, ViewInv
<1> HIDE DEF p
<1>2. /\ conn'[v].phase = "status" /\ conn'[v].cursor = conn[v].cursor /\ conn'[v].batch = p
      /\ {"phase", "cursor", "batch"} = DOMAIN conn'[v]
      /\ \A u \in Viewers \ {v} : conn'[u] = conn[u]
  BY <1>1 DEF Watches
<1>3. Faithful(v)'
  BY <1>1 DEF Watches, Faithful, writerVars
<1>4. CASE viewer[v].phase = "live"
  <2>1. Streams(v)
    BY <1>1, <1>4 DEF Watches
  <2>2. UnderWay(v)' = UnderWay(v)
    BY <1>1, <1>2 DEF UnderWay
  <2>3. conn[v].cursor \in 0..row.last
    BY <2>1 DEF Streams
  <2>4. /\ p \in Seq(Events) /\ conn[v].cursor + Len(p) <= row.last
        /\ \A i \in 1..Len(p) : p[i] \in log /\ p[i].seq = conn[v].cursor + i
    BY <2>3, PageContinues DEF p, Inv
  <2>5. Streams(v)'
    BY <1>1, <1>2, <2>1, <2>2, <2>4 DEF Streams, writerVars
  <2> QED BY <1>1, <1>2, <1>3, <1>4, <2>5, OneView DEF Watches, Inv, ViewInv
<1>5. CASE viewer[v].phase # "live"
  <2>1. Watches(v)'
    BY <1>1, <1>2, <1>3, <1>5 DEF Watches
  <2> QED BY <1>1, <1>2, <2>1, OneView DEF Inv, ViewInv
<1> QED BY <1>4, <1>5

\* What a sequence is after another one is put behind it.
LEMMA Behind ==
  ASSUME NEW S, NEW s \in Seq(S), NEW t \in Seq(S)
  PROVE  /\ s \o t \in Seq(S) /\ Len(s) \in Nat /\ Len(t) \in Nat
         /\ Len(s \o t) = Len(s) + Len(t)
         /\ \A i \in 1..Len(s) : (s \o t)[i] = s[i]
         /\ \A i \in 1..Len(t) : (s \o t)[Len(s) + i] = t[i]
OBVIOUS

LEMMA ReadStatusView ==
  ASSUME Inv, NEW v \in Viewers, ReadStatus(v)
  PROVE  Inv'
<1> DEFINE batch == conn[v].batch
           cur   == conn[v].cursor
           ends  == Ends(row.status, batch)
           tail  == IF ends THEN <<End(row.status)>> ELSE <<>>
           c     == [phase  |-> IF ends THEN "ended" ELSE "rows",
                     cursor |-> LastSeq(batch, cur), batch |-> <<>>]
<1>1. /\ UNCHANGED <<writerVars, viewer>> /\ conn[v].phase = "status"
      /\ wire' = [wire EXCEPT ![v] = @ \o batch \o tail]
      /\ conn' = [conn EXCEPT ![v] = c]
      /\ Watches(v) /\ DOMAIN conn = Viewers /\ DOMAIN wire = Viewers
  BY DEF ReadStatus, Inv, ViewInv
<1> HIDE DEF c, tail, batch, cur, ends
<1>2. /\ c.phase = (IF ends THEN "ended" ELSE "rows") /\ c.cursor = LastSeq(batch, cur)
      /\ {"phase", "cursor", "batch"} = DOMAIN c
  BY DEF c
<1>3. /\ conn'[v] = c /\ wire'[v] = wire[v] \o batch \o tail
      /\ \A u \in Viewers \ {v} : conn'[u] = conn[u] /\ wire'[u] = wire[u]
  BY <1>1
<1>4. Faithful(v)'
  BY <1>1 DEF Watches, Faithful, writerVars
<1>5. CASE viewer[v].phase = "live"
  <2> DEFINE w == wire[v]
             m == Len(w)
             b == Len(batch)
  <2>1. Streams(v) /\ UnderWay(v) = m
    <3>1. Streams(v)
      BY <1>1, <1>5 DEF Watches
    <3>2. m \in Nat
      BY <3>1 DEF Streams
    <3> QED BY <1>1, <3>1, <3>2 DEF UnderWay
  <2>2. /\ cur \in 0..row.last /\ w \in Seq(Lines) /\ m \in Nat
        /\ viewer[v].last <= cur - m
        /\ \A i \in 1..m : w[i] \in log /\ w[i].seq = cur - m + i
        /\ \A e \in log : (viewer[v].last < e.seq /\ e.seq <= cur - m) => e.kind \notin Heard
        /\ batch \in Seq(Events) /\ cur + b <= row.last
        /\ \A i \in 1..b : batch[i] \in log /\ batch[i].seq = cur + i
    BY <1>1, <2>1 DEF Streams, batch, cur
  <2>3. batch \in Seq(Lines) /\ b \in Nat
    BY <2>2 DEF Lines
  <2>4. tail \in Seq(Lines) /\ Len(tail) = (IF ends THEN 1 ELSE 0)
    <3> DEFINE e == End(row.status)
    <3>1. e \in Lines
      BY DEF Lines, Inv
    <3> HIDE DEF e
    <3>2. <<e>> \in Seq(Lines) /\ Len(<<e>>) = 1 /\ <<>> \in Seq(Lines) /\ Len(<<>>) = 0
      BY <3>1
    <3> QED BY <3>2 DEF tail, e
  <2>5. LastSeq(batch, cur) = cur + b
    <3>1. CASE batch = <<>>
      BY <2>2, <3>1 DEF LastSeq
    <3>2. CASE batch # <<>>
      <4>1. b # 0
        BY <2>2, <3>2
      <4>2. b \in 1..b
        BY <2>3, <4>1
      <4> QED BY <2>2, <3>2, <4>2 DEF LastSeq
    <3> QED BY <3>1, <3>2
  <2> DEFINE wb == w \o batch
             new == wb \o tail
  <2>6. /\ wb \in Seq(Lines) /\ Len(wb) = m + b
        /\ \A i \in 1..m : wb[i] = w[i]
        /\ \A i \in 1..b : wb[m + i] = batch[i]
    BY <2>2, <2>3, Behind
  <2>7. /\ new \in Seq(Lines) /\ Len(new) = m + b + Len(tail)
        /\ \A i \in 1..(m + b) : new[i] = wb[i]
        /\ \A i \in 1..Len(tail) : new[m + b + i] = tail[i]
    <3> HIDE DEF wb
    <3>0. wb \in Seq(Lines) /\ tail \in Seq(Lines)
      BY <2>4, <2>6
    <3>1. /\ new \in Seq(Lines) /\ Len(new) = Len(wb) + Len(tail)
          /\ \A i \in 1..Len(wb) : new[i] = wb[i]
          /\ \A i \in 1..Len(tail) : new[Len(wb) + i] = tail[i]
      BY <3>0, Behind
    <3> QED BY <2>6, <3>1
  <2>8. wire'[v] = new
    BY <1>3
  <2> HIDE DEF w, m, b, wb, new
  <2>9. UnderWay(v)' = m + b
    BY <1>2, <1>3, <2>2, <2>3, <2>4, <2>7, <2>8 DEF UnderWay
  <2>10. ASSUME NEW i \in 1..(m + b)
         PROVE  new[i] \in log /\ new[i].seq = cur + b - (m + b) + i
    <3>1. CASE i \in 1..m
      BY <2>2, <2>3, <2>6, <2>7, <3>1
    <3>2. CASE i \notin 1..m
      <4>1. i - m \in 1..b /\ i = m + (i - m)
        BY <2>2, <2>3, <3>2
      <4>2. new[i] = batch[i - m]
        BY <2>6, <2>7, <4>1
      <4>3. batch[i - m] \in log /\ batch[i - m].seq = cur + (i - m)
        BY <2>2, <4>1
      <4> QED BY <2>2, <2>3, <4>1, <4>2, <4>3
    <3> QED BY <3>1, <3>2
  <2>11. ends => new[m + b + 1].seq = 0
    <3> HAVE ends
    <3>1. 1 \in 1..Len(tail) /\ tail[1].seq = 0
      BY <2>4 DEF tail, End
    <3> QED BY <2>7, <3>1
  <2>12. cur + b - (m + b) = cur - m /\ cur + b \in 0..row.last /\ m + b \in Nat
    BY <2>2, <2>3
  <2>13. /\ conn'[v].cursor = cur + b
         /\ conn'[v].phase = (IF ends THEN "ended" ELSE "rows")
         /\ viewer' = viewer /\ row' = row /\ log' = log
    BY <1>1, <1>2, <1>3, <2>5 DEF writerVars
  <2>14. Streams(v)'
    <3> DEFINE n == m + b
    <3>1. /\ UnderWay(v)' = n /\ n \in Nat /\ wire'[v] = new /\ new \in Seq(Lines)
          /\ viewer'[v] = viewer[v] /\ log' = log /\ row' = row
          /\ conn'[v].cursor \in 0..row.last /\ conn'[v].cursor - n = cur - m
          /\ conn'[v].phase \in {"rows", "ended"}
      <4>0. cur \in Int /\ m \in Int /\ b \in Int /\ conn'[v].cursor = cur + b
        BY <2>2, <2>3, <2>13
      <4>1. conn'[v].cursor - n = cur - m
        BY <4>0
      <4>2. conn'[v].cursor \in 0..row.last /\ n \in Nat
        BY <2>12, <2>13
      <4>3. UnderWay(v)' = n /\ wire'[v] = new /\ new \in Seq(Lines)
        BY <2>7, <2>8, <2>9
      <4>4. viewer'[v] = viewer[v] /\ conn'[v].phase \in {"rows", "ended"}
        BY <2>13
      <4> QED BY <4>1, <4>2, <4>3, <4>4, <2>13
    <3>2. conn'[v].phase = "ended" => new[n + 1].seq = 0
      BY <2>11, <2>13
    <3>3. \A i \in 1..n : new[i] \in log /\ new[i].seq = conn'[v].cursor - n + i
      <4>1. conn'[v].cursor = cur + b /\ cur \in Int /\ m \in Int /\ b \in Int
        BY <2>2, <2>3, <2>13
      <4> SUFFICES ASSUME NEW i \in 1..n
                   PROVE  new[i] \in log /\ new[i].seq = conn'[v].cursor - n + i
        OBVIOUS
      <4>2. new[i] \in log /\ new[i].seq = cur + b - (m + b) + i
        BY <2>10
      <4> QED BY <4>1, <4>2
    <3> HIDE DEF n
    <3>4. viewer[v].last <= conn'[v].cursor - n
      <4>1. viewer[v].last <= cur - m /\ conn'[v].cursor - n = cur - m
        BY <2>2, <3>1
      <4> QED BY <4>1
    <3>5. \A e \in log : (viewer[v].last < e.seq /\ e.seq <= conn'[v].cursor - n)
                            => e.kind \notin Heard
      <4>1. \A e \in log : (viewer[v].last < e.seq /\ e.seq <= cur - m) => e.kind \notin Heard
        BY <2>2
      <4>2. conn'[v].cursor - n = cur - m
        BY <3>1
      <4> HIDE DEF m
      <4> QED BY <4>1, <4>2
    <3> QED BY <3>1, <3>2, <3>3, <3>4, <3>5 DEF Streams
  <2>15. Watches(v)'
    BY <1>1, <1>2, <1>3, <1>4, <1>5, <2>14 DEF Watches
  <2> QED BY <1>1, <1>3, <2>15, OneView DEF Inv, ViewInv
<1>6. CASE viewer[v].phase # "live"
  <2>1. Watches(v)'
    BY <1>1, <1>2, <1>3, <1>4, <1>6 DEF Watches
  <2> QED BY <1>1, <1>3, <2>1, OneView DEF Inv, ViewInv
<1> QED BY <1>5, <1>6

LEMMA HeadAndTail ==
  ASSUME NEW S, NEW s \in Seq(S), s # <<>>
  PROVE  /\ Len(s) \in Nat \ {0} /\ Head(s) = s[1] /\ Head(s) \in S
         /\ Tail(s) \in Seq(S) /\ Len(Tail(s)) = Len(s) - 1
         /\ \A i \in 1..(Len(s) - 1) : Tail(s)[i] = s[i + 1]
OBVIOUS

\* An event that is heard next is the next that would be heard, and goes last.
LEMMA HearFaithful ==
  ASSUME AllocationInv, NEW v \in Viewers, Faithful(v), NEW e \in log, e.seq > viewer[v].last,
         \A d \in log : (viewer[v].last < d.seq /\ d.seq < e.seq) => d.kind \notin Heard,
         log' = log, row' = row,
         viewer'[v].last = e.seq, viewer'[v].timeline = Append(viewer[v].timeline, e)
  PROVE  Faithful(v)'
<1> DEFINE t == viewer[v].timeline
           l == viewer[v].last
           m == Len(t)
           u == Append(t, e)
<1>1. /\ l \in Nat /\ t \in Seq(Events) /\ m \in Nat /\ row.last \in Nat
      /\ \A i \in 1..m : t[i] \in Events /\ t[i].seq <= l
      /\ \A i, j \in 1..m : i < j => t[i].seq < t[j].seq
      /\ \A d \in log : (d.seq <= l /\ d.kind \in Heard) => \E i \in 1..m : t[i] = d
  <2>1. row.last \in Nat /\ l \in 0..row.last /\ t \in Seq(Events)
    BY DEF Faithful, AllocationInv
  <2>2. \A i \in 1..m : t[i] \in Events
    BY <2>1
  <2>3. /\ \A i \in 1..m : t[i].seq <= l
        /\ \A i, j \in 1..m : i < j => t[i].seq < t[j].seq
        /\ \A d \in log : (d.seq <= l /\ d.kind \in Heard) => \E i \in 1..m : t[i] = d
    BY DEF Faithful
  <2> HIDE DEF l, t
  <2> QED BY <2>1, <2>2, <2>3
<1>2. /\ \A d \in log : d.seq \in 1..row.last
      /\ \A c, d \in log : c.seq = d.seq => c = d
      /\ log \subseteq Events
  BY DEF AllocationInv, GapFree
<1>3. e \in Events /\ e.seq \in 1..row.last /\ e.seq > l
  BY <1>2
<1>4. /\ u \in Seq(Events) /\ Len(u) = m + 1 /\ u[m + 1] = e
      /\ \A i \in 1..m : u[i] = t[i]
  BY <1>1, <1>3
<1>5. \A d \in log : (l < d.seq /\ d.seq < e.seq) => d.kind \notin Heard
  OBVIOUS
<1>6. \A i \in 1..m : t[i].seq \in Nat
  BY <1>1 DEF Events
<1>7. viewer'[v].last = e.seq /\ viewer'[v].timeline = u /\ log' = log /\ row' = row
  OBVIOUS
<1> HIDE DEF t, l, m, u
<1>8. ASSUME NEW i \in 1..Len(u) PROVE u[i].seq <= e.seq
  BY <1>1, <1>3, <1>4, <1>6
<1>9. ASSUME NEW i \in 1..Len(u), NEW j \in 1..Len(u), i < j PROVE u[i].seq < u[j].seq
  <2>1. i \in 1..m /\ u[i] = t[i]
    BY <1>1, <1>4, <1>9
  <2>2. CASE j \in 1..m
    BY <1>1, <1>4, <1>9, <2>1, <2>2
  <2>3. CASE j \notin 1..m
    <3>1. u[j] = e
      BY <1>1, <1>4, <2>3
    <3> QED BY <1>1, <1>3, <1>6, <2>1, <3>1
  <2> QED BY <2>2, <2>3
<1>10. ASSUME NEW d \in log, d.seq <= e.seq, d.kind \in Heard
       PROVE  \E i \in 1..Len(u) : u[i] = d
  <2>0. d.seq \in Nat /\ m + 1 \in 1..Len(u) /\ \A i \in 1..m : i \in 1..Len(u)
    BY <1>1, <1>2, <1>4
  <2>1. CASE d.seq <= l
    <3>1. PICK i \in 1..m : t[i] = d
      BY <1>1, <1>10, <2>1
    <3> QED BY <1>4, <2>0, <3>1
  <2>2. CASE d.seq > l
    <3>1. d.seq = e.seq
      BY <1>1, <1>3, <1>5, <1>10, <2>0, <2>2
    <3> QED BY <1>2, <1>4, <2>0, <3>1
  <2> QED BY <1>1, <2>0, <2>1, <2>2
<1>11. e.seq \in 0..row.last
  BY <1>1, <1>3
<1> QED BY <1>4, <1>7, <1>8, <1>9, <1>10, <1>11 DEF Faithful

LEMMA ReceiveView ==
  ASSUME Inv, NEW v \in Viewers, Receive(v)
  PROVE  Inv'
<1> DEFINE w    == wire[v]
           e    == Head(w)
           seen == viewer[v]
           cur  == conn[v].cursor
           n    == UnderWay(v)
           new  == Hears(seen, e)
<1>1. /\ UNCHANGED <<writerVars, conn>> /\ seen.phase = "live" /\ w # <<>>
      /\ wire' = [wire EXCEPT ![v] = Tail(w)]
      /\ Watches(v) /\ DOMAIN viewer = Viewers /\ DOMAIN wire = Viewers
      /\ DOMAIN conn = Viewers
  BY DEF Receive, Inv, ViewInv
<1>2. viewer' = [viewer EXCEPT ![v] = new]
  BY DEF Receive
<1> HIDE DEF new, Hears
<1>3. /\ viewer'[v] = new /\ wire'[v] = Tail(w)
      /\ \A u \in Viewers \ {v} : viewer'[u] = viewer[u] /\ wire'[u] = wire[u]
  BY <1>1, <1>2
<1>4. /\ Faithful(v) /\ Streams(v)
      /\ {"phase", "last", "timeline", "shown"} = DOMAIN seen
      /\ {"phase", "cursor", "batch"} = DOMAIN conn[v]
  BY <1>1 DEF Watches
<1>5. Len(w) \in Nat \ {0} /\ e = w[1] /\ Tail(w) \in Seq(Lines) /\ Len(Tail(w)) = Len(w) - 1
      /\ \A i \in 1..(Len(w) - 1) : Tail(w)[i] = w[i + 1]
  BY <1>1, <1>4, HeadAndTail DEF Streams
<1>6. CASE e.seq = 0
  <2>1. /\ new.phase = "closed" /\ new.last = seen.last /\ new.timeline = seen.timeline
        /\ {"phase", "last", "timeline", "shown"} = DOMAIN new
    BY <1>4, <1>6 DEF new, Hears
  <2>2. Faithful(v)'
    <3>1. /\ viewer'[v].last = viewer[v].last /\ viewer'[v].timeline = viewer[v].timeline
          /\ log' = log /\ row' = row /\ Faithful(v)
      BY <1>1, <1>3, <1>4, <2>1 DEF writerVars
    <3> QED BY <3>1 DEF Faithful
  <2>3. Watches(v)'
    BY <1>1, <1>3, <1>4, <2>1, <2>2 DEF Watches
  <2> QED BY <1>1, <1>2, <1>3, <2>3, OneView DEF Inv, ViewInv
<1>7. CASE e.seq # 0
  <2>1. /\ n \in Nat /\ cur \in 0..row.last /\ seen.last <= cur - n
        /\ \A i \in 1..n : w[i] \in log /\ w[i].seq = cur - n + i
        /\ conn[v].phase = "ended" => w[n + 1].seq = 0
        /\ \A d \in log : (seen.last < d.seq /\ d.seq <= cur - n) => d.kind \notin Heard
        /\ seen.last \in 0..row.last /\ row.last \in Nat
    BY <1>4 DEF Streams, Faithful, Inv, AllocationInv
  <2>2. n = Len(w) - (IF conn[v].phase = "ended" THEN 1 ELSE 0)
    BY DEF UnderWay
  <2>3. UnderWay(v)' = Len(w) - 1 - (IF conn[v].phase = "ended" THEN 1 ELSE 0)
    BY <1>1, <1>3, <1>5 DEF UnderWay
  <2> HIDE DEF n, w, cur, seen, e
  <2>4. n # 0
    <3> SUFFICES ASSUME n = 0 PROVE FALSE
      OBVIOUS
    <3>1. conn[v].phase = "ended"
      BY <1>5, <2>2
    <3> QED BY <1>5, <1>7, <2>1, <3>1
  <2>5. 1 \in 1..n /\ n - 1 \in Nat
    BY <2>1, <2>4
  <2>6. e \in log /\ e.seq = cur - n + 1
    BY <1>5, <2>1, <2>5
  <2>7. \A d \in log : d.seq \in 1..row.last
    BY DEF Inv, AllocationInv, GapFree
  <2>8. e.seq > seen.last
    BY <2>1, <2>6
  <2>9. UnderWay(v)' = n - 1
    BY <1>5, <2>1, <2>2, <2>3
  <2>10. ASSUME NEW i \in 1..(n - 1)
         PROVE  Tail(w)[i] \in log /\ Tail(w)[i].seq = cur - (n - 1) + i
    <3>0. n <= Len(w) /\ Len(w) \in Nat /\ n \in Nat
      BY <1>5, <2>1, <2>2
    <3>1. i + 1 \in 1..n /\ i \in 1..(Len(w) - 1)
      BY <3>0
    <3>2. Tail(w)[i] = w[i + 1]
      BY <1>5, <3>1
    <3>3. w[i + 1] \in log /\ w[i + 1].seq = cur - n + (i + 1)
      BY <2>1, <3>1
    <3>4. cur - n + (i + 1) = cur - (n - 1) + i
      BY <2>1, <2>5
    <3> QED BY <3>2, <3>3, <3>4
  <2>11. conn[v].phase = "ended" => Tail(w)[(n - 1) + 1].seq = 0
    <3> HAVE conn[v].phase = "ended"
    <3>1. n \in 1..(Len(w) - 1) /\ (n - 1) + 1 = n
      BY <1>5, <2>1, <2>2, <2>4
    <3> QED BY <1>5, <2>1, <3>1
  <2>12. CASE e.kind \in Heard
    <3>1. /\ new.phase = "live" /\ new.last = e.seq /\ new.timeline = Append(seen.timeline, e)
          /\ {"phase", "last", "timeline", "shown"} = DOMAIN new
      BY <1>1, <1>4, <1>7, <2>8, <2>12 DEF new, Hears, seen
    <3>2. \A d \in log : (seen.last < d.seq /\ d.seq < e.seq) => d.kind \notin Heard
      BY <2>1, <2>6, <2>7
    <3>3. Faithful(v)'
      BY <1>1, <1>3, <1>4, <2>6, <2>8, <3>1, <3>2, HearFaithful DEF writerVars, seen, Inv
    <3>4. \A d \in log : (e.seq < d.seq /\ d.seq <= cur - (n - 1)) => d.kind \notin Heard
      BY <2>1, <2>6, <2>7
    <3>5. e.seq <= cur - (n - 1)
      BY <2>1, <2>6
    <3>6. Streams(v)'
      BY <1>1, <1>3, <1>4, <1>5, <2>1, <2>5, <2>9, <2>10, <2>11, <3>1, <3>4, <3>5
         DEF Streams, writerVars, cur
    <3>7. Watches(v)'
      BY <1>1, <1>3, <1>4, <3>1, <3>3, <3>6 DEF Watches
    <3> QED BY <1>1, <1>2, <1>3, <3>7, OneView DEF Inv, ViewInv
  <2>13. CASE e.kind \notin Heard
    <3>1. new = seen
      BY <1>7, <2>13 DEF new, Hears
    <3>2. Faithful(v)'
      BY <1>1, <1>3, <1>4, <3>1 DEF Faithful, writerVars, seen
    <3>3. \A d \in log : (seen.last < d.seq /\ d.seq <= cur - (n - 1)) => d.kind \notin Heard
      <4> SUFFICES ASSUME NEW d \in log, seen.last < d.seq, d.seq <= cur - (n - 1)
                   PROVE  d.kind \notin Heard
        OBVIOUS
      <4>1. CASE d.seq <= cur - n
        BY <2>1, <4>1
      <4>2. CASE ~(d.seq <= cur - n)
        <5>1. d.seq = e.seq
          BY <2>1, <2>6, <2>7, <4>2
        <5> QED BY <2>6, <2>13, <5>1 DEF Inv, AllocationInv, GapFree
      <4> QED BY <4>1, <4>2
    <3>4. seen.last <= cur - (n - 1)
      BY <2>1
    <3>5. Streams(v)'
      BY <1>1, <1>3, <1>4, <1>5, <2>1, <2>5, <2>9, <2>10, <2>11, <3>1, <3>3, <3>4
         DEF Streams, writerVars, cur, seen
    <3>6. Watches(v)'
      BY <1>1, <1>3, <1>4, <3>1, <3>2, <3>5 DEF Watches, seen
    <3> QED BY <1>1, <1>2, <1>3, <3>6, OneView DEF Inv, ViewInv
  <2> QED BY <2>12, <2>13
<1> QED BY <1>6, <1>7

-----------------------------------------------------------------------------

\* Whatever is logged, lost and reconnected, and however the pages are cut, the
\* timeline on every desktop is in order and misses nothing it listens for up to
\* the sequence it would resume from (events.ts, use-connected-task.ts): the page
\* that seeded it, the pages sent since and the page being read join without a gap.
THEOREM TimelinesAreFaithful == Spec => []TimelineIsFaithful
<1>1. Init => Inv
  <2> SUFFICES ASSUME Init PROVE Inv
    OBVIOUS
  <2>1. AllocationInv
    <3>1. {e.seq : e \in log} = 1..row.last
      BY DEF Init
    <3>2. log \in SUBSET Events
      BY StreamAssumption DEF Init, Events
    <3> QED BY <3>1, <3>2 DEF Init, AllocationInv, GapFree, NoTx
  <2>2. row.status \in Status
    BY DEF Init, Status
  <2>3. ASSUME NEW v \in Viewers PROVE Watches(v)
    <3>1. /\ viewer[v] = NewViewer /\ conn[v] = NoConn /\ wire[v] = <<>>
          /\ \A e \in log : e.seq = 1
      BY DEF Init
    <3>2. Faithful(v)
      BY <3>1, <2>1 DEF Faithful, NewViewer, AllocationInv
    <3> QED BY <3>1, <3>2 DEF Watches, NewViewer, NoConn
  <2> QED BY <2>1, <2>2, <2>3 DEF Init, Inv, ViewInv
<1>2. Inv /\ [Next]_vars => Inv'
  <2> SUFFICES ASSUME Inv, [Next]_vars PROVE Inv'
    OBVIOUS
  <2>1. ASSUME NEW w \in Writers, WriterStep(w) PROVE Inv'
    BY <2>1, WriterView
  <2>2. ASSUME NEW v \in Viewers, ServerStep(v) PROVE Inv'
    BY <2>2, ReadRowsView, ReadStatusView DEF ServerStep
  <2>3. ASSUME NEW v \in Viewers, ViewerStep(v) PROVE Inv'
    BY <2>3, LoadTaskView, SeedView, ConnectView, ReceiveView, RefreshView DEF ViewerStep
  <2>4. ASSUME NEW v \in Viewers, Drop(v) PROVE Inv'
    BY <2>4, DropView
  <2>5. ASSUME UNCHANGED vars PROVE Inv'
    <3>1. Grows /\ UNCHANGED viewerVars /\ UNCHANGED writerVars
      BY <2>5 DEF vars, writerVars, viewerVars, Inv, AllocationInv, Grows, Events
    <3>2. AllocationInv' /\ row'.status \in Status
      BY <2>5 DEF vars, Inv, AllocationInv, Allocating, GapFree
    <3>3. \A v \in Viewers : Watches(v)'
      BY <3>1, WatchesOn DEF viewerVars, Inv, ViewInv
    <3> QED BY <3>1, <3>2, <3>3 DEF viewerVars, Inv, ViewInv
  <2> QED BY <2>1, <2>2, <2>3, <2>4, <2>5 DEF Next
<1>3. Inv => TimelineIsFaithful
  <2> SUFFICES ASSUME Inv PROVE TimelineIsFaithful
    OBVIOUS
  <2>1. ASSUME NEW v \in Viewers
        PROVE  Faithful(v) /\ DOMAIN viewer[v].timeline = 1..Len(viewer[v].timeline)
    BY DEF Inv, ViewInv, Watches, Faithful
  <2> QED BY <2>1 DEF TimelineIsFaithful, Faithful
<1> QED BY <1>1, <1>2, <1>3, PTL DEF Spec

=============================================================================
