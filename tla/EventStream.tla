------------------------------ MODULE EventStream ------------------------------
(***************************************************************************)
(* The event log of one execution and the people who watch it: the         *)
(* transactions that emit events (services/event_service, repositories),   *)
(* the SSE generator behind GET /executions/{id}/stream, which reads the   *)
(* log page by page, and the desktop that shows a timeline and reconnects  *)
(* from the last sequence it has seen (desktop/lib/api/events.ts,          *)
(* desktop/hooks/use-connected-task.ts).                                   *)
(*                                                                         *)
(* What the transactions are about is ControlPlane's matter; here each is  *)
(* the list of events it emits and the status it leaves.  An operator that *)
(* comes right before another one and lengthens its name is a seeded fault.*)
(***************************************************************************)
EXTENDS StateMachine, Naturals, SequencesExt

CONSTANTS
  Writers,        \* sessions that emit events
  Viewers,        \* desktops that show the task
  NoWriter,       \* the holder of a free lock
  Kinds,          \* event types
  Created,        \* the event type of a task's creation
  Heard,          \* event types the desktop listens for
  ShownAs,        \* EVENT_TO_STATUS: the status an event type implies, or Keep
  Transactions,   \* [from, emits, to]: statuses it starts from, events, outcome
  Limit,          \* page size of list_events_after
  MaxTransactions,\* bound: transactions begun
  MaxDrops        \* bound: connections lost

Keep == "KEEP"    \* a transaction that leaves the status alone

ASSUME StreamAssumption ==
  /\ NoWriter \notin Writers
  /\ Created \in Kinds /\ Heard \subseteq Kinds
  /\ ShownAs \in [Kinds -> Status \cup {Keep}]
  /\ Limit \in Nat \ {0} /\ MaxTransactions \in Nat /\ MaxDrops \in Nat
  /\ \A t \in Transactions :
       /\ t.from \subseteq Status
       /\ t.emits \in Seq(Kinds) \ {<<>>}
       /\ t.to \in Status \cup {Keep}

VARIABLES
  row,     \* the committed execution row: last_sequence and status
  log,     \* the committed events
  lock,    \* the writer that holds the execution row
  tx,      \* the transaction of each writer
  begun,   \* transactions begun, for the bound
  final,   \* history: last_sequence when the execution last became terminal
  conn,    \* the server's end of each viewer's stream
  wire,    \* what the server sent and the viewer has not received
  viewer,  \* the desktop
  drops    \* connections lost, for the bound

writerVars == <<row, log, lock, tx, begun, final>>
viewerVars == <<conn, wire, viewer, drops>>
vars == <<row, log, lock, tx, begun, final, conn, wire, viewer, drops>>

Events == [seq : Nat \ {0}, kind : Kinds]

-----------------------------------------------------------------------------
(* Emitting.                                                               *)

NoTx == [on |-> FALSE, of |-> <<>>, to |-> Keep, rows |-> {}]

Begin(w) ==
  /\ ~tx[w].on
  /\ begun < MaxTransactions
  /\ begun' = begun + 1
  /\ \E t \in Transactions :
       /\ row.status \in t.from
       /\ tx' = [tx EXCEPT ![w] = [on |-> TRUE, of |-> t.emits, to |-> t.to, rows |-> {}]]
  /\ UNCHANGED <<row, log, lock, final, viewerVars>>

\* UPDATE ... SET last_sequence = last_sequence + 1 takes the row lock, which
\* lasts until the transaction ends, and is read back with the own updates.
HoldBriefly(w) == lock = NoWriter /\ UNCHANGED lock

Hold(w) == lock \in {NoWriter, w} /\ lock' = w

Allocated(stored, own) == stored + own + 1

Emit(w) ==
  LET n == Cardinality(tx[w].rows) IN
  /\ tx[w].on
  /\ n < Len(tx[w].of)
  /\ Hold(w)
  /\ tx' = [tx EXCEPT ![w].rows = @ \cup {[seq  |-> Allocated(row.last, n),
                                           kind |-> tx[w].of[n + 1]]}]
  /\ UNCHANGED <<row, log, begun, final, viewerVars>>

Commit(w) ==
  LET n      == Cardinality(tx[w].rows)
      status == IF tx[w].to = Keep THEN row.status ELSE tx[w].to
  IN
  /\ tx[w].on
  /\ n = Len(tx[w].of)
  /\ row' = [last |-> row.last + n, status |-> status]
  /\ log' = log \cup tx[w].rows
  /\ final' = IF IsTerminal(status) /\ ~IsTerminal(row.status) THEN row.last + n ELSE final
  /\ lock' = NoWriter
  /\ tx' = [tx EXCEPT ![w] = NoTx]
  /\ UNCHANGED <<begun, viewerVars>>

\* The transaction fails or its process dies: its sequences were never used.
Abort(w) ==
  /\ tx[w].on
  /\ tx' = [tx EXCEPT ![w] = NoTx]
  /\ lock' = IF lock = w THEN NoWriter ELSE lock
  /\ UNCHANGED <<row, log, begun, final, viewerVars>>

-----------------------------------------------------------------------------
(* Serving the stream.                                                     *)

\* list_events_after: the next page of committed events, oldest first.  The
\* sequence is unique (uq_event_exec_seq), so an event's rank is its place.
After(seq) == {e \in log : e.seq > seq}
Rank(e, events) == Cardinality({d \in events : d.seq <= e.seq})
Page(seq) ==
  LET events == After(seq)
  IN [i \in 1..Min({Cardinality(events), Limit}) |->
        CHOOSE e \in events : Rank(e, events) = i]

LastSeq(events, default) == IF events = <<>> THEN default ELSE events[Len(events)].seq

NoConn == [phase |-> "off", cursor |-> 0, batch |-> <<>>]

\* stream.end carries the status; it has no sequence.
End(status) == [seq |-> 0, kind |-> status]

\* One turn of event_generator reads the rows and then, in a statement of its
\* own, the execution.
ReadRows(v) ==
  /\ conn[v].phase = "rows"
  /\ conn' = [conn EXCEPT ![v].phase = "status", ![v].batch = Page(conn[v].cursor)]
  /\ UNCHANGED <<writerVars, wire, viewer, drops>>

EndsNever(status, batch) == IsTerminal(status) /\ batch # <<>>
Ends(status, batch) == IsTerminal(status) /\ batch = <<>>

ReadStatus(v) ==
  /\ conn[v].phase = "status"
  /\ LET batch == conn[v].batch
         ends  == Ends(row.status, batch)
     IN /\ wire' = [wire EXCEPT ![v] = @ \o batch \o (IF ends THEN <<End(row.status)>> ELSE <<>>)]
        /\ conn' = [conn EXCEPT ![v] = [phase  |-> IF ends THEN "ended" ELSE "rows",
                                        cursor |-> LastSeq(batch, @.cursor),
                                        batch  |-> <<>>]]
  /\ UNCHANGED <<writerVars, viewer, drops>>

-----------------------------------------------------------------------------
(* Watching it.                                                            *)

NewViewer == [phase |-> "load", last |-> 0, timeline |-> <<>>, shown |-> "QUEUED"]

\* load: the task, then everything already persisted that one page holds.
LoadTask(v) ==
  /\ viewer[v].phase = "load"
  /\ viewer' = [viewer EXCEPT ![v].phase = "seed", ![v].shown = row.status]
  /\ UNCHANGED <<writerVars, conn, wire, drops>>

Seed(v) ==
  /\ viewer[v].phase = "seed"
  /\ viewer' = [viewer EXCEPT ![v].phase    = "connect",
                              ![v].timeline = Page(0),
                              ![v].last     = LastSeq(Page(0), 0)]
  /\ UNCHANGED <<writerVars, conn, wire, drops>>

\* connect: the stream is asked for what follows the last sequence seen.
ResumeCounted(v) == Len(viewer[v].timeline)
ResumeAt(v) == viewer[v].last

\* stream_events: the server's end of a new connection starts after it.
Opened(v) == [phase |-> "rows", cursor |-> ResumeAt(v), batch |-> <<>>]

Connect(v) ==
  /\ viewer[v].phase = "connect"
  /\ viewer' = [viewer EXCEPT ![v].phase = "live"]
  /\ conn' = [conn EXCEPT ![v] = Opened(v)]
  /\ UNCHANGED <<writerVars, wire, drops>>

Implied(status, e) == IF ShownAs[e.kind] = Keep THEN status ELSE ShownAs[e.kind]

\* handleData sees the event types that have a listener; stream.end closes.
Hears(seen, e) ==
  IF e.seq = 0 THEN [seen EXCEPT !.phase = "closed", !.shown = e.kind]
  ELSE IF e.kind \in Heard
    THEN [seen EXCEPT !.timeline = Append(seen.timeline, e),
                      !.last     = IF e.seq > seen.last THEN e.seq ELSE seen.last,
                      !.shown    = Implied(seen.shown, e)]
    ELSE seen

Receive(v) ==
  /\ viewer[v].phase = "live"
  /\ wire[v] # <<>>
  /\ wire' = [wire EXCEPT ![v] = Tail(@)]
  /\ viewer' = [viewer EXCEPT ![v] = Hears(viewer[v], Head(wire[v]))]
  /\ UNCHANGED <<writerVars, conn, drops>>

\* onEnd: the task is read again once the stream is closed.
Refresh(v) ==
  /\ viewer[v].phase = "closed"
  /\ viewer' = [viewer EXCEPT ![v].phase = "done", ![v].shown = row.status]
  /\ UNCHANGED <<writerVars, conn, wire, drops>>

\* onerror: the connection is lost with all that was under way on it.
Drop(v) ==
  /\ viewer[v].phase = "live"
  /\ drops < MaxDrops
  /\ drops' = drops + 1
  /\ viewer' = [viewer EXCEPT ![v].phase = "connect"]
  /\ conn' = [conn EXCEPT ![v] = NoConn]
  /\ wire' = [wire EXCEPT ![v] = <<>>]
  /\ UNCHANGED writerVars

-----------------------------------------------------------------------------

\* The transaction that created the execution has emitted the first event.
Init ==
  /\ row = [last |-> 1, status |-> "QUEUED"]
  /\ log = {[seq |-> 1, kind |-> Created]}
  /\ lock = NoWriter
  /\ tx = [w \in Writers |-> NoTx]
  /\ begun = 0
  /\ final = 0
  /\ conn = [v \in Viewers |-> NoConn]
  /\ wire = [v \in Viewers |-> <<>>]
  /\ viewer = [v \in Viewers |-> NewViewer]
  /\ drops = 0

WriterStep(w) == Begin(w) \/ Emit(w) \/ Commit(w) \/ Abort(w)
ServerStep(v) == ReadRows(v) \/ ReadStatus(v)
ViewerStep(v) == LoadTask(v) \/ Seed(v) \/ Connect(v) \/ Receive(v) \/ Refresh(v)

Next ==
  \/ \E w \in Writers : WriterStep(w)
  \/ \E v \in Viewers : ServerStep(v) \/ ViewerStep(v) \/ Drop(v)

Spec == Init /\ [][Next]_vars

\* The generator polls until it ends, and the desktop handles what arrives.
FairSpec == Spec /\ \A v \in Viewers : WF_vars(ServerStep(v)) /\ WF_vars(ViewerStep(v))

-----------------------------------------------------------------------------
(* Properties.                                                             *)

TypeOK ==
  /\ row \in [last : Nat, status : Status]
  /\ log \in SUBSET Events
  /\ lock \in Writers \cup {NoWriter}
  /\ tx \in [Writers -> [on : BOOLEAN, of : Seq(Kinds), to : Status \cup {Keep},
                         rows : SUBSET Events]]
  /\ begun \in Nat /\ final \in Nat /\ drops \in Nat
  /\ conn \in [Viewers -> [phase : {"off", "rows", "status", "ended"}, cursor : Nat,
                           batch : Seq(Events)]]
  /\ wire \in [Viewers -> Seq(Events \cup {End(s) : s \in Status})]
  /\ viewer \in [Viewers -> [phase : {"load", "seed", "connect", "live", "closed", "done"},
                             last : Nat, timeline : Seq(Events), shown : Status]]

\* "gap-free from 1" (test_chaos_reliability): what is committed is numbered
\* 1, 2, ... without gap or repetition, whatever transactions overlap or fail,
\* so that a cursor never passes an event that is not visible yet.
GapFree ==
  /\ {e.seq : e \in log} = 1..row.last
  /\ \A d, e \in log : d.seq = e.seq => d = e

\* The desktop's timeline is in order, repeats nothing and, of the events it
\* listens for, misses none up to the sequence it would reconnect from; pages,
\* drops and reconnections included (events.ts, use-connected-task.ts).
TimelineIsFaithful ==
  \A v \in Viewers :
    LET shown == viewer[v].timeline IN
    /\ \A i, j \in DOMAIN shown : i < j => shown[i].seq < shown[j].seq
    /\ \A e \in log : (e.seq <= viewer[v].last /\ e.kind \in Heard) =>
                         \E i \in DOMAIN shown : shown[i] = e

\* Once an execution has ended for good, every desktop is told and shows it.
StreamEnds ==
  \A v \in Viewers :
    <>[]IsTerminal(row.status) => <>(viewer[v].phase = "done")

\* "Close cleanly once terminal and the client has caught up" (stream_events):
\* a stream that ended has sent all that was logged when the execution ended.
EndMeansCaughtUp == \A v \in Viewers : conn[v].phase = "ended" => conn[v].cursor >= final

-----------------------------------------------------------------------------
(* Why the log is gap-free: only the holder of the execution row has       *)
(* allocated sequences, and they continue the committed ones.              *)

Allocating(w) ==
  LET rows == tx[w].rows IN
  /\ rows \in SUBSET Events
  /\ IsFiniteSet(rows)
  /\ {e.seq : e \in rows} = (row.last + 1)..(row.last + Cardinality(rows))
  /\ \A d, e \in rows : d.seq = e.seq => d = e

AllocationInv ==
  /\ row.last \in Nat
  /\ log \in SUBSET Events
  /\ tx \in [Writers -> [on : BOOLEAN, of : Seq(Kinds), to : Status \cup {Keep},
                         rows : SUBSET Events]]
  /\ \A w \in Writers : /\ tx[w].on => tx[w].of # <<>>
                        /\ tx[w].rows # {} => lock = w /\ Allocating(w)
  /\ GapFree

=============================================================================
