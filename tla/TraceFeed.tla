------------------------------- MODULE TraceFeed -------------------------------
(***************************************************************************)
(* The trace recorder (TraceRecorder, observability/tracing.py) and the    *)
(* live event feed of the console (ws_events, internal_api.py).            *)
(*                                                                         *)
(* The thread of sippy records events; the feed polls the recorder from    *)
(* the event loop of the API server.  Each method of the recorder holds    *)
(* its lock and is one step, but a poll calls two of them and then waits   *)
(* for the websocket, and events are recorded in between.                  *)
(***************************************************************************)
EXTENDS Naturals, Sequences, FiniteSets, SequencesExt

CONSTANTS
  CallIds,      \* the Call-IDs of the calls
  MaxCalls,     \* max_calls: how many traces are retained
  MaxTraces,    \* _WS_MAX_TRACES: how many traces a poll reads
  MaxRecords    \* bound: events recorded

ASSUME FeedAssumption ==
  MaxCalls \in Nat \ {0} /\ MaxTraces \in Nat \ {0} /\ MaxRecords \in Nat

VARIABLES
  log,     \* the Call-ID of every event recorded, in order (history)
  traces,  \* self._traces, the least recently updated first; a trace is known by
           \* its Call-ID and the event it starts with
  feed,    \* the local state of ws_events
  pushed   \* the traces the console was sent (history)

vars == <<log, traces, feed, pushed>>

Ids(ts) == {ts[i].id : i \in DOMAIN ts}

Init ==
  /\ log = <<>>
  /\ traces = <<>>
  /\ feed = [pc |-> "closed", seen |-> {}, current |-> {}, batch |-> {}]
  /\ pushed = {}

-----------------------------------------------------------------------------
(* The recorder.                                                             *)

Place(c) == CHOOSE i \in DOMAIN traces : traces[i].id = c

\* The trace of a call, which starts with the next event when there is none.
TraceOf(c) ==
  IF c \in Ids(traces) THEN traces[Place(c)] ELSE [id |-> c, born |-> Len(log) + 1]

\* The traces of the other calls, in their order.
Others(c) == IF c \in Ids(traces) THEN RemoveAt(traces, Place(c)) ELSE traces

\* Mutant: a trace that is updated keeps its place.
RecordInPlace(c) ==
  /\ Len(log) < MaxRecords
  /\ log' = Append(log, c)
  /\ traces' = IF c \in Ids(traces) THEN traces
               ELSE LET ts == Append(traces, TraceOf(c)) IN
                    IF Len(ts) > MaxCalls THEN Tail(ts) ELSE ts
  /\ UNCHANGED <<feed, pushed>>

\* Mutant: the bound is checked before the trace is added.
RecordAboveBound(c) ==
  /\ Len(log) < MaxRecords
  /\ log' = Append(log, c)
  /\ LET ts == Append(Others(c), TraceOf(c)) IN
     traces' = IF Len(traces) > MaxCalls THEN Tail(ts) ELSE ts
  /\ UNCHANGED <<feed, pushed>>

\* The event is appended to its trace, the trace moves to the end, and the oldest
\* ones are dropped above the bound.
Record(c) ==
  /\ Len(log) < MaxRecords
  /\ log' = Append(log, c)
  /\ LET ts == Append(Others(c), TraceOf(c)) IN
     traces' = IF Len(ts) > MaxCalls THEN Tail(ts) ELSE ts
  /\ UNCHANGED <<feed, pushed>>

\* recent(limit)
Recent(limit) ==
  {traces[i] : i \in {j \in DOMAIN traces : j + limit > Len(traces)}}

-----------------------------------------------------------------------------
(* The feed.                                                                 *)

\* The calls known when the console connects are not sent.
Accept ==
  /\ feed.pc = "closed"
  /\ feed' = [feed EXCEPT !.pc = "sleeping", !.seen = Ids(traces)]
  /\ UNCHANGED <<log, traces, pushed>>

\* current_ids and new_ids; a poll that finds no new call keeps what it has seen.
PollKnown ==
  /\ feed.pc = "sleeping"
  /\ Ids(traces) \ feed.seen # {}
  /\ feed' = [feed EXCEPT !.pc = "reading", !.current = Ids(traces)]
  /\ UNCHANGED <<log, traces, pushed>>

\* Mutant: the batch is not restricted to the new calls.
ReadAll ==
  /\ feed.pc = "reading"
  /\ feed' = [feed EXCEPT !.pc = "sending", !.batch = Recent(MaxTraces)]
  /\ UNCHANGED <<log, traces, pushed>>

ReadRecent ==
  /\ feed.pc = "reading"
  /\ feed' = [feed EXCEPT !.pc = "sending",
                          !.batch = {t \in Recent(MaxTraces) :
                                       t.id \in feed.current \ feed.seen}]
  /\ UNCHANGED <<log, traces, pushed>>

\* Mutant: the calls known after the send count as seen.
SendMarksKnown ==
  /\ feed.pc = "sending"
  /\ pushed' = pushed \cup feed.batch
  /\ feed' = [feed EXCEPT !.pc = "sleeping", !.seen = Ids(traces),
                          !.current = {}, !.batch = {}]
  /\ UNCHANGED <<log, traces>>

Send ==
  /\ feed.pc = "sending"
  /\ pushed' = pushed \cup feed.batch
  /\ feed' = [feed EXCEPT !.pc = "sleeping", !.seen = feed.current,
                          !.current = {}, !.batch = {}]
  /\ UNCHANGED <<log, traces>>

\* The send finds the console gone: WebSocketDisconnect.
Disconnect ==
  /\ feed.pc = "sending"
  /\ feed' = [feed EXCEPT !.pc = "gone"]
  /\ UNCHANGED <<log, traces, pushed>>

-----------------------------------------------------------------------------
Feed == PollKnown \/ ReadRecent \/ Send

Next ==
  \/ \E c \in CallIds : Record(c)
  \/ Accept
  \/ Feed
  \/ Disconnect

Spec == Init /\ [][Next]_vars

\* The event loop of the API server runs the feed; nothing is assumed of the
\* calls, nor of the console.
FairSpec == Spec /\ WF_vars(Feed)

-----------------------------------------------------------------------------
Traces == [id : CallIds, born : 1..MaxRecords]

\* Every variable has its type; the bound on traces is kept and no call has two.
TypeOK ==
  /\ log \in Seq(CallIds)
  /\ Len(log) <= MaxRecords
  /\ traces \in Seq(Traces)
  /\ Len(traces) <= MaxCalls
  /\ \A i, j \in DOMAIN traces : traces[i].id = traces[j].id => i = j
  /\ feed \in [pc : {"closed", "sleeping", "reading", "sending", "gone"},
               seen : SUBSET CallIds, current : SUBSET CallIds, batch : SUBSET Traces]
  /\ pushed \subseteq Traces

\* The last event of a call in a sequence of events, or 0.
LastIn(es, c) ==
  LET events == {i \in DOMAIN es : es[i] = c} IN
  IF events = {} THEN 0 ELSE CHOOSE i \in events : \A j \in events : j <= i

\* The calls retained are the MaxCalls ones updated last, in the order of their
\* last events (record, recent).
LatestAreRetained ==
  /\ Ids(traces) =
       {c \in ToSet(log) :
          Cardinality({d \in CallIds : LastIn(log, d) > LastIn(log, c)}) < MaxCalls}
  /\ \A i, j \in DOMAIN traces :
       i < j => LastIn(log, traces[i].id) < LastIn(log, traces[j].id)

\* No trace is sent to the console twice (ws_events).
PushedOnce == feed.pc = "sending" => feed.batch \cap pushed = {}

\* No more calls are known than a poll reads and the recorder retains.
FewCalls == Cardinality(ToSet(log)) <= MaxTraces /\ Cardinality(ToSet(log)) <= MaxCalls

\* A call counts as seen only when its trace goes out in the same step, however many
\* events were recorded between the two reads of a poll and while it was sent, as long
\* as there are few calls (ws_events).
SeenIsSent ==
  [][feed.pc = "sending" /\ FewCalls =>
       \A c \in feed'.seen \ feed.seen : \E t \in pushed' \ pushed : t.id = c]_vars

\* A new trace is not forgotten because it started while a poll was under way: as long
\* as there are few calls it is sent, or the console is gone (ws_events).
NewCallIsPushed ==
  \A c \in CallIds :
    feed.pc # "closed" /\ c \in Ids(traces) \ feed.seen ~>
      \/ \E t \in pushed : t.id = c
      \/ feed.pc = "gone"
      \/ ~FewCalls

-----------------------------------------------------------------------------
\* "Polls the trace recorder for new calls and pushes them as JSON batches"
\* (ws_events): a call that a poll has newly seen, and that is retained still, was
\* sent.  Refuted: of more new calls than a poll reads, the older ones count as
\* seen and are never sent.
SeenCallWasPushed ==
  [][Send => \A i \in DOMAIN traces :
        traces[i].id \in feed.current \ feed.seen => traces[i] \in pushed']_vars

=============================================================================
