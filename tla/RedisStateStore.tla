---------------------------- MODULE RedisStateStore ----------------------------
(***************************************************************************)
(* The Redis-backed state store: RedisStateStore (state_store.py).         *)
(*                                                                         *)
(* Callers on any thread put a work item on a queue and wait for it, ten   *)
(* seconds at most; a worker thread takes the items one by one and runs    *)
(* them against Redis.  start() makes a worker, stop() asks it to leave    *)
(* and waits two seconds for it; a worker that is still inside a Redis     *)
(* command is left behind, and a later start() makes another one beside    *)
(* it.  The interleavings are those of the threads.                        *)
(*                                                                         *)
(* Redis is the map db and a client that may fail any command, before or   *)
(* after the server has applied it.  SCAN is taken to name every key once. *)
(***************************************************************************)
EXTENDS Naturals, Sequences, FiniteSets

CONSTANTS
  Callers,      \* the threads that use the store
  Keys,         \* the keys of the records
  Values,       \* the records json.dumps(..., default=str) accepts
  JsonOf,       \* what json.loads returns of a dumped record
  Prefixes,     \* the prefixes given to trim
  Family,       \* the keys that carry a prefix
  Limits,       \* the limits given to trim
  None,         \* Python's None
  Requests,     \* the calls the callers make
  MaxItems,     \* bound: work items put on the queue
  MaxStarts     \* bound: calls of start

ASSUME JsonAssumption ==
  /\ JsonOf \in [Values -> Values]
  /\ \A v \in Values : JsonOf[JsonOf[v]] = JsonOf[v]
  /\ None \notin Values
ASSUME FamilyAssumption ==
  /\ Family \in [Prefixes -> SUBSET Keys]
  /\ IsFiniteSet(Keys)
  /\ Limits \subseteq Nat
ASSUME BoundAssumption == MaxItems \in Nat /\ MaxStarts \in Nat

Calls == [op : {"read"}, key : Keys]
    \cup [op : {"write"}, key : Keys, value : Values]
    \cup [op : {"trim"}, key : Prefixes, limit : Limits]
ASSUME RequestAssumption == Requests \subseteq Calls

\* "no_client": the command found self._client gone.
Outcomes == {"pending", "ok", "error", "no_client"}

Generations == 1..MaxStarts

VARIABLES
  items,      \* every work item, in the order they were put on the queue
  taken,      \* how many of them the workers have taken off the queue
  waiting,    \* the item each caller waits for, or 0
  db,         \* the records in Redis
  workers,    \* the worker threads, by call of start
  worker,     \* self._worker: a generation, or 0
  running,    \* self._running
  client,     \* whether self._client is set
  control,    \* where the thread that starts and stops the store is
  starts,     \* how many times start was called
  stragglers, \* the workers stop() has stopped waiting for
  put_before_stop  \* the items put when stop() last asked a worker to leave

lifecycle == <<worker, running, client, control, starts, stragglers, put_before_stop>>
vars == <<items, taken, waiting, db, workers, lifecycle>>

Init ==
  /\ items = <<>>
  /\ taken = 0
  /\ waiting = [c \in Callers |-> 0]
  /\ db \in [Keys -> {JsonOf[v] : v \in Values} \cup {None}]  \* left by earlier processes
  /\ workers = [g \in Generations |-> [pc |-> "new", item |-> 0, victims |-> {}]]
  /\ worker = 0
  /\ running = FALSE
  /\ client = FALSE
  /\ control = "stopped"
  /\ starts = 0
  /\ stragglers = {}
  /\ put_before_stop = 0

Settled(i) == items[i].outcome # "pending"
Alive(g) == workers[g].pc \notin {"new", "exited"}
Present(prefix) == {k \in Family[prefix] : db[k] # None}

-----------------------------------------------------------------------------
(* read, write and trim, on the thread of a caller.                          *)

Call(c, request) ==
  /\ waiting[c] = 0
  /\ Len(items) < MaxItems
  /\ items' = Append(items, [req |-> request, outcome |-> "pending", result |-> None])
  /\ waiting' = [waiting EXCEPT ![c] = Len(items) + 1]
  /\ UNCHANGED <<taken, db, workers, lifecycle>>

\* The worker has set the event: the caller raises the item's error, or returns
\* its result.
Returns(c) ==
  /\ waiting[c] # 0
  /\ Settled(waiting[c])
  /\ waiting' = [waiting EXCEPT ![c] = 0]
  /\ UNCHANGED <<items, taken, db, workers, lifecycle>>

\* Mutant: the wait for the worker has no timeout.
GivesUpNever(c) == FALSE

\* The wait runs out, and its result is not looked at: a read returns None and
\* a write or trim returns, as if the worker had answered.
GivesUp(c) ==
  /\ waiting[c] # 0
  /\ ~Settled(waiting[c])
  /\ waiting' = [waiting EXCEPT ![c] = 0]
  /\ UNCHANGED <<items, taken, db, workers, lifecycle>>

-----------------------------------------------------------------------------
(* _run, on the thread of a worker.                                          *)

Goto(g, pc) == workers' = [workers EXCEPT ![g].pc = pc]

\* item.done(): the outcome is set and the worker goes back to its loop.
Finish(g, outcome, result) ==
  LET i == workers[g].item IN
  /\ items' = [items EXCEPT ![i] = [@ EXCEPT !.outcome = outcome, !.result = result]]
  /\ workers' = [workers EXCEPT ![g] = [pc |-> "idle", item |-> 0, victims |-> {}]]

\* Mutant: the worker leaves as soon as it is asked to.
LeaveAtOnce(g) ==
  /\ workers[g].pc = "idle"
  /\ ~running
  /\ Goto(g, "exited")
  /\ UNCHANGED <<items, taken, waiting, db, lifecycle>>

\* Mutant: the worker blocks on an empty queue.
LeaveNever(g) == FALSE

\* The condition of the loop, looked at after each item and twice a second while
\* the queue is empty: not running, and nothing left on the queue.
Leave(g) ==
  /\ workers[g].pc = "idle"
  /\ ~running
  /\ taken = Len(items)
  /\ Goto(g, "exited")
  /\ UNCHANGED <<items, taken, waiting, db, lifecycle>>

\* Mutant: the item taken is the one put last (a LifoQueue).
GetNewest(g) ==
  /\ workers[g].pc = "idle"
  /\ taken < Len(items)
  /\ taken' = taken + 1
  /\ \E i \in DOMAIN items :
       /\ ~Settled(i)
       /\ \A j \in i + 1 .. Len(items) : Settled(j)
       /\ workers' = [workers EXCEPT ![g] = [pc |-> "run", item |-> i, victims |-> {}]]
  /\ UNCHANGED <<items, waiting, db, lifecycle>>

Get(g) ==
  /\ workers[g].pc = "idle"
  /\ taken < Len(items)
  /\ taken' = taken + 1
  /\ workers' = [workers EXCEPT ![g] = [pc |-> "run", item |-> taken', victims |-> {}]]
  /\ UNCHANGED <<items, waiting, db, lifecycle>>

Running(g, op) ==
  /\ workers[g].pc = "run"
  /\ items[workers[g].item].req.op = op

Request(g) == items[workers[g].item].req

Read(g) ==
  /\ Running(g, "read")
  /\ client
  /\ Finish(g, "ok", db[Request(g).key])
  /\ UNCHANGED <<taken, waiting, db, lifecycle>>

Write(g) ==
  /\ Running(g, "write")
  /\ client
  /\ db' = [db EXCEPT ![Request(g).key] = JsonOf[Request(g).value]]
  /\ Finish(g, "ok", None)
  /\ UNCHANGED <<taken, waiting, lifecycle>>

TrimFits(g) ==
  /\ Running(g, "trim")
  /\ client
  /\ Cardinality(Present(Request(g).key)) <= Request(g).limit
  /\ Finish(g, "ok", None)
  /\ UNCHANGED <<taken, waiting, db, lifecycle>>

\* Mutant: one key too few is evicted.
TrimScansShort(g) ==
  /\ Running(g, "trim")
  /\ client
  /\ \E victims \in SUBSET Present(Request(g).key) :
       /\ victims # {}
       /\ Cardinality(Present(Request(g).key) \ victims) = Request(g).limit + 1
       /\ workers' = [workers EXCEPT ![g].pc = "evict", ![g].victims = victims]
  /\ UNCHANGED <<items, taken, waiting, db, lifecycle>>

\* The keys of the family are listed, and the excess picked by idle time: whole
\* seconds, read one key after the other, so any of them may be picked.
TrimScans(g) ==
  /\ Running(g, "trim")
  /\ client
  /\ \E victims \in SUBSET Present(Request(g).key) :
       /\ victims # {}
       /\ Cardinality(Present(Request(g).key) \ victims) = Request(g).limit
       /\ workers' = [workers EXCEPT ![g].pc = "evict", ![g].victims = victims]
  /\ UNCHANGED <<items, taken, waiting, db, lifecycle>>

\* One DELETE for each victim; the last one ends the item.
TrimEvicts(g) ==
  /\ workers[g].pc = "evict"
  /\ client
  /\ \E k \in workers[g].victims :
       /\ db' = [db EXCEPT ![k] = None]
       /\ IF workers[g].victims = {k}
          THEN Finish(g, "ok", None)
          ELSE /\ workers' = [workers EXCEPT ![g].victims = @ \ {k}]
               /\ UNCHANGED items
  /\ UNCHANGED <<taken, waiting, lifecycle>>

\* What the server does for a command whose answer is lost.
AppliedUnseen(g) ==
  \/ UNCHANGED db
  \/ /\ Running(g, "write")
     /\ db' = [db EXCEPT ![Request(g).key] = JsonOf[Request(g).value]]
  \/ \E k \in workers[g].victims : db' = [db EXCEPT ![k] = None]

RedisFails(g) ==
  /\ workers[g].pc \in {"run", "evict"}
  /\ client
  /\ AppliedUnseen(g)
  /\ Finish(g, "error", None)
  /\ UNCHANGED <<taken, waiting, lifecycle>>

\* 'NoneType' object has no attribute 'get'.
ClientGone(g) ==
  /\ workers[g].pc \in {"run", "evict"}
  /\ ~client
  /\ Finish(g, "no_client", None)
  /\ UNCHANGED <<taken, waiting, db, lifecycle>>

-----------------------------------------------------------------------------
(* start and stop, on the thread that owns the store.                        *)

StartConnects ==
  /\ control \in {"stopped", "failed"}
  /\ starts < MaxStarts
  /\ starts' = starts + 1
  /\ client' = TRUE
  /\ control' = "connecting"
  /\ UNCHANGED <<items, taken, waiting, db, workers, worker, running, stragglers,
                 put_before_stop>>

\* ping() raises out of start, which leaves the client set.
PingFails ==
  /\ control = "connecting"
  /\ control' = "failed"
  /\ UNCHANGED <<items, taken, waiting, db, workers, worker, running, client, starts,
                 stragglers, put_before_stop>>

WorkerStarts ==
  /\ control = "connecting"
  /\ running' = TRUE
  /\ worker' = starts
  /\ Goto(starts, "idle")
  /\ control' = "started"
  /\ UNCHANGED <<items, taken, waiting, db, client, starts, stragglers, put_before_stop>>

\* Mutant: the client is closed before the worker is waited for.
StopAsksAndCloses ==
  /\ control \in {"started", "failed"}
  /\ running' = FALSE
  /\ client' = FALSE
  /\ put_before_stop' = IF worker = 0 THEN put_before_stop ELSE Len(items)
  /\ control' = "joining"
  /\ UNCHANGED <<items, taken, waiting, db, workers, worker, starts, stragglers>>

StopAsks ==
  /\ control \in {"started", "failed"}
  /\ running' = FALSE
  /\ put_before_stop' = IF worker = 0 THEN put_before_stop ELSE Len(items)
  /\ control' = "joining"
  /\ UNCHANGED <<items, taken, waiting, db, workers, worker, client, starts, stragglers>>

\* Mutant: the join has no timeout.
StopWaitsForWorker ==
  /\ control = "joining"
  /\ worker # 0 => ~Alive(worker)
  /\ worker' = 0
  /\ client' = FALSE
  /\ control' = "stopped"
  /\ UNCHANGED <<items, taken, waiting, db, workers, running, starts, stragglers,
                 put_before_stop>>

\* The join ends, with the worker or by its timeout; the client is closed.
StopCloses ==
  /\ control = "joining"
  /\ stragglers' = IF worker # 0 /\ Alive(worker)
                   THEN stragglers \cup {worker} ELSE stragglers
  /\ worker' = 0
  /\ client' = FALSE
  /\ control' = "stopped"
  /\ UNCHANGED <<items, taken, waiting, db, workers, running, starts, put_before_stop>>

-----------------------------------------------------------------------------
CallerStep(c) ==
  \/ \E request \in Requests : Call(c, request)
  \/ Returns(c)
  \/ GivesUp(c)

Command(g) ==
  \/ Read(g)
  \/ Write(g)
  \/ TrimFits(g)
  \/ TrimScans(g)
  \/ TrimEvicts(g)
  \/ RedisFails(g)
  \/ ClientGone(g)

WorkerStep(g) ==
  \/ Leave(g)
  \/ Get(g)
  \/ Command(g)

OwnerStep ==
  \/ StartConnects
  \/ PingFails
  \/ WorkerStarts
  \/ StopAsks
  \/ StopCloses

Next ==
  \/ \E c \in Callers : CallerStep(c)
  \/ \E g \in Generations : WorkerStep(g)
  \/ OwnerStep

Spec == Init /\ [][Next]_vars

\* A wait ends when its time is up, and so does a join; a worker outside of a
\* Redis command goes on.  A Redis command may hang for ever.
Fairness ==
  /\ \A c \in Callers : WF_vars(Returns(c) \/ GivesUp(c))
  /\ \A g \in Generations : WF_vars(Leave(g) \/ Get(g))
  /\ WF_vars(StopCloses)

FairSpec == Spec /\ Fairness

-----------------------------------------------------------------------------
Items == [req : Requests, outcome : Outcomes, result : Values \cup {None}]

\* Every variable has its type (RedisStateStore.__init__, _RedisWorkItem).
TypeOK ==
  /\ items \in Seq(Items)
  /\ taken \in 0..Len(items)
  /\ waiting \in [Callers -> 0..Len(items)]
  /\ db \in [Keys -> Values \cup {None}]
  /\ workers \in [Generations -> [pc : {"new", "idle", "run", "evict", "exited"},
                                  item : 0..taken, victims : SUBSET Keys]]
  /\ worker \in 0..MaxStarts
  /\ running \in BOOLEAN
  /\ client \in BOOLEAN
  /\ control \in {"stopped", "connecting", "failed", "started", "joining"}
  /\ starts \in 0..MaxStarts
  /\ stragglers \subseteq Generations
  /\ put_before_stop \in 0..Len(items)

NoStraggler == stragglers = {}

\* Unless a join timed out, the items are finished in the order in which they
\* were put on the queue, over any number of starts and stops (_run).
SettledInOrder ==
  NoStraggler =>
    \A i \in DOMAIN items : Settled(i) => \A j \in 1 .. i - 1 : Settled(j)

\* Item w is the last write of the key of item i before it, it succeeded, and
\* nothing may have trimmed the key since.
LastWriteBefore(w, i) ==
  LET key == items[i].req.key IN
  /\ items[w].req.op = "write"
  /\ items[w].req.key = key
  /\ items[w].outcome = "ok"
  /\ \A j \in w + 1 .. i - 1 :
       /\ items[j].req.op = "write" => items[j].req.key # key
       /\ items[j].req.op = "trim" => key \notin Family[items[j].req.key]

\* Unless a join timed out, a read returns the record of the last write put
\* before it, even when the caller of that write had given up waiting (read).
ReadSeesLastWrite ==
  NoStraggler =>
    \A i \in DOMAIN items : \A w \in 1 .. i - 1 :
      /\ items[i].req.op = "read"
      /\ items[i].outcome = "ok"
      /\ LastWriteBefore(w, i)
      => items[i].result = JsonOf[items[w].req.value]

\* What was put on the queue before stop() asked the worker to leave has been
\* worked off when stop() returns, unless its join timed out ("drain the queue",
\* _run).
DrainedByStop ==
  NoStraggler /\ control # "joining" => \A i \in 1..put_before_stop : Settled(i)

\* Unless a join timed out, no worker ever meets the closed client (stop).
ClientOutlivesWorker ==
  NoStraggler => \A i \in DOMAIN items : items[i].outcome # "no_client"

\* Unless a join timed out, a trim that succeeds leaves at most limit keys of its
\* family, and no key is dropped but one of a family above its limit (trim).
TrimBoundsFamily ==
  [][stragglers' = {} =>
       /\ \A i \in DOMAIN items :
            items[i].req.op = "trim" /\ ~Settled(i) /\ items'[i].outcome = "ok" =>
              Cardinality(Present(items[i].req.key)') <= items[i].req.limit
       /\ \A k \in Keys : db[k] # None /\ db'[k] = None =>
            \E i \in DOMAIN items :
              /\ items[i].req.op = "trim"
              /\ ~Settled(i)
              /\ k \in Family[items[i].req.key]
              /\ Cardinality(Present(items[i].req.key)) > items[i].req.limit]_vars

\* Every call returns, even when Redis hangs, the worker has left, or the store
\* was never started (_RedisWorkItem.wait).
EveryCallReturns == \A c \in Callers : waiting[c] # 0 ~> waiting[c] = 0

\* stop() returns, even when the worker hangs inside a Redis command (stop).
StopReturns == control = "joining" ~> control # "joining"

Idle(g) == workers[g].pc = "idle"

\* A worker that is idle when it is asked to leave does leave, unless it finds
\* an item or the store is started again (_run).
IdleWorkerLeaves ==
  \A g \in Generations : Idle(g) /\ ~running ~> ~Idle(g) \/ running

-----------------------------------------------------------------------------
\* "The stored record, or None when the key is absent" (read): while the store is
\* started, a read that returns None found no record.  Refuted: a read that stops
\* waiting returns None whatever Redis holds.
NoneMeansAbsent ==
  [][control = "started" =>
       \A c \in Callers : waiting[c] # 0 /\ waiting'[c] = 0 =>
         LET item == items[waiting[c]] IN
         item.req.op = "read" /\ item.outcome = "pending" => db[item.req.key] = None]_vars

=============================================================================
