------------------------- MODULE RedisStateStore_proofs -------------------------
(***************************************************************************)
(* Proofs about RedisStateStore, for any number of callers, keys, items    *)
(* and starts.  The invariant has four layers, each proved on top of the   *)
(* one before: the threads and the queue (StoreInv), what holds of the     *)
(* items as long as no join has timed out (QueueInv), and then what Redis  *)
(* holds (RecordInv) and what a trim has left to do (EvictInv).            *)
(***************************************************************************)
EXTENDS RedisStateStore, FiniteSetTheorems, TLAPS

Busy(g) == workers[g].pc \in {"run", "evict"}

\* The references to the worker and the client, by phase of the owner.
Threads ==
  /\ worker \in {0, starts}
  /\ worker # 0 => control \in {"started", "joining"}
  /\ running <=> control = "started"
  /\ control = "started" => worker # 0 /\ Alive(worker)
  /\ worker # 0 \/ control = "connecting" => client
  /\ control = "connecting" => starts # 0 /\ workers[starts].pc = "new"
  /\ \A g \in Generations : g > starts => workers[g].pc = "new"

\* The items on the queue are pending, and a worker works on one that was taken;
\* keys to be evicted are those of a trim's family.
Taking ==
  /\ \A i \in DOMAIN items : i > taken => ~Settled(i)
  /\ \A g \in Generations : Busy(g) => workers[g].item \in 1..taken
  /\ \A g \in Generations : workers[g].pc # "evict" => workers[g].victims = {}
  /\ \A g \in Generations : workers[g].pc = "evict" =>
       /\ Request(g).op = "trim"
       /\ workers[g].victims \subseteq Family[Request(g).key]

StoreInv == TypeOK /\ Threads /\ Taking

-----------------------------------------------------------------------------
(* Requests and steps.                                                       *)

\* The fields of a request have the types its operation calls for.
LEMMA RequestShape ==
  ASSUME NEW r \in Requests
  PROVE  /\ r.op \in {"read", "write", "trim"}
         /\ r.op = "read" => r.key \in Keys
         /\ r.op = "write" => r.key \in Keys /\ r.value \in Values
         /\ r.op = "trim" => r.key \in Prefixes /\ r.limit \in Limits
  BY RequestAssumption DEF Calls

\* The item a worker works on is one that was taken.
LEMMA ItemShape ==
  ASSUME StoreInv, NEW g \in Generations, Busy(g)
  PROVE  /\ workers[g].item \in 1..taken
         /\ workers[g].item \in DOMAIN items
         /\ items[workers[g].item] \in Items
         /\ Request(g) \in Requests
<1>1. workers[g].item \in 1..taken /\ workers[g].item \in DOMAIN items
  BY DEF StoreInv, Taking, TypeOK
<1>2. items[workers[g].item] \in Items
  BY <1>1 DEF StoreInv, TypeOK
<1> QED
  BY <1>1, <1>2 DEF Items, Request

\* A command ends the item of its worker or leaves it evicting, and touches nothing
\* but that item, the worker and the records.
Ends(g) ==
  \E outcome \in Outcomes \ {"pending"}, result \in Values \cup {None} :
    Finish(g, outcome, result)

Evicts(g) ==
  /\ items' = items
  /\ Request(g).op = "trim"
  /\ \E vs \in SUBSET Family[Request(g).key] :
       workers' = [workers EXCEPT ![g].pc = "evict", ![g].victims = vs]

LEMMA CommandShape ==
  ASSUME StoreInv, NEW g \in Generations, Command(g)
  PROVE  /\ Busy(g)
         /\ Ends(g) \/ Evicts(g)
         /\ UNCHANGED <<taken, waiting, lifecycle>>
         /\ db' \in [Keys -> Values \cup {None}]
<1>1. Busy(g)
  BY DEF Command, Busy, Running, Read, Write, TrimFits, TrimScans, TrimEvicts, RedisFails,
         ClientGone
<1>2. Request(g) \in Requests
  BY <1>1, ItemShape
<1>3. db \in [Keys -> Values \cup {None}] /\ JsonOf \in [Values -> Values]
  BY JsonAssumption DEF StoreInv, TypeOK
<1>4. workers[g].pc = "evict" =>
         Request(g).op = "trim" /\ workers[g].victims \subseteq Family[Request(g).key]
  BY DEF StoreInv, Taking
<1>5. workers[g].victims \subseteq Keys
  BY DEF StoreInv, TypeOK
<1>6. UNCHANGED <<taken, waiting, lifecycle>>
  BY DEF Command, Read, Write, TrimFits, TrimScans, TrimEvicts, RedisFails, ClientGone
<1>7. db' \in [Keys -> Values \cup {None}]
  <2>1. CASE Read(g) \/ TrimFits(g) \/ TrimScans(g) \/ ClientGone(g)
    BY <2>1, <1>3 DEF Read, TrimFits, TrimScans, ClientGone
  <2>2. CASE Write(g)
    BY <2>2, <1>2, <1>3, RequestShape DEF Write, Running, Request
  <2>3. CASE TrimEvicts(g)
    BY <2>3, <1>3 DEF TrimEvicts
  <2>4. CASE RedisFails(g)
    BY <2>4, <1>2, <1>3, RequestShape DEF RedisFails, AppliedUnseen, Running, Request
  <2> QED
    BY <2>1, <2>2, <2>3, <2>4 DEF Command
<1>8. Ends(g) \/ Evicts(g)
  <2>1. CASE Read(g)
    <3>1. db[Request(g).key] \in Values \cup {None}
      BY <2>1, <1>2, <1>3, RequestShape DEF Read, Running, Request
    <3> QED
      BY <2>1, <3>1 DEF Read, Ends, Outcomes
  <2>2. CASE Write(g) \/ TrimFits(g) \/ RedisFails(g) \/ ClientGone(g)
    BY <2>2 DEF Write, TrimFits, RedisFails, ClientGone, Ends, Outcomes
  <2>3. CASE TrimScans(g)
    <3>1. PICK vs \in SUBSET Present(Request(g).key) :
            workers' = [workers EXCEPT ![g].pc = "evict", ![g].victims = vs]
      BY <2>3 DEF TrimScans
    <3>2. vs \in SUBSET Family[Request(g).key]
      BY <3>1 DEF Present
    <3> QED
      BY <2>3, <3>1, <3>2 DEF TrimScans, Running, Request, Evicts
  <2>4. CASE TrimEvicts(g)
    <3>1. CASE Finish(g, "ok", None)
      BY <3>1 DEF Ends, Outcomes
    <3>2. CASE \E k \in workers[g].victims :
                 /\ workers' = [workers EXCEPT ![g].victims = @ \ {k}]
                 /\ UNCHANGED items
      <4>1. PICK k \in workers[g].victims :
              workers' = [workers EXCEPT ![g].victims = @ \ {k}]
        BY <3>2
      <4>2. workers' = [workers EXCEPT ![g].pc = "evict",
                                       ![g].victims = workers[g].victims \ {k}]
        <5>1. workers[g].pc = "evict"
          BY <2>4 DEF TrimEvicts
        <5>2. workers[g] \in [pc : {"new", "idle", "run", "evict", "exited"},
                              item : 0..taken, victims : SUBSET Keys]
          BY DEF StoreInv, TypeOK
        <5>3. [workers[g] EXCEPT !.victims = @ \ {k}] =
                [workers[g] EXCEPT !.pc = "evict", !.victims = workers[g].victims \ {k}]
          BY <5>1, <5>2
        <5> QED
          BY <4>1, <5>3 DEF StoreInv, TypeOK
      <4> QED
        BY <2>4, <3>2, <4>2, <1>4 DEF TrimEvicts, Evicts
    <3> QED
      BY <2>4, <3>1, <3>2 DEF TrimEvicts
  <2> QED
    BY <2>1, <2>2, <2>3, <2>4 DEF Command
<1> QED
  BY <1>1, <1>6, <1>7, <1>8

-----------------------------------------------------------------------------
(* The first layer: threads and queue.                                       *)

LEMMA StoreInit == Init => StoreInv
<1> SUFFICES ASSUME Init PROVE StoreInv
  OBVIOUS
<1>1. TypeOK
  <2>1. db \in [Keys -> Values \cup {None}]
    BY JsonAssumption DEF Init
  <2>2. workers \in [Generations -> [pc : {"new", "idle", "run", "evict", "exited"},
                                     item : 0..taken, victims : SUBSET Keys]]
    BY DEF Init
  <2>3. worker \in 0..MaxStarts /\ starts \in 0..MaxStarts
    BY BoundAssumption DEF Init
  <2>4. put_before_stop \in 0..Len(items) /\ taken \in 0..Len(items) /\ items \in Seq(Items)
        /\ waiting \in [Callers -> 0..Len(items)]
    BY DEF Init
  <2> QED
    BY <2>1, <2>2, <2>3, <2>4 DEF Init, TypeOK
<1>2. Threads /\ Taking
  BY DEF Init, Threads, Taking, Busy, Settled
<1> QED
  BY <1>1, <1>2 DEF StoreInv

LEMMA StoreCaller ==
  ASSUME StoreInv, NEW c \in Callers, CallerStep(c)
  PROVE  StoreInv'
<1>1. CASE \E request \in Requests : Call(c, request)
  <2>1. PICK request \in Requests : Call(c, request)
    BY <1>1
  <2> DEFINE item == [req |-> request, outcome |-> "pending", result |-> None]
  <2>2. item \in Items /\ items \in Seq(Items) /\ items' = Append(items, item)
    BY <2>1 DEF Call, Items, Outcomes, StoreInv, TypeOK
  <2>3. /\ items' \in Seq(Items) /\ Len(items') = Len(items) + 1
        /\ \A i \in DOMAIN items : i \in DOMAIN items' /\ items'[i] = items[i]
        /\ items'[Len(items) + 1].outcome = "pending"
    BY <2>2
  <2>4. TypeOK'
    BY <2>1, <2>3 DEF Call, StoreInv, TypeOK, lifecycle
  <2>5. Threads'
    BY <2>1 DEF Call, StoreInv, Threads, Alive, lifecycle
  <2>6. Taking'
    <3>1. \A i \in DOMAIN items' : i > taken' => ~Settled(i)'
      BY <2>1, <2>3 DEF Call, StoreInv, TypeOK, Taking, Settled
    <3>2. \A g \in Generations : Busy(g) => Request(g)' = Request(g)
      BY <2>1, <2>3, ItemShape DEF Call, Request
    <3> QED
      BY <2>1, <3>1, <3>2 DEF Call, StoreInv, Taking, Busy
  <2> QED
    BY <2>4, <2>5, <2>6 DEF StoreInv
<1>2. CASE Returns(c) \/ GivesUp(c)
  <2>1. waiting' = [waiting EXCEPT ![c] = 0]
        /\ UNCHANGED <<items, taken, db, workers, lifecycle>>
    BY <1>2 DEF Returns, GivesUp
  <2>2. TypeOK'
    BY <2>1 DEF StoreInv, TypeOK, lifecycle
  <2>3. Threads' /\ Taking'
    BY <2>1 DEF StoreInv, Threads, Taking, Alive, Busy, Settled, Request, lifecycle
  <2> QED
    BY <2>2, <2>3 DEF StoreInv
<1> QED
  BY <1>1, <1>2 DEF CallerStep

LEMMA StoreLeave ==
  ASSUME StoreInv, NEW g \in Generations, Leave(g)
  PROVE  StoreInv'
<1>1. TypeOK'
  <2>1. UNCHANGED <<items, taken, waiting, db, lifecycle>>
    BY DEF Leave
  <2>2. workers' = [workers EXCEPT ![g].pc = "exited"]
    BY DEF Leave, Goto
  <2>3. workers' \in [Generations -> [pc : {"new", "idle", "run", "evict", "exited"},
                                     item : 0..taken, victims : SUBSET Keys]]
    BY <2>2 DEF StoreInv, TypeOK
  <2> QED
    BY <2>1, <2>3 DEF StoreInv, TypeOK, lifecycle
<1>2. Threads'
  BY DEF Leave, Goto, StoreInv, TypeOK, Threads, Alive, Generations, lifecycle
<1>3. Taking'
  BY DEF Leave, Goto, StoreInv, TypeOK, Taking, Busy, Settled, Request
<1> QED
  BY <1>1, <1>2, <1>3 DEF StoreInv

LEMMA StoreGet ==
  ASSUME StoreInv, NEW g \in Generations, Get(g)
  PROVE  StoreInv'
<1>1. /\ taken' = taken + 1 /\ taken' \in 1..Len(items)
      /\ workers' = [workers EXCEPT ![g] = [pc |-> "run", item |-> taken', victims |-> {}]]
      /\ UNCHANGED <<items, waiting, db, lifecycle>>
  BY DEF Get, StoreInv, TypeOK
<1>2. TypeOK'
  <2>1. workers' \in [Generations -> [pc : {"new", "idle", "run", "evict", "exited"},
                                      item : 0..taken', victims : SUBSET Keys]]
    BY <1>1 DEF StoreInv, TypeOK
  <2> QED
    BY <1>1, <2>1 DEF StoreInv, TypeOK, lifecycle
<1>3. Threads'
  BY <1>1 DEF Get, StoreInv, TypeOK, Threads, Alive, Generations, lifecycle
<1>4. Taking'
  BY <1>1 DEF StoreInv, TypeOK, Taking, Busy, Settled, Request
<1> QED
  BY <1>2, <1>3, <1>4 DEF StoreInv

LEMMA StoreCommand ==
  ASSUME StoreInv, NEW g \in Generations, Command(g)
  PROVE  StoreInv'
<1> DEFINE i == workers[g].item
<1>1. /\ Busy(g) /\ i \in 1..taken /\ i \in DOMAIN items
      /\ items[i] \in Items /\ Request(g) \in Requests
  BY CommandShape, ItemShape
<1>2. /\ UNCHANGED <<taken, waiting, lifecycle>>
      /\ db' \in [Keys -> Values \cup {None}]
  BY CommandShape
<1>3. CASE Ends(g)
  <2>1. PICK outcome \in Outcomes \ {"pending"}, result \in Values \cup {None} :
          Finish(g, outcome, result)
    BY <1>3 DEF Ends
  <2> DEFINE done == [items[i] EXCEPT !.outcome = outcome, !.result = result]
  <2>2. /\ items' = [items EXCEPT ![i] = done]
        /\ workers' = [workers EXCEPT ![g] = [pc |-> "idle", item |-> 0, victims |-> {}]]
    BY <2>1 DEF Finish
  <2>3. done \in Items /\ done.req = items[i].req
    BY <1>1, <2>1 DEF Items
  <2>4. /\ items' \in Seq(Items) /\ Len(items') = Len(items)
        /\ \A j \in DOMAIN items : items'[j].req = items[j].req
        /\ \A j \in DOMAIN items \ {i} : items'[j] = items[j]
    BY <1>1, <2>2, <2>3 DEF StoreInv, TypeOK
  <2>5. TypeOK'
    BY <1>2, <2>2, <2>4 DEF StoreInv, TypeOK, lifecycle
  <2>6. Threads'
    BY <1>1, <1>2, <2>2 DEF StoreInv, TypeOK, Threads, Alive, Busy, Generations, lifecycle
  <2>7. Taking'
    <3>1. \A j \in DOMAIN items' : j > taken' => ~Settled(j)'
      BY <1>1, <1>2, <2>4 DEF StoreInv, TypeOK, Taking, Settled
    <3>2. \A h \in Generations : Busy(h)' => h # g /\ workers'[h] = workers[h]
      BY <2>2 DEF Busy, StoreInv, TypeOK
    <3>3. \A h \in Generations : Busy(h)' => Busy(h) /\ Request(h)' = Request(h)
      BY <2>4, <3>2, ItemShape DEF Busy, Request
    <3>4. \A h \in Generations : workers'[h].pc # "evict" => workers'[h].victims = {}
      BY <2>2 DEF StoreInv, TypeOK, Taking
    <3> QED
      BY <1>2, <3>1, <3>2, <3>3, <3>4 DEF StoreInv, Taking, Busy
  <2> QED
    BY <2>5, <2>6, <2>7 DEF StoreInv
<1>4. CASE Evicts(g)
  <2>1. PICK vs \in SUBSET Family[Request(g).key] :
          workers' = [workers EXCEPT ![g].pc = "evict", ![g].victims = vs]
    BY <1>4 DEF Evicts
  <2>2. Request(g).op = "trim" /\ items' = items
    BY <1>4 DEF Evicts
  <2>3. vs \in SUBSET Keys
    BY <1>1, <2>1, <2>2, RequestShape, FamilyAssumption
  <2>4. /\ workers'[g] = [pc |-> "evict", item |-> i, victims |-> vs]
        /\ \A h \in Generations \ {g} : workers'[h] = workers[h]
        /\ workers' \in [Generations -> [pc : {"new", "idle", "run", "evict", "exited"},
                                         item : 0..taken, victims : SUBSET Keys]]
    <3>1. workers \in [Generations -> [pc : {"new", "idle", "run", "evict", "exited"},
                                       item : 0..taken, victims : SUBSET Keys]]
      BY DEF StoreInv, TypeOK
    <3> QED
      BY <2>1, <2>3, <3>1
  <2>5. TypeOK'
    BY <1>2, <2>2, <2>4 DEF StoreInv, TypeOK, lifecycle
  <2>6. Threads'
    BY <1>1, <1>2, <2>4 DEF StoreInv, TypeOK, Threads, Alive, Busy, Generations, lifecycle
  <2>7. Taking'
    <3>1. \A j \in DOMAIN items' : j > taken' => ~Settled(j)'
      BY <1>2, <2>2 DEF StoreInv, Taking, Settled
    <3>2. \A h \in Generations : Busy(h)' => Busy(h) /\ Request(h)' = Request(h)
      BY <1>1, <2>2, <2>4 DEF Busy, Request
    <3>3. \A h \in Generations : workers'[h].pc = "evict" =>
            \/ h = g
            \/ workers[h].pc = "evict" /\ workers'[h] = workers[h]
      BY <2>4
    <3>4. \A h \in Generations : workers'[h].pc # "evict" => workers'[h].victims = {}
      BY <2>4 DEF StoreInv, Taking
    <3> QED
      BY <1>1, <1>2, <2>2, <2>4, <3>1, <3>2, <3>3, <3>4 DEF StoreInv, Taking, Busy
  <2> QED
    BY <2>5, <2>6, <2>7 DEF StoreInv
<1> QED
  BY <1>3, <1>4, CommandShape

LEMMA StoreOwner == StoreInv /\ OwnerStep => StoreInv'
<1> SUFFICES ASSUME StoreInv, OwnerStep PROVE StoreInv'
  OBVIOUS
<1>1. CASE WorkerStarts
  <2>1. starts \in Generations
    BY <1>1, BoundAssumption DEF WorkerStarts, StoreInv, TypeOK, Threads, Generations
  <2>2. /\ workers'[starts].pc = "idle" /\ workers'[starts].victims = {}
        /\ \A h \in Generations \ {starts} : workers'[h] = workers[h]
    BY <1>1, <2>1 DEF WorkerStarts, Goto, StoreInv, TypeOK, Threads, Taking
  <2>3. TypeOK'
    BY <1>1, <2>1 DEF WorkerStarts, Goto, StoreInv, TypeOK
  <2>4. Threads'
    BY <1>1, <2>1, <2>2 DEF WorkerStarts, StoreInv, TypeOK, Threads, Alive, Generations
  <2>5. Taking'
    BY <1>1, <2>1, <2>2 DEF WorkerStarts, StoreInv, Taking, Busy, Settled, Request
  <2> QED
    BY <2>3, <2>4, <2>5 DEF StoreInv
<1>2. CASE StartConnects \/ PingFails \/ StopAsks \/ StopCloses
  <2>1. UNCHANGED <<items, taken, waiting, db, workers>>
    BY <1>2 DEF StartConnects, PingFails, StopAsks, StopCloses
  <2>2. TypeOK'
    <3>1. starts' \in 0..MaxStarts /\ worker' \in 0..MaxStarts
      BY <1>2, BoundAssumption
      DEF StartConnects, PingFails, StopAsks, StopCloses, StoreInv, TypeOK
    <3>2. stragglers' \subseteq Generations
      <4>1. worker # 0 => worker \in Generations
        BY BoundAssumption DEF StoreInv, TypeOK, Generations
      <4>2. stragglers \subseteq Generations
        BY DEF StoreInv, TypeOK
      <4>3. stragglers' = stragglers \/ (worker # 0 /\ stragglers' = stragglers \cup {worker})
        BY <1>2 DEF StartConnects, PingFails, StopAsks, StopCloses
      <4> QED
        BY <4>1, <4>2, <4>3
    <3>3. put_before_stop' \in 0..Len(items)
      BY <1>2 DEF StartConnects, PingFails, StopAsks, StopCloses, StoreInv, TypeOK
    <3>4. running' \in BOOLEAN /\ client' \in BOOLEAN
          /\ control' \in {"stopped", "connecting", "failed", "started", "joining"}
      BY <1>2 DEF StartConnects, PingFails, StopAsks, StopCloses, StoreInv, TypeOK
    <3> QED
      BY <2>1, <3>1, <3>2, <3>3, <3>4 DEF StoreInv, TypeOK
  <2>3. Threads'
    BY <1>2, <2>1, BoundAssumption
    DEF StartConnects, PingFails, StopAsks, StopCloses, StoreInv, TypeOK, Threads, Alive,
        Generations
  <2>4. Taking'
    BY <2>1 DEF StoreInv, Taking, Busy, Settled, Request
  <2> QED
    BY <2>2, <2>3, <2>4 DEF StoreInv
<1> QED
  BY <1>1, <1>2 DEF OwnerStep

LEMMA StoreStep == StoreInv /\ [Next]_vars => StoreInv'
<1> SUFFICES ASSUME StoreInv, [Next]_vars PROVE StoreInv'
  OBVIOUS
<1>1. CASE \E c \in Callers : CallerStep(c)
  BY <1>1, StoreCaller
<1>2. CASE \E g \in Generations : WorkerStep(g)
  BY <1>2, StoreLeave, StoreGet, StoreCommand DEF WorkerStep
<1>3. CASE OwnerStep
  BY <1>3, StoreOwner
<1>4. CASE UNCHANGED vars
  <2>1. TypeOK'
    BY <1>4 DEF StoreInv, TypeOK, vars, lifecycle
  <2>2. Threads' /\ Taking'
    BY <1>4 DEF StoreInv, Threads, Taking, Alive, Busy, Settled, Request, vars, lifecycle
  <2> QED
    BY <2>1, <2>2 DEF StoreInv
<1> QED
  BY <1>1, <1>2, <1>3, <1>4 DEF Next

LEMMA StoreInvariant == Spec => []StoreInv
  BY StoreInit, StoreStep, PTL DEF Spec

-----------------------------------------------------------------------------
\* Every state of the store is well typed: above all, a worker works on an item that
\* was taken off the queue (RedisStateStore.__init__, _run).
THEOREM RedisTypeCorrect == Spec => []TypeOK
<1>1. StoreInv => TypeOK
  BY DEF StoreInv
<1> QED
  BY <1>1, StoreInvariant, PTL

-----------------------------------------------------------------------------
(* The second layer: as long as no join has timed out, the worker of the     *)
(* last start is the only one, and it is one item ahead of what is settled.  *)

OneWorker == \A g \in Generations : Alive(g) => g = worker

WorksOnLatest ==
  \A g \in Generations : Busy(g) => workers[g].item = taken /\ ~Settled(taken)

TakenIsSettled ==
  \A i \in 1..taken :
    Settled(i) \/ \E g \in Generations : Busy(g) /\ workers[g].item = i

Drained ==
  \/ control = "joining" /\ worker # 0 /\ Alive(worker)
  \/ \A i \in 1..put_before_stop : Settled(i)

ClientWasThere == \A i \in DOMAIN items : items[i].outcome # "no_client"

QueueInv ==
  NoStraggler =>
    OneWorker /\ WorksOnLatest /\ TakenIsSettled /\ Drained /\ ClientWasThere

\* A worker that is given up stays given up.
LEMMA StragglersStay ==
  ASSUME StoreInv, [Next]_vars, NoStraggler'
  PROVE  NoStraggler
<1>1. CASE \E c \in Callers : CallerStep(c)
  BY <1>1 DEF CallerStep, Call, Returns, GivesUp, lifecycle, NoStraggler
<1>2. CASE \E g \in Generations : WorkerStep(g)
  BY <1>2, CommandShape DEF WorkerStep, Leave, Get, lifecycle, NoStraggler
<1>3. CASE OwnerStep
  BY <1>3
  DEF OwnerStep, StartConnects, PingFails, WorkerStarts, StopAsks, StopCloses, NoStraggler
<1>4. CASE UNCHANGED vars
  BY <1>4 DEF vars, lifecycle, NoStraggler
<1> QED
  BY <1>1, <1>2, <1>3, <1>4 DEF Next

LEMMA QueueInit == Init => QueueInv
  BY DEF Init, QueueInv, OneWorker, WorksOnLatest, TakenIsSettled, Drained, ClientWasThere,
         Alive, Busy, Generations

\* A caller only appends items that are pending.
LEMMA CallerShape ==
  ASSUME StoreInv, NEW c \in Callers, CallerStep(c)
  PROVE  /\ UNCHANGED <<taken, db, workers, lifecycle>>
         /\ Len(items) \in Nat /\ Len(items') \in Nat /\ Len(items) <= Len(items')
         /\ DOMAIN items = 1..Len(items) /\ DOMAIN items' = 1..Len(items')
         /\ \A i \in DOMAIN items : items'[i] = items[i]
         /\ \A i \in DOMAIN items' : i \notin DOMAIN items => items'[i].outcome = "pending"
<1>1. CASE \E request \in Requests : Call(c, request)
  BY <1>1 DEF Call, StoreInv, TypeOK
<1>2. CASE Returns(c) \/ GivesUp(c)
  BY <1>2 DEF Returns, GivesUp, StoreInv, TypeOK
<1> QED
  BY <1>1, <1>2 DEF CallerStep

LEMMA QueueCaller ==
  ASSUME StoreInv, QueueInv, NoStraggler, NEW c \in Callers, CallerStep(c)
  PROVE  QueueInv'
<1>1. UNCHANGED <<taken, workers, lifecycle>>
  BY CallerShape
<1>2. /\ Len(items') \in Nat /\ DOMAIN items' = 1..Len(items') /\ Len(items) <= Len(items')
      /\ \A i \in DOMAIN items : items'[i] = items[i]
      /\ \A i \in DOMAIN items' : i \notin DOMAIN items => items'[i].outcome = "pending"
  BY CallerShape
<1>3. \A i \in 1..Len(items) : Settled(i)' <=> Settled(i)
  BY <1>2 DEF Settled, StoreInv, TypeOK
<1>4. taken \in 0..Len(items) /\ put_before_stop \in 0..Len(items)
  BY DEF StoreInv, TypeOK
<1>5. OneWorker'
  BY <1>1 DEF QueueInv, OneWorker, Alive, lifecycle
<1>6. WorksOnLatest' /\ TakenIsSettled'
  <2>1. \A g \in Generations : Busy(g)' <=> Busy(g)
    BY <1>1 DEF Busy
  <2>2. \A g \in Generations : Busy(g) => taken \in 1..Len(items)
    BY <1>4, ItemShape
  <2> QED
    BY <1>1, <1>3, <1>4, <2>1, <2>2 DEF QueueInv, WorksOnLatest, TakenIsSettled
<1>7. Drained'
  BY <1>1, <1>3, <1>4 DEF QueueInv, Drained, Alive, lifecycle
<1>8. ClientWasThere'
  BY <1>2 DEF QueueInv, ClientWasThere
<1> QED
  BY <1>5, <1>6, <1>7, <1>8 DEF QueueInv

\* A worker that leaves, leaves nothing behind.
LEMMA QueueLeave ==
  ASSUME StoreInv, QueueInv, NoStraggler, NEW g \in Generations, Leave(g)
  PROVE  QueueInv'
<1>1. /\ workers[g].pc = "idle" /\ taken = Len(items)
      /\ workers' = [workers EXCEPT ![g].pc = "exited"]
      /\ UNCHANGED <<items, taken, lifecycle>>
  BY DEF Leave, Goto
<1>2. /\ workers'[g].pc = "exited"
      /\ \A h \in Generations \ {g} : workers'[h] = workers[h]
  BY <1>1 DEF StoreInv, TypeOK
<1>3. \A h \in Generations : Alive(h)' <=> Alive(h) /\ h # g
  BY <1>1, <1>2 DEF Alive
<1>4. \A h \in Generations : Busy(h)' <=> Busy(h)
  BY <1>1, <1>2 DEF Busy
<1>5. \A h \in Generations : ~Busy(h)
  BY <1>1 DEF Busy, QueueInv, OneWorker, Alive
<1>6. \A i \in 1..taken : Settled(i)
  BY <1>5 DEF QueueInv, TakenIsSettled
<1>7. OneWorker' /\ WorksOnLatest' /\ TakenIsSettled'
  BY <1>1, <1>3, <1>4, <1>5, <1>6
  DEF QueueInv, OneWorker, WorksOnLatest, TakenIsSettled, Settled, lifecycle
<1>8. Drained'
  BY <1>1, <1>6 DEF Drained, Settled, StoreInv, TypeOK, lifecycle
<1>9. ClientWasThere'
  BY <1>1 DEF QueueInv, ClientWasThere
<1> QED
  BY <1>7, <1>8, <1>9 DEF QueueInv

\* The item that is taken next is the only one not settled.
LEMMA QueueGet ==
  ASSUME StoreInv, QueueInv, NoStraggler, NEW g \in Generations, Get(g)
  PROVE  QueueInv'
<1>1. /\ workers[g].pc = "idle" /\ taken \in Nat /\ taken < Len(items) /\ taken' = taken + 1
      /\ workers' = [workers EXCEPT ![g] = [pc |-> "run", item |-> taken', victims |-> {}]]
      /\ UNCHANGED <<items, lifecycle>>
  BY DEF Get, StoreInv, TypeOK
<1>2. /\ workers'[g] = [pc |-> "run", item |-> taken', victims |-> {}]
      /\ \A h \in Generations \ {g} : workers'[h] = workers[h]
  BY <1>1 DEF StoreInv, TypeOK
<1>3. \A h \in Generations : Alive(h)' <=> Alive(h)
  BY <1>1, <1>2 DEF Alive
<1>4. \A h \in Generations : ~Busy(h) /\ (Busy(h)' <=> h = g)
  BY <1>1, <1>2 DEF Busy, QueueInv, OneWorker, Alive
<1>5. taken' \in DOMAIN items /\ ~Settled(taken')
  BY <1>1 DEF StoreInv, TypeOK, Taking
<1>6. OneWorker'
  BY <1>1, <1>3 DEF QueueInv, OneWorker, lifecycle
<1>7. WorksOnLatest'
  BY <1>1, <1>2, <1>4, <1>5 DEF WorksOnLatest, Settled
<1>8. TakenIsSettled'
  <2>1. \A i \in 1..taken : Settled(i)'
    BY <1>1, <1>4 DEF QueueInv, TakenIsSettled, Settled
  <2>2. Busy(g)' /\ workers'[g].item = taken'
    BY <1>2 DEF Busy
  <2> QED
    BY <1>1, <2>1, <2>2 DEF TakenIsSettled
<1>9. Drained' /\ ClientWasThere'
  <2>1. worker # 0 => worker \in Generations
    BY BoundAssumption DEF StoreInv, TypeOK, Generations
  <2> QED
    BY <1>1, <1>3, <2>1 DEF QueueInv, Drained, ClientWasThere, Settled, Alive, lifecycle
<1> QED
  BY <1>6, <1>7, <1>8, <1>9 DEF QueueInv

\* The worker that runs a command is the one of the last start, and its client is set.
LEMMA WorkerHasClient ==
  ASSUME StoreInv, QueueInv, NoStraggler, NEW g \in Generations, Busy(g)
  PROVE  g = worker /\ client
<1>1. g = worker /\ worker # 0
  BY BoundAssumption DEF QueueInv, OneWorker, Busy, Alive, Generations
<1> QED
  BY <1>1 DEF StoreInv, Threads

LEMMA QueueCommand ==
  ASSUME StoreInv, QueueInv, NoStraggler, NEW g \in Generations, Command(g)
  PROVE  QueueInv'
<1> DEFINE i == workers[g].item
<1>1. /\ Busy(g) /\ i \in 1..taken /\ i \in DOMAIN items /\ items[i] \in Items
      /\ i = taken /\ ~Settled(taken) /\ g = worker /\ client
  BY CommandShape, ItemShape, WorkerHasClient DEF QueueInv, WorksOnLatest
<1>2. UNCHANGED <<taken, lifecycle>>
  BY CommandShape
<1>3. /\ \A h \in Generations \ {g} : workers'[h] = workers[h]
      /\ workers'[g].pc \in {"idle", "evict"}
  <2>1. CASE Ends(g)
    BY <2>1 DEF Ends, Finish, StoreInv, TypeOK
  <2>2. CASE Evicts(g)
    BY <2>2 DEF Evicts, StoreInv, TypeOK
  <2> QED
    BY <2>1, <2>2, CommandShape
<1>4. \A h \in Generations : Alive(h)' <=> Alive(h)
  BY <1>1, <1>3 DEF Alive, Busy
<1>5. OneWorker'
  BY <1>2, <1>4 DEF QueueInv, OneWorker, lifecycle
<1>6. \A h \in Generations : Busy(h) => h = g
  BY <1>1 DEF QueueInv, OneWorker, Busy, Alive
<1>7. CASE Ends(g)
  <2>1. PICK outcome \in Outcomes \ {"pending"}, result \in Values \cup {None} :
          Finish(g, outcome, result)
    BY <1>7 DEF Ends
  <2>2. /\ items' = [items EXCEPT ![i] = [items[i] EXCEPT !.outcome = outcome, !.result = result]]
        /\ workers' = [workers EXCEPT ![g] = [pc |-> "idle", item |-> 0, victims |-> {}]]
    BY <2>1 DEF Finish
  <2>3. /\ DOMAIN items' = DOMAIN items
        /\ items'[i].outcome = outcome
        /\ \A j \in DOMAIN items \ {i} : items'[j] = items[j]
    BY <1>1, <2>2 DEF Items, StoreInv, TypeOK
  <2>4. \A h \in Generations : ~Busy(h)'
    BY <1>3, <1>6, <2>2 DEF Busy, StoreInv, TypeOK
  <2>5. \A j \in DOMAIN items : Settled(j) \/ j = taken => items'[j].outcome # "pending"
    BY <1>1, <2>1, <2>3 DEF Settled
  <2>6. 1..taken \subseteq DOMAIN items /\ 1..put_before_stop \subseteq DOMAIN items
    BY DEF StoreInv, TypeOK
  <2>7. TakenIsSettled' /\ WorksOnLatest'
    <3>1. \A j \in 1..taken : j # taken => Settled(j)
      BY <1>1, <1>6 DEF QueueInv, TakenIsSettled
    <3>2. \A j \in 1..taken' : items'[j].outcome # "pending"
      BY <1>2, <2>5, <2>6, <3>1
    <3> QED
      BY <2>4, <3>2 DEF TakenIsSettled, WorksOnLatest, Settled
  <2>8. Drained'
    <3>1. worker # 0 => worker \in Generations
      BY <1>1
    <3> QED
      BY <1>2, <1>4, <2>5, <2>6, <3>1 DEF QueueInv, Drained, Settled, lifecycle
  <2>9. ClientWasThere'
    <3>1. items' = items \/ \E o \in {"ok", "error"}, r \in Values \cup {None, db[Request(g).key]} :
                              Finish(g, o, r)
      BY <1>1 DEF Command, Read, Write, TrimFits, TrimScans, TrimEvicts, RedisFails, ClientGone
    <3>2. items'[i].outcome \in {"pending", "ok", "error"}
      <4>1. CASE items' = items
        BY <1>1, <4>1 DEF Settled
      <4>2. ASSUME NEW o \in {"ok", "error"}, NEW r, Finish(g, o, r)
            PROVE  items'[i].outcome \in {"pending", "ok", "error"}
        <5>1. items' = [items EXCEPT ![i] = [items[i] EXCEPT !.outcome = o, !.result = r]]
          BY <4>2 DEF Finish
        <5>2. items'[i] = [items[i] EXCEPT !.outcome = o, !.result = r]
          BY <1>1, <5>1 DEF StoreInv, TypeOK
        <5> QED
          BY <1>1, <4>2, <5>2 DEF Items
      <4> QED
        BY <3>1, <4>1, <4>2
    <3> QED
      BY <2>3, <3>2 DEF QueueInv, ClientWasThere
  <2> QED
    BY <1>5, <2>7, <2>8, <2>9 DEF QueueInv
<1>8. CASE Evicts(g)
  <2>1. items' = items /\ workers'[g].pc = "evict" /\ workers'[g].item = i
    BY <1>8 DEF Evicts, StoreInv, TypeOK
  <2>2. \A h \in Generations : (Busy(h)' <=> Busy(h)) /\ workers'[h].item = workers[h].item
    BY <1>1, <1>3, <2>1 DEF Busy
  <2>3. TakenIsSettled' /\ WorksOnLatest'
    BY <1>2, <2>1, <2>2 DEF QueueInv, TakenIsSettled, WorksOnLatest, Settled
  <2>4. Drained' /\ ClientWasThere'
    BY <1>1, <1>2, <1>4, <2>1 DEF QueueInv, Drained, ClientWasThere, Settled, lifecycle
  <2> QED
    BY <1>5, <2>3, <2>4 DEF QueueInv
<1> QED
  BY <1>7, <1>8, CommandShape

LEMMA QueueOwner ==
  ASSUME StoreInv, QueueInv, NoStraggler, OwnerStep
  PROVE  QueueInv'
<1>1. UNCHANGED <<items, taken>>
  BY DEF OwnerStep, StartConnects, PingFails, WorkerStarts, StopAsks, StopCloses
<1>2. ClientWasThere'
  BY <1>1 DEF QueueInv, ClientWasThere
<1>3. CASE WorkerStarts
  <2>1. worker = 0 /\ starts \in Generations /\ workers[starts].pc = "new"
    BY <1>3, BoundAssumption DEF WorkerStarts, StoreInv, TypeOK, Threads, Generations
  <2>2. /\ workers'[starts].pc = "idle" /\ worker' = starts
        /\ \A h \in Generations \ {starts} : workers'[h] = workers[h]
        /\ UNCHANGED put_before_stop
    BY <1>3, <2>1 DEF WorkerStarts, Goto, StoreInv, TypeOK
  <2>3. \A h \in Generations : ~Alive(h) /\ ~Busy(h)
    BY <2>1, BoundAssumption DEF QueueInv, OneWorker, Alive, Busy, Generations
  <2>4. \A h \in Generations : ~Busy(h)' /\ (Alive(h)' => h = starts)
    BY <2>2, <2>3 DEF Alive, Busy
  <2>5. OneWorker' /\ WorksOnLatest' /\ TakenIsSettled'
    BY <1>1, <2>2, <2>3, <2>4
    DEF QueueInv, OneWorker, WorksOnLatest, TakenIsSettled, Settled
  <2>6. Drained'
    BY <1>1, <1>3, <2>2 DEF WorkerStarts, QueueInv, Drained, Settled
  <2> QED
    BY <1>2, <2>5, <2>6 DEF QueueInv
<1>4. CASE StartConnects \/ PingFails \/ StopAsks \/ StopCloses
  <2>1. UNCHANGED workers
    BY <1>4 DEF StartConnects, PingFails, StopAsks, StopCloses
  <2>2. WorksOnLatest' /\ TakenIsSettled'
    BY <1>1, <2>1 DEF QueueInv, WorksOnLatest, TakenIsSettled, Busy, Settled
  <2>3. CASE StartConnects \/ PingFails
    BY <1>1, <1>2, <2>1, <2>2, <2>3
    DEF StartConnects, PingFails, QueueInv, OneWorker, Drained, Alive, Settled
  <2>4. CASE StopAsks
    <3>1. worker # 0 => Alive(worker)
      BY <2>4 DEF StopAsks, StoreInv, Threads
    <3> QED
      BY <1>1, <1>2, <2>1, <2>2, <2>4, <3>1
      DEF StopAsks, QueueInv, OneWorker, Drained, Alive, Settled
  <2>5. CASE StopCloses
    <3>1. CASE worker # 0 /\ Alive(worker)
      BY <2>5, <3>1 DEF StopCloses, QueueInv, NoStraggler
    <3>2. CASE ~(worker # 0 /\ Alive(worker))
      <4>1. \A h \in Generations : ~Alive(h)
        BY <3>2, BoundAssumption DEF QueueInv, OneWorker, Generations
      <4>2. OneWorker'
        BY <2>1, <4>1 DEF OneWorker, Alive
      <4>3. Drained'
        BY <1>1, <2>5, <3>2 DEF StopCloses, QueueInv, Drained, Settled
      <4> QED
        BY <1>2, <2>2, <4>2, <4>3 DEF QueueInv
    <3> QED
      BY <3>1, <3>2
  <2> QED
    BY <1>4, <2>3, <2>4, <2>5
<1> QED
  BY <1>3, <1>4 DEF OwnerStep

LEMMA QueueStep == StoreInv /\ QueueInv /\ [Next]_vars => QueueInv'
<1> SUFFICES ASSUME StoreInv, QueueInv, [Next]_vars, NoStraggler' PROVE QueueInv'
  BY DEF QueueInv
<1>1. NoStraggler
  BY StragglersStay
<1>2. CASE \E c \in Callers : CallerStep(c)
  BY <1>1, <1>2, QueueCaller
<1>3. CASE \E g \in Generations : WorkerStep(g)
  BY <1>1, <1>3, QueueLeave, QueueGet, QueueCommand DEF WorkerStep
<1>4. CASE OwnerStep
  BY <1>1, <1>4, QueueOwner
<1>5. CASE UNCHANGED vars
  BY <1>5 DEF QueueInv, OneWorker, WorksOnLatest, TakenIsSettled, Drained, ClientWasThere,
              NoStraggler, Alive, Busy, Settled, vars, lifecycle
<1> QED
  BY <1>2, <1>3, <1>4, <1>5 DEF Next

LEMMA QueueInvariant == Spec => []QueueInv
  BY QueueInit, QueueStep, StoreInvariant, PTL DEF Spec

-----------------------------------------------------------------------------
\* Over any number of starts and stops the items are finished in the order of the
\* queue, unless a join timed out (_run).
THEOREM ItemsSettleInOrder == Spec => []SettledInOrder
<1>1. StoreInv /\ QueueInv => SettledInOrder
  <2> SUFFICES ASSUME StoreInv, QueueInv, NoStraggler,
                      NEW i \in DOMAIN items, Settled(i), NEW j \in 1 .. i - 1
               PROVE  Settled(j)
    BY DEF SettledInOrder
  <2>1. i <= taken /\ j \in 1..taken /\ j # taken
    BY DEF StoreInv, TypeOK, Taking
  <2> QED
    BY <2>1 DEF QueueInv, TakenIsSettled, WorksOnLatest
<1> QED
  BY <1>1, StoreInvariant, QueueInvariant, PTL

\* What was put before stop asked the worker to leave has been worked off when stop
\* returns, unless its join timed out (stop, _run).
THEOREM StopDrainsQueue == Spec => []DrainedByStop
<1>1. QueueInv => DrainedByStop
  BY DEF QueueInv, Drained, DrainedByStop
<1> QED
  BY <1>1, QueueInvariant, PTL

\* Unless a join timed out, the client outlives the worker that uses it (stop).
THEOREM ClientIsThere == Spec => []ClientOutlivesWorker
<1>1. QueueInv => ClientOutlivesWorker
  BY DEF QueueInv, ClientWasThere, ClientOutlivesWorker
<1> QED
  BY <1>1, QueueInvariant, PTL

-----------------------------------------------------------------------------
(* The third layer: as long as no join has timed out, Redis holds the record *)
(* of the last write that nothing since then may have replaced.              *)

Spares(j, key) ==
  /\ items[j].req.op = "write" => items[j].req.key # key
  /\ items[j].req.op = "trim" => key \notin Family[items[j].req.key]

RecordsFollowWrites ==
  \A w \in 1..taken :
    /\ items[w].req.op = "write"
    /\ items[w].outcome = "ok"
    /\ \A j \in w + 1 .. taken : Spares(j, items[w].req.key)
    => db[items[w].req.key] = JsonOf[items[w].req.value]

ReadsFollowWrites ==
  \A i \in DOMAIN items : \A w \in 1 .. i - 1 :
    /\ items[i].req.op = "read"
    /\ items[i].outcome = "ok"
    /\ LastWriteBefore(w, i)
    => items[i].result = JsonOf[items[w].req.value]

RecordInv == NoStraggler => RecordsFollowWrites /\ ReadsFollowWrites

\* A command changes no request, and no item but its own.
LEMMA CommandItems ==
  ASSUME StoreInv, NEW g \in Generations, Command(g)
  PROVE  /\ DOMAIN items' = DOMAIN items
         /\ \A j \in DOMAIN items : items'[j].req = items[j].req
         /\ \A j \in DOMAIN items \ {workers[g].item} : items'[j] = items[j]
<1>1. CASE Ends(g)
  <2>1. PICK outcome \in Outcomes \ {"pending"}, result \in Values \cup {None} :
          Finish(g, outcome, result)
    BY <1>1 DEF Ends
  <2>2. items' = [items EXCEPT ![workers[g].item] =
                    [items[workers[g].item] EXCEPT !.outcome = outcome, !.result = result]]
    BY <2>1 DEF Finish
  <2>3. workers[g].item \in DOMAIN items /\ items[workers[g].item] \in Items
    BY CommandShape, ItemShape
  <2> QED
    BY <2>2, <2>3 DEF Items, StoreInv, TypeOK
<1>2. CASE Evicts(g)
  BY <1>2 DEF Evicts
<1> QED
  BY <1>1, <1>2, CommandShape

\* The command that ends an item well is the one its request names.
LEMMA CommandEndsWell ==
  ASSUME StoreInv, NEW g \in Generations, Command(g),
         ~Settled(workers[g].item), items'[workers[g].item].outcome = "ok"
  PROVE  /\ Request(g).op = "read" => Read(g)
         /\ Request(g).op = "write" => Write(g)
         /\ Request(g).op = "trim" =>
              \/ TrimFits(g)
              \/ TrimEvicts(g) /\ \E k \in workers[g].victims :
                   workers[g].victims = {k} /\ db' = [db EXCEPT ![k] = None]
<1> DEFINE i == workers[g].item
<1>1. i \in DOMAIN items /\ items[i] \in Items
  BY CommandShape, ItemShape
<1>2. items' # items
  BY DEF Settled
<1>3. ASSUME NEW o, NEW r, Finish(g, o, r)
      PROVE  o = "ok"
  <2>1. items' = [items EXCEPT ![i] = [items[i] EXCEPT !.outcome = o, !.result = r]]
    BY <1>3 DEF Finish
  <2>2. items'[i].outcome = o
    BY <1>1, <2>1 DEF Items, StoreInv, TypeOK
  <2> QED
    BY <2>2
<1>4. ~RedisFails(g) /\ ~ClientGone(g)
  BY <1>3 DEF RedisFails, ClientGone
<1>5. CASE Read(g) \/ Write(g) \/ TrimFits(g)
  BY <1>5 DEF Read, Write, TrimFits, Running, Request
<1>6. CASE TrimScans(g)
  BY <1>2, <1>6 DEF TrimScans
<1>7. CASE TrimEvicts(g)
  <2>1. Request(g).op = "trim"
    BY <1>7 DEF TrimEvicts, StoreInv, Taking
  <2>2. PICK k \in workers[g].victims :
          /\ db' = [db EXCEPT ![k] = None]
          /\ workers[g].victims = {k} \/ items' = items
    BY <1>7 DEF TrimEvicts
  <2> QED
    BY <1>2, <1>7, <2>1, <2>2
<1> QED
  BY <1>4, <1>5, <1>6, <1>7 DEF Command

\* A command leaves every record alone that its request spares.
LEMMA CommandSpares ==
  ASSUME StoreInv, NEW g \in Generations, Command(g),
         NEW key \in Keys, Spares(workers[g].item, key)
  PROVE  db'[key] = db[key]
<1>1. \A k \in workers[g].victims : k # key
  BY DEF Spares, Request, StoreInv, Taking
<1>2. Running(g, "write") => Request(g).key # key
  BY DEF Spares, Running, Request
<1>3. db \in [Keys -> Values \cup {None}]
  BY DEF StoreInv, TypeOK
<1> QED
  BY <1>1, <1>2, <1>3
  DEF Command, Read, Write, TrimFits, TrimScans, TrimEvicts, RedisFails, ClientGone,
      AppliedUnseen

LEMMA RecordInit == Init => RecordInv
  BY DEF Init, RecordInv, RecordsFollowWrites, ReadsFollowWrites

LEMMA RecordCaller ==
  ASSUME StoreInv, RecordInv, NoStraggler, NEW c \in Callers, CallerStep(c)
  PROVE  RecordInv'
<1>1. UNCHANGED <<taken, db>>
  BY CallerShape
<1>2. /\ Len(items) \in Nat /\ DOMAIN items = 1..Len(items)
      /\ \A i \in DOMAIN items : i \in DOMAIN items' /\ items'[i] = items[i]
      /\ \A i \in DOMAIN items' : i \notin DOMAIN items => items'[i].outcome = "pending"
  BY CallerShape
<1>3. taken \in 0..Len(items)
  BY DEF StoreInv, TypeOK
<1>4. RecordsFollowWrites'
  BY <1>1, <1>2, <1>3 DEF RecordInv, RecordsFollowWrites, Spares
<1>5. ASSUME NEW i \in DOMAIN items', NEW w \in 1..i - 1,
             items'[i].req.op = "read", items'[i].outcome = "ok", LastWriteBefore(w, i)'
      PROVE  items'[i].result = JsonOf[items'[w].req.value]
  <2>1. i \in DOMAIN items
    BY <1>2, <1>5
  <2>2. i \in Nat /\ w \in Nat /\ w \in DOMAIN items /\ w + 1 .. i - 1 \subseteq DOMAIN items
    BY <1>2, <2>1
  <2>3. /\ items'[i] = items[i]
        /\ items'[w] = items[w]
        /\ \A j \in w + 1 .. i - 1 : items'[j] = items[j]
    BY <1>2, <2>1, <2>2
  <2>4. LastWriteBefore(w, i)
    <3>1. /\ items[w].req.op = "write"
          /\ items[w].req.key = items[i].req.key
          /\ items[w].outcome = "ok"
      BY <1>5, <2>3 DEF LastWriteBefore
    <3>2. ASSUME NEW j \in w + 1 .. i - 1
          PROVE  /\ items[j].req.op = "write" => items[j].req.key # items[i].req.key
                 /\ items[j].req.op = "trim" => items[i].req.key \notin Family[items[j].req.key]
      BY <1>5, <2>3 DEF LastWriteBefore
    <3> QED
      BY <3>1, <3>2 DEF LastWriteBefore
  <2>5. ReadsFollowWrites
    BY DEF RecordInv
  <2> QED
    BY <1>5, <2>1, <2>3, <2>4, <2>5 DEF ReadsFollowWrites
<1>6. ReadsFollowWrites'
  BY <1>5 DEF ReadsFollowWrites
<1> QED
  BY <1>4, <1>6 DEF RecordInv

LEMMA RecordGet ==
  ASSUME StoreInv, RecordInv, NoStraggler, NEW g \in Generations, Get(g)
  PROVE  RecordInv'
<1>1. /\ taken \in Nat /\ taken < Len(items) /\ taken' = taken + 1
      /\ UNCHANGED <<items, db>>
  BY DEF Get, StoreInv, TypeOK
<1>2. items[taken + 1].outcome = "pending"
  BY <1>1 DEF StoreInv, TypeOK, Taking, Settled
<1>3. RecordsFollowWrites'
  BY <1>1, <1>2 DEF RecordInv, RecordsFollowWrites, Spares
<1>4. ReadsFollowWrites'
  BY <1>1 DEF RecordInv, ReadsFollowWrites, LastWriteBefore
<1> QED
  BY <1>3, <1>4 DEF RecordInv

LEMMA RecordCommand ==
  ASSUME StoreInv, QueueInv, RecordInv, NoStraggler, NEW g \in Generations, Command(g)
  PROVE  RecordInv'
<1>1. /\ taken \in DOMAIN items /\ taken \in Nat /\ ~Settled(taken)
      /\ workers[g].item = taken /\ Request(g) = items[taken].req /\ Request(g) \in Requests
  BY CommandShape, ItemShape DEF QueueInv, WorksOnLatest, Request, StoreInv, TypeOK
<1>2. UNCHANGED taken
  BY CommandShape
<1>3. /\ DOMAIN items' = DOMAIN items
      /\ \A j \in DOMAIN items : items'[j].req = items[j].req
      /\ \A j \in DOMAIN items \ {taken} : items'[j] = items[j]
  BY <1>1, CommandItems
<1>4. 1..taken \subseteq DOMAIN items /\ DOMAIN items = 1..Len(items) /\ Len(items) \in Nat
  BY DEF StoreInv, TypeOK
<1>5. \A j \in DOMAIN items : items[j].req \in Requests
  <2>1. \A j \in DOMAIN items : items[j] \in Items
    BY DEF StoreInv, TypeOK
  <2> QED
    BY <2>1 DEF Items
<1>6. RecordsFollowWrites'
  <2> SUFFICES ASSUME NEW w \in 1..taken,
                      items'[w].req.op = "write", items'[w].outcome = "ok",
                      \A j \in w + 1 .. taken : Spares(j, items[w].req.key)
               PROVE  db'[items[w].req.key] = JsonOf[items[w].req.value]
    BY <1>2, <1>3, <1>4 DEF RecordsFollowWrites, Spares
  <2>1. items[w].req.op = "write" /\ items[w].req.key \in Keys
    BY <1>3, <1>4, <1>5, RequestShape
  <2>2. CASE w = taken
    <3>1. Write(g)
      BY <1>1, <2>1, <2>2, CommandEndsWell
    <3> QED
      BY <1>1, <2>1, <2>2, <3>1 DEF Write, StoreInv, TypeOK
  <2>3. CASE w # taken
    <3>1. items[w].outcome = "ok" /\ Spares(taken, items[w].req.key)
      BY <1>1, <1>3, <1>4, <2>3
    <3>2. db'[items[w].req.key] = db[items[w].req.key]
      BY <1>1, <2>1, <3>1, CommandSpares
    <3> QED
      BY <2>1, <3>1, <3>2 DEF RecordInv, RecordsFollowWrites
  <2> QED
    BY <2>2, <2>3
<1>7. ReadsFollowWrites'
  <2> SUFFICES ASSUME NEW i \in DOMAIN items, NEW w \in 1 .. i - 1,
                      items'[i].req.op = "read", items'[i].outcome = "ok",
                      LastWriteBefore(w, i)'
               PROVE  items'[i].result = JsonOf[items'[w].req.value]
    BY <1>3 DEF ReadsFollowWrites
  <2>1. w \in DOMAIN items /\ items'[w].req = items[w].req /\ items'[i].req = items[i].req
    BY <1>3, <1>4
  <2>2. i <= taken
    <3>1. CASE i > taken
      BY <1>1, <1>3, <3>1 DEF StoreInv, Taking, Settled
    <3> QED
      BY <1>1, <1>4, <3>1
  <2>3. /\ items[w] = items'[w]
        /\ \A j \in w + 1 .. i - 1 : j \in DOMAIN items /\ items'[j].req = items[j].req
    BY <1>3, <1>4, <2>1, <2>2
  <2>4. LastWriteBefore(w, i)
    BY <2>1, <2>3 DEF LastWriteBefore
  <2>5. CASE i # taken
    BY <1>3, <2>1, <2>4, <2>5 DEF RecordInv, ReadsFollowWrites
  <2>6. CASE i = taken
    <3>1. Read(g)
      BY <1>1, <2>1, <2>6, CommandEndsWell
    <3>2. items'[taken].result = db[items[taken].req.key]
      <4>1. items' = [items EXCEPT ![taken] = [items[taken] EXCEPT
                        !.outcome = "ok", !.result = db[items[taken].req.key]]]
        BY <1>1, <3>1 DEF Read, Finish
      <4>2. items[taken] \in Items
        BY <1>1 DEF StoreInv, TypeOK
      <4> QED
        BY <1>1, <4>1, <4>2 DEF Items, StoreInv, TypeOK
    <3>3. \A j \in w + 1 .. taken : Spares(j, items[w].req.key)
      BY <1>1, <2>1, <2>4, <2>6 DEF LastWriteBefore, Spares
    <3>4. db[items[w].req.key] = JsonOf[items[w].req.value]
      BY <1>1, <2>4, <2>6, <3>3 DEF RecordInv, RecordsFollowWrites, LastWriteBefore
    <3> QED
      BY <2>1, <2>4, <2>6, <3>2, <3>4 DEF LastWriteBefore
  <2> QED
    BY <2>5, <2>6
<1> QED
  BY <1>6, <1>7 DEF RecordInv

LEMMA RecordStep == StoreInv /\ QueueInv /\ RecordInv /\ [Next]_vars => RecordInv'
<1> SUFFICES ASSUME StoreInv, QueueInv, RecordInv, [Next]_vars, NoStraggler'
             PROVE  RecordInv'
  BY DEF RecordInv
<1>1. NoStraggler
  BY StragglersStay
<1>2. CASE \E c \in Callers : CallerStep(c)
  BY <1>1, <1>2, RecordCaller
<1>3. CASE \E g \in Generations : Get(g) \/ Command(g)
  BY <1>1, <1>3, RecordGet, RecordCommand
<1>4. CASE (\E g \in Generations : Leave(g)) \/ OwnerStep \/ UNCHANGED vars
  <2>1. UNCHANGED <<items, taken, db>>
    BY <1>4
    DEF Leave, OwnerStep, StartConnects, PingFails, WorkerStarts, StopAsks, StopCloses, vars
  <2> QED
    BY <1>1, <2>1
    DEF RecordInv, RecordsFollowWrites, ReadsFollowWrites, Spares, LastWriteBefore
<1> QED
  BY <1>2, <1>3, <1>4 DEF Next, WorkerStep

\* Unless a join timed out, a read returns the record of the last write put before it,
\* even one whose caller had given up waiting (read).
THEOREM ReadsSeeWrites == Spec => []ReadSeesLastWrite
<1>1. RecordInv => ReadSeesLastWrite
  BY DEF RecordInv, ReadsFollowWrites, ReadSeesLastWrite
<1> QED
  BY <1>1, RecordInit, RecordStep, StoreInvariant, QueueInvariant, PTL DEF Spec

-----------------------------------------------------------------------------
(* The fourth layer: a worker that evicts has exactly the excess to evict.   *)

Excess(g) ==
  /\ workers[g].victims # {}
  /\ workers[g].victims \subseteq Present(Request(g).key)
  /\ Cardinality(Present(Request(g).key) \ workers[g].victims) = Request(g).limit

EvictInv == NoStraggler => \A g \in Generations : workers[g].pc = "evict" => Excess(g)

LEMMA EvictCommand ==
  ASSUME StoreInv, QueueInv, EvictInv, NoStraggler, NEW g \in Generations, Command(g)
  PROVE  EvictInv'
<1>1. Busy(g) /\ workers[g].item \in DOMAIN items /\ Request(g) \in Requests
  BY CommandShape, ItemShape
<1>2. \A h \in Generations \ {g} : workers'[h] = workers[h]
  <2>1. CASE Ends(g)
    BY <2>1 DEF Ends, Finish, StoreInv, TypeOK
  <2>2. CASE Evicts(g)
    BY <2>2 DEF Evicts, StoreInv, TypeOK
  <2> QED
    BY <2>1, <2>2, CommandShape
<1>3. \A h \in Generations \ {g} : workers'[h].pc # "evict"
  BY <1>1, <1>2 DEF QueueInv, OneWorker, Busy, Alive
<1>4. workers'[g].item = workers[g].item => Request(g)' = Request(g)
  BY <1>1, CommandItems DEF Request
<1>5. ASSUME NEW o, NEW r, Finish(g, o, r)
      PROVE  workers'[g].pc # "evict"
  BY <1>5 DEF Finish, StoreInv, TypeOK
<1>6. CASE Read(g) \/ Write(g) \/ TrimFits(g) \/ RedisFails(g) \/ ClientGone(g)
  BY <1>3, <1>5, <1>6 DEF Read, Write, TrimFits, RedisFails, ClientGone, EvictInv
<1>7. CASE TrimScans(g)
  <2>1. PICK vs \in SUBSET Present(Request(g).key) :
          /\ vs # {}
          /\ Cardinality(Present(Request(g).key) \ vs) = Request(g).limit
          /\ workers' = [workers EXCEPT ![g].pc = "evict", ![g].victims = vs]
    BY <1>7 DEF TrimScans
  <2>2. UNCHANGED db
    BY <1>7 DEF TrimScans
  <2>3. workers'[g].victims = vs /\ workers'[g].item = workers[g].item
    BY <2>1 DEF StoreInv, TypeOK
  <2> QED
    BY <1>3, <1>4, <2>1, <2>2, <2>3 DEF EvictInv, Excess, Present
<1>8. CASE TrimEvicts(g)
  <2>1. PICK k \in workers[g].victims :
          /\ db' = [db EXCEPT ![k] = None]
          /\ IF workers[g].victims = {k}
             THEN Finish(g, "ok", None)
             ELSE workers' = [workers EXCEPT ![g].victims = @ \ {k}]
    BY <1>8 DEF TrimEvicts
  <2>2. CASE workers[g].victims = {k}
    BY <1>3, <1>5, <2>1, <2>2 DEF EvictInv
  <2>3. CASE workers[g].victims # {k}
    <3>1. Excess(g)
      BY <1>8 DEF TrimEvicts, EvictInv
    <3>2. /\ workers'[g].victims = workers[g].victims \ {k}
          /\ workers'[g].item = workers[g].item
      BY <2>1, <2>3 DEF StoreInv, TypeOK
    <3>3. \A p \in Prefixes : Present(p)' = Present(p) \ {k}
      BY <2>1 DEF Present, StoreInv, TypeOK
    <3>4. Request(g).key \in Prefixes
      BY <1>1, <1>8, RequestShape DEF TrimEvicts, StoreInv, Taking
    <3>5. Present(Request(g).key)' = Present(Request(g).key) \ {k}
      BY <1>4, <3>2, <3>3, <3>4
    <3>6. Present(Request(g).key)' \ workers'[g].victims =
            Present(Request(g).key) \ workers[g].victims
      BY <3>2, <3>5
    <3>7. workers'[g].victims # {} /\ workers'[g].victims \subseteq Present(Request(g).key)'
      BY <2>3, <3>1, <3>2, <3>5 DEF Excess
    <3> QED
      BY <1>3, <1>4, <3>1, <3>2, <3>6, <3>7 DEF EvictInv, Excess
  <2> QED
    BY <2>2, <2>3
<1> QED
  BY <1>6, <1>7, <1>8 DEF Command

LEMMA EvictStep == StoreInv /\ QueueInv /\ EvictInv /\ [Next]_vars => EvictInv'
<1> SUFFICES ASSUME StoreInv, QueueInv, EvictInv, [Next]_vars, NoStraggler'
             PROVE  EvictInv'
  BY DEF EvictInv
<1>1. NoStraggler
  BY StragglersStay
<1>2. ASSUME UNCHANGED db,
             \A g \in Generations : workers'[g].pc = "evict" =>
               /\ workers'[g] = workers[g]
               /\ items'[workers[g].item] = items[workers[g].item]
      PROVE  EvictInv'
  BY <1>1, <1>2 DEF EvictInv, Excess, Present, Request
<1>3. CASE \E c \in Callers : CallerStep(c)
  <2>1. /\ UNCHANGED <<db, workers>>
        /\ \A i \in DOMAIN items : items'[i] = items[i]
    BY <1>3, CallerShape
  <2>2. \A g \in Generations : workers[g].pc = "evict" => workers[g].item \in DOMAIN items
    BY ItemShape DEF Busy
  <2> QED
    BY <1>2, <2>1, <2>2
<1>4. CASE \E g \in Generations : Leave(g) \/ Get(g)
  BY <1>2, <1>4 DEF Leave, Get, Goto, StoreInv, TypeOK
<1>5. CASE \E g \in Generations : Command(g)
  BY <1>1, <1>5, EvictCommand
<1>6. CASE OwnerStep
  <2>1. UNCHANGED <<db, items>>
    BY <1>6
    DEF OwnerStep, StartConnects, PingFails, WorkerStarts, StopAsks, StopCloses
  <2>2. \A g \in Generations : workers'[g].pc = "evict" => workers'[g] = workers[g]
    BY <1>6
    DEF OwnerStep, StartConnects, PingFails, WorkerStarts, StopAsks, StopCloses, Goto,
        StoreInv, TypeOK
  <2> QED
    BY <1>2, <2>1, <2>2
<1>7. CASE UNCHANGED vars
  BY <1>2, <1>7 DEF vars
<1> QED
  BY <1>3, <1>4, <1>5, <1>6, <1>7 DEF Next, WorkerStep

LEMMA EvictInvariant == Spec => []EvictInv
<1>1. Init => EvictInv
  BY DEF Init, EvictInv
<1> QED
  BY <1>1, EvictStep, StoreInvariant, QueueInvariant, PTL DEF Spec

\* A family of keys and its parts are finite; what a worker has still to evict is
\* what the family has above the limit.
LEMMA ExcessIsAboveLimit ==
  ASSUME StoreInv, NEW g \in Generations, workers[g].pc = "evict", Excess(g)
  PROVE  Cardinality(Present(Request(g).key)) > Request(g).limit
<1> DEFINE S == Present(Request(g).key)
           V == workers[g].victims
<1>1. Request(g).limit \in Nat /\ Request(g).key \in Prefixes
  BY ItemShape, RequestShape, FamilyAssumption DEF Busy, StoreInv, Taking
<1>2. IsFiniteSet(S)
  <2>1. S \subseteq Keys
    BY <1>1, FamilyAssumption DEF Present
  <2> QED
    BY <2>1, FamilyAssumption, FS_Subset
<1>3. IsFiniteSet(V) /\ V # {} /\ S \cap V = V /\ Cardinality(S \ V) = Request(g).limit
  BY <1>2, FS_Subset DEF Excess
<1>4. Cardinality(V) \in Nat /\ Cardinality(V) # 0 /\ Cardinality(S) \in Nat
  BY <1>2, <1>3, FS_CardinalityType, FS_EmptySet
<1>5. Cardinality(S \ V) = Cardinality(S) - Cardinality(V)
  <2>1. Cardinality(S \ V) = Cardinality(S) - Cardinality(S \cap V)
    BY <1>2, <1>3, FS_Difference, Zenon
  <2> QED
    BY <1>3, <2>1
<1> QED
  BY <1>1, <1>3, <1>4, <1>5

LEMMA TrimStep ==
  ASSUME StoreInv, QueueInv, EvictInv, NoStraggler, NEW g \in Generations, Command(g)
  PROVE  /\ \A i \in DOMAIN items :
              items[i].req.op = "trim" /\ ~Settled(i) /\ items'[i].outcome = "ok" =>
                Cardinality(Present(items[i].req.key)') <= items[i].req.limit
         /\ \A k \in Keys : db[k] # None /\ db'[k] = None =>
              \E i \in DOMAIN items :
                /\ items[i].req.op = "trim"
                /\ ~Settled(i)
                /\ k \in Family[items[i].req.key]
                /\ Cardinality(Present(items[i].req.key)) > items[i].req.limit
<1> DEFINE n == workers[g].item
<1>1. /\ Busy(g) /\ n \in DOMAIN items /\ Request(g) \in Requests /\ ~Settled(n)
      /\ Request(g) = items[n].req
  BY CommandShape, ItemShape DEF QueueInv, WorksOnLatest, Request
<1>2. workers[g].pc = "evict" => Request(g).op = "trim" /\ Excess(g)
  BY DEF StoreInv, Taking, EvictInv
<1>3. ASSUME NEW i \in DOMAIN items,
             items[i].req.op = "trim", ~Settled(i), items'[i].outcome = "ok"
      PROVE  Cardinality(Present(items[i].req.key)') <= items[i].req.limit
  <2>1. i = n
    BY <1>3, CommandItems DEF Settled
  <2>2. /\ Request(g).key \in Prefixes /\ Request(g).limit \in Nat
        /\ items'[i].req = items[i].req /\ items[i].req = Request(g)
    BY <1>1, <1>3, <2>1, CommandItems, RequestShape, FamilyAssumption
  <2>3. CASE TrimFits(g)
    BY <2>2, <2>3 DEF TrimFits, Present
  <2>4. CASE TrimEvicts(g) /\ \E k \in workers[g].victims :
               workers[g].victims = {k} /\ db' = [db EXCEPT ![k] = None]
    <3>1. Present(Request(g).key) \ workers[g].victims =
            {k \in Family[Request(g).key] : db'[k] # None}
      BY <2>2, <2>4, FamilyAssumption DEF Present, StoreInv, TypeOK
    <3>2. Cardinality({k \in Family[Request(g).key] : db'[k] # None}) = Request(g).limit
      BY <1>2, <2>4, <3>1 DEF TrimEvicts, Excess
    <3> QED
      BY <2>2, <3>2 DEF Present
  <2> QED
    BY <1>1, <1>3, <2>1, <2>3, <2>4, CommandEndsWell
<1>4. ASSUME NEW k \in Keys, db[k] # None, db'[k] = None
      PROVE  k \in workers[g].victims
  <2>1. Running(g, "write") => JsonOf[Request(g).value] # None
    BY <1>1, RequestShape, JsonAssumption DEF Running, Request
  <2>2. db \in [Keys -> Values \cup {None}]
    BY DEF StoreInv, TypeOK
  <2> QED
    BY <1>4, <2>1, <2>2
    DEF Command, Read, Write, TrimFits, TrimScans, TrimEvicts, RedisFails, ClientGone,
        AppliedUnseen
<1>5. ASSUME NEW k \in workers[g].victims
      PROVE  /\ items[n].req.op = "trim"
             /\ k \in Family[items[n].req.key]
             /\ Cardinality(Present(items[n].req.key)) > items[n].req.limit
  <2>1. workers[g].pc = "evict"
    BY DEF StoreInv, Taking
  <2> QED
    BY <1>1, <1>2, <2>1, ExcessIsAboveLimit DEF StoreInv, Taking
<1> QED
  BY <1>1, <1>3, <1>4, <1>5

\* Unless a join timed out, a trim that succeeds leaves at most limit keys of its
\* family, and only a trim of a family above its limit drops a key (trim).
THEOREM TrimsAreExact == Spec => TrimBoundsFamily
<1> DEFINE TrimOK ==
      stragglers' = {} =>
       /\ \A i \in DOMAIN items :
            items[i].req.op = "trim" /\ ~Settled(i) /\ items'[i].outcome = "ok" =>
              Cardinality(Present(items[i].req.key)') <= items[i].req.limit
       /\ \A k \in Keys : db[k] # None /\ db'[k] = None =>
            \E i \in DOMAIN items :
              /\ items[i].req.op = "trim"
              /\ ~Settled(i)
              /\ k \in Family[items[i].req.key]
              /\ Cardinality(Present(items[i].req.key)) > items[i].req.limit
<1>1. StoreInv /\ QueueInv /\ EvictInv /\ [Next]_vars => TrimOK
  <2> SUFFICES ASSUME StoreInv, QueueInv, EvictInv, [Next]_vars, stragglers' = {}
               PROVE  TrimOK
    OBVIOUS
  <2>1. NoStraggler
    BY StragglersStay DEF NoStraggler
  <2>2. CASE \E g \in Generations : Command(g)
    BY <2>1, <2>2, TrimStep
  <2>3. CASE \/ \E c \in Callers : CallerStep(c)
             \/ \E g \in Generations : Leave(g) \/ Get(g)
             \/ OwnerStep
             \/ UNCHANGED vars
    <3>1. UNCHANGED db /\ \A i \in DOMAIN items : items'[i] = items[i]
      BY <2>3, CallerShape
      DEF Leave, Get, OwnerStep, StartConnects, PingFails, WorkerStarts, StopAsks,
          StopCloses, vars
    <3> QED
      BY <3>1 DEF Settled
  <2> QED
    BY <2>2, <2>3 DEF Next, WorkerStep
<1>2. [][StoreInv /\ QueueInv /\ EvictInv /\ [Next]_vars]_vars => TrimBoundsFamily
  BY <1>1, PTL DEF TrimBoundsFamily
<1> QED
  BY <1>2, StoreInvariant, QueueInvariant, EvictInvariant, PTL DEF Spec

=============================================================================
