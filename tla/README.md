# TLA+ models of as_platform

`as_platform` is the library under SIP application servers (AS): a back-to-back user agent
on top of sippy's event loop, with an allowlisted trunk, a failover walk over next hops, a
state store, an event recorder with a live feed, an internal HTTP API, and a capacity
harness. This directory holds TLA+ models of its stateful parts, the TLC configurations that
check them on small instances, and proofs of the safety properties that matter most.

Source paths below are relative to `src/as_platform/`.

## 1. Inventory

| Component | State | Operations | What is hard | What makes it correct |
|---|---|---|---|---|
| Call controller, `call_controller.py` `BaseCallController` | the two legs `uaA`/`uaO`, the hops left, the hop served, the no-answer timer, the decision | `recv_request`, `recv_event`, `_on_next_hop_no_answer`, `dispose` | events of legs that failover has replaced, timers against answers, a caller that hangs up during failover | one live leg at a time, hops in order, an answered caller is bridged, each call counted once, nobody waits for ever |
| Trunk call map, `call_controller.py` `BaseCallMap` | the list of controllers | `recv_request` (403, 481, 501, new call), `dispose` | the list is never pruned, and is all that `dispose` knows | every timer of a call stays reachable |
| Signalling stack, `main.py` `BaseAsStack`, `bootstrap.py`, `sip_adapter.cancel_transaction_timers` | transport, transaction manager, call map, loop timers, API server, shutdown flag | `start`, `start_internal_api`, `run`, `_poll_shutdown`, `stop`, signal handlers | the order of `stop`, a `start` that fails half way, timers in a loop that outlives the stack, signals at any time | a stop cancels and releases everything, and follows every signal |
| Transport, `transport.py` | sockets of `TlsTransport` | `start`, `stop` | partial starts | `stop` releases what `start` got |
| State store, `state_store.py` | `OrderedDict` and lock; or queue, worker, client, work items | `read`, `write`, `trim`, `start`, `stop` | threads, timed waits, a worker that hangs or dies, restarts, Redis failures | linearizable LRU; FIFO, drained by stop, no caller stuck |
| Trace recorder, `observability/tracing.py` | bounded traces in order of last update | `record`, `recent`, `known_call_ids` | eviction and reuse of a Call-ID | the latest calls are retained |
| SIP capture, `observability/tracing.py` `SipMessageRecorder`, `DualSipLogger`; `internal_api.py` `messages_payload` | bounded list of messages | `write`, `messages_for_any` | one bound for all calls, two legs per call | what is told of a call is the end of its exchange, in order |
| Event feed, `internal_api.py` `ws_events` | the Call-IDs already seen | poll, send, disconnect | two lock acquisitions and an await in one poll | no new call lost, none sent twice |
| Internal API server, `internal_api.py` | server thread | `start`, `stop`, routes | binding in the thread, join that expires | released by the stack |
| Metrics, `observability/metrics.py` | counters, peer status | locked increments, `snapshot` | consistency with the call | outcomes bounded by the calls, status follows the hunt |
| Capacity driver, `capacity_harness.py` | counters of a level, barrier, worker and call threads | `run` | calls and workers that outlive a level, thread limits | results add up, run returns |
| `hop.py`, `route_header.py`, `errors.py`, `version.py`, `logging.py`, rest of `sip_adapter.py` | none | parsing, formatting | none | left out: pure functions and value types |

How they interact: sippy's loop (one thread) calls the call map with a request, which makes a
controller; the controller drives two sippy user agents through `recvEvent` and is called
back through `recv_event`; it writes metrics and traces, which the API's thread reads under
locks. An application's `decide` may call the state store, on the loop's thread. The stack
owns all of it, and its `run` ends when a loop timer sees the flag a signal handler set.

## 2. Modules

| Module | Models | Composes with |
|---|---|---|
| `HopHunt` | abstract: a caller's view of a hunt over hops | implemented by `CallController` |
| `StackCall` | abstract: what a stack must know of a call to clean it up | implemented by `CallController`, the form calls have in `AsStack` |
| `CallController` | one call, both legs, the hop walk, timers, metrics, dispose | `Hunt == INSTANCE HopHunt`, `OfStack == INSTANCE StackCall` |
| `CallController_proofs` | theorems about it | extends `CallController` |
| `StateStore` | abstract: calls that take effect at one instant, LRU order, trim | implemented by `InMemoryStateStore` |
| `InMemoryStateStore` | the lock and each dictionary operation inside it | `Store == INSTANCE StateStore` |
| `InMemoryStateStore_proofs` | theorems about it | extends `InMemoryStateStore` |
| `RedisStateStore` | callers, queue, worker threads by start, Redis and its failures | |
| `RedisStateStore_proofs` | theorems about it | extends `RedisStateStore` |
| `TraceFeed` | the recorder and one console's feed | |
| `TraceFeed_proofs` | theorems about it | extends `TraceFeed` |
| `SipCapture` | the capture of messages and the answer of the messages route | |
| `Observability` | both, written by sippy's thread and read by the API's | extends `TraceFeed`, `Capture == INSTANCE SipCapture` |
| `Observability_proofs` | theorems about the capture and the composition | extends `Observability`, `TraceFeed_proofs` |
| `AsStack` | the life of a stack with the call map, the transport, the API server's thread | calls reduced to what a stop must clean up |
| `AsStack_proofs` | theorems about it | extends `AsStack` |
| `CapacityDriver` | levels, barrier, workers, calls | |
| `CapacityDriver_proofs` | theorems about it | extends `CapacityDriver` |
| `MC*` | the small instances | extend the module they name |

A step is what no other thread or callback can divide: a whole callback in the loop of sippy
(`CallController`, `AsStack`), a method under its lock (`TraceFeed`), or the code between two
accesses to shared state (`InMemoryStateStore`, `RedisStateStore`, `CapacityDriver`).

### CallController

Variables are the controller's attributes under their own names; `legs` keeps every
originating user agent ever made, because sippy still raises events for those that failover
replaced, and `timers.armed` keeps the timers in the loop apart from `timers.ref`, the one
`self._no_answer_timer` points at. `OriginateTowards`, `TryFailover`, `RelayFromNextHop`,
`RelayToTrunk`, `RecvEvent` are the methods of those names, written as operators on the
whole chain of calls a callback makes; the actions are the callbacks (`InviteRelayed`,
`InviteRejected`, `DecideRaises`, `TrunkHangsUp`, `HopRings`, ..., `NoAnswerFires`,
`Dispose`). After `Dispose` only `LateTimerFires` is left: a timer that failover lost fires in the
loop of a later start.

sippy is external and modelled from its use here: `recvEvent` drives a leg and raises
nothing; a message from the wire drives it and raises one event through the callback;
`disconnect()` does both and raises `CCEventDisconnect` unless the leg is dead; a 100 Trying
raises no event and ends the retransmission timeout of the INVITE; a 3xx ends the leg with
`CCEventRedirect`, which the controller relays without cancelling its timer, trying a hop or
counting an outcome; timers of one length fire in the order in which they were armed. Once the
stack has stopped, the controller still has its own copy of `global_config` with the manager
that was shut down: a new INVITE through it raises, after the new timer is armed and before
anything cancels it, and an answer to the trunk may raise.

### AsStack

`pc` is where the owner of the stack is between the calls of `start`, `run` and `stop`;
`timers` is what is armed in the process-wide loop `ED2`, which no stop clears; the other
variables are the fields a stop works from. A call is its controller, the reference to its
no-answer timer, its transactions and their timers; what `CallController` shows of failover
is kept here as `CallFailsOver`, after which the first timer, unless it was cancelled before,
is armed with nothing referring to it (an orphan). A later start's loop fires it
(`LateTimerFires`): it is consumed, or the old controller fails over and arms another that no
stop finds. `StackCall` states this reduction (at most one timer is ever armed; it is referred
to or lost; failover makes no other; a late one leaves at most one behind), and
`CallController` implements it, by TLC and by proof. The link from `StackCall` to `AsStack` is
not checked: the actions correspond by name and by reading.

`transport` is which fields of the transport are set and which of its sockets are open.
`TlsStart` lists the points of `TlsTransport.start` at which it may raise, the last of which is
its end; `StartFails` stops at any of them, or in the manager. `TransportStopped` is
`TlsTransport.stop`, which closes the sockets its fields refer to and clears the fields. The
listener is bound while only the local `raw_sock` refers to it: a start that raises there leaves
it to CPython, which closes it once the exception is dropped (`LocalsCollected`), and a stop does
not reach it. `_bridge_threads` is always empty. The API's thread is reduced to whether `stop`
finds it gone or leaves it behind.

### State stores

`InMemoryStateStore` has a step for every dictionary operation, so that the lock is what
makes a method atomic. The `OrderedDict` is the record of each key and an order on the keys
that are there; `settled` remembers both as they were when the lock was last given back, and
the refinement of `StateStore` is of `settled`: a method takes effect when it gives the lock
back. `RedisStateStore` gives each `start` a worker of its own, since a worker that
hangs in Redis when `stop` gives up its join (2 s) is still there when the next one is made.
Redis may apply a command, fail it, apply it and lose the answer, or hang; SCAN names every
key once; a failed command takes effect when it fails or never. The order in which a trim
picks its victims is arbitrary in this model, as idle times are coarse.

### TraceFeed

`Record` is the whole locked body: append, move to the end, drop above the bound. The feed
has a step for `known_call_ids`, one for `recent` and one for the send. A trace is known by
its Call-ID and the event it began with, which tells a trace that was dropped and started
again from the first one.

### SipCapture and Observability

A message is its Call-ID, and a Call-ID the identifier its first user agent gave with the
number of times an AS has derived another from it (`outbound_call_id`), so that a call that
comes back to the trunk of the AS that relayed it shares a Call-ID with the one before.
`Write` is `SipMessageRecorder.write` as `DualSipLogger` calls it; the answer of the messages
route is `MessagesForAny(LegsOf(id))`, given as the places of its messages in the capture, in
whose order the route lists them. `Observability` lets the steps of the two stores and of
the feed interleave: sippy's thread writes, the API's reads, and the stores share neither a
lock nor a bound. `SpecBoth` is both without fairness; each of the two parts takes the steps of
its own specification or none.

### CapacityDriver

The main thread, each worker and each call's thread are actors. A call returns, raises or
never ends; a wait or a join may expire when what it waits for is not there; a thread may not
be startable.

## 3. Runs

All of them finish in at most about a minute. Deadlock checking is off where the system may
really stop (a call or a stack that is over, a driver that has returned, no more requests
within the bound); the in-memory store never stops, so there it is on, and shows that every
path through a method gives the lock back.

| Run | Instance | What it shows |
|---|---|---|
| `call` | 3 hops, every list of 1 to 3 of them, repetitions included | type, one live leg, order of hops, that a caller who waits has a hop that may answer and an answered one is bridged, peer status, the first timer, at most one outcome before failover and two in all, refinement of `HopHunt`, replaced legs and late timers do nothing, refinement of `StackCall`, a silent first hop is given up, the caller of a single-hop call hears |
| `attempt_watched` | same | refuted: a failover attempt has no timer (section 6) |
| `ringing_hop` | same | refuted: the timer of a failed hop tears down a ringing one |
| `counted_once` | same | refuted: a failed call is counted a second time by that timer |
| `finished_counted` | same | refuted: a relayed call ended by its caller is counted nowhere |
| `memory_store` | 2 threads, 3 keys in two families (one of all keys), limits 0 and 1 | `InMemoryStateStore` implements `StateStore`; no deadlock |
| `redis_store` | 2 callers, 2 items, 2 starts, records left in Redis by earlier processes | unless a join timed out: FIFO, a read sees the last write before it, stop drains, no worker meets a closed client, trim drops what it should; always: every call and every stop returns |
| `none_is_absent` | same | refuted: `None` can mean "gave up waiting" |
| `trace_feed` | `Observability`: 3 calls, 2 traces retained, 2 per poll, 5 events; 3 messages of the legs of a call that may come back, or without Call-ID, 2 retained | retention by last update; no trace sent twice; a call is seen only when it is sent, and one that starts during a poll is still sent; the messages route answers with the end of the exchange, in order, and with all that is recent of it |
| `seen_was_pushed` | `TraceFeed` alone, 1 trace per poll | refuted: of more new calls than a poll reads, the older ones are marked seen and never sent |
| `stack` | TLS transport, 2 requests, 2 starts | every timer reachable but the orphans, nothing else armed after a stop, every socket closed and every field cleared, whichever point of `start` raised, a signal ends in a complete stop |
| `capacity` | 2 levels of 2 calls | calls start together, results account for every call made, no result claims more completions than calls that ended, run returns though no call does |

Bounds and why they suffice. Three hops with repetition give a first, a middle and a last
hop, and a hop that is tried twice; a fourth repeats the middle. Two Redis items are enough
for a write and a read behind it, and a trim, because Redis starts with any contents; two
starts are enough for a left-behind worker beside its successor. Three keys are two of a
family and one outside. Three calls with two retained evict, and bring an evicted Call-ID
back; five events let a call be updated, evicted and started again. Three messages with two
retained make the bound cut one leg of a call or another call. Two requests let one call fail
over or be refused while the other waits; two starts let what is left of the first meet the second. Two
levels let calls and workers of the first run into the second. Each property has a mutant of
the code, kept beside the definition it changes (`\* Mutant:`), that these very instances
refute it for.

## 4. Fairness

- `CallController`: weak fairness of the no-answer timers while the stack runs, as the loop
  runs what is due; none for timers that outlived it. Nothing is assumed of callers, hops and sippy's own timers, which is why
  only what rests on the controller's own timer is claimed to happen.
- `RedisStateStore`: a wait of 10 s and a join of 2 s end; a worker outside a Redis command
  goes on. Redis itself may hang for ever.
- `TraceFeed`: the API's loop runs the feed. The console may vanish.
- `AsStack`: the application goes on from `start` to `run` and from `run` to `stop`, the
  join ends, and the loop runs the shutdown poll. Nothing of calls and signals.
- `CapacityDriver`: threads that can run do, waits expire. Calls need not end.
- `InMemoryStateStore`: none.

## 5. Proofs

TLAPS checks them for every value of the constants.

`CallController_proofs` assumes `HopListsAssumption`: a decision names at least one hop, and
the trunk's name is not a hop's. The inductive invariant `Inv` is the conjunction of
`TypeOK`, `HopsTriedInOrder`, `SingleLiveLeg`, `BridgedWhileConnected`,
`FirstTimerFollowsHop`, and of what those need: `StartInv` (before the INVITE there is neither
route nor leg nor timer), `StatusInv` (the hop served is reported as it was when it was offered
the call, every other one tried is reported unreachable), `TimerInv` (the only timer ever
pending is that of the first attempt, or, once the stack has stopped, the one referred to) and `CountInv`. None of the first is inductive alone: that a failed leg
is replaced and not relayed depends on the agreement of the hop lists. `CountInv` counts, beside
the outcomes recorded, what may still record one: a served leg that is live, and a timer that is
armed. `Within` bounds the sum, and each callback that records an outcome uses one of them up.
Two outcomes are really reached (the last hop's failure, then the lost timer of the first), so
the bound of `OutcomesBounded` cannot be improved for this code. From `Inv` follow
`TypeCorrect`, `OneLegAtATime`, `HuntInOrder`, `PeerStatusCorrect`, `FirstTimerIsSound`,
`AtMostTwoOutcomes`, the action properties `StaleEventsIgnored` and `AnsweredCallKept`, and the
refinements `ControllerImplementsHopHunt` and `ControllerImplementsStackCall` (which rests on
`TimerInv` and makes the calls of `AsStack` a sound reduction), each for hop lists of any length.
On top of it `WaitingInv` (a caller who waits is served by a leg that may still answer) gives
`CallerIsServed` and, with the timer, `CallerHasItsTimer`. `FailureIsTheLastHops` is proved of
`HopHunt` and carried over to the controller by the refinement.

`AsStack_proofs` assumes `StackAssumption`, the types of its two parameters. `StackInv` is
`TypeOK`, `ArmedIsReachable`, `StopLeavesNoTimer` and `Phases`, which ties the references a
stop works from to the phase of the stack: without it, a stop might find a reference dropped
whose timer is armed. It also says that every open socket is in the field of its name or still
in a local variable of `start` (`PointTypes`, of each point of `start`), so that closing what the
fields refer to closes all the others (`StoppedTransport`). Results: `StackTypeCorrect`, `TimersAreReachable`,
`StopCancelsTimers`, `StopReleases`, for any number of calls and starts; and `SignalsAreKept`,
by an invariant of its own (`LoopIsPolled`): the callbacks that cancel timers in the loop never
touch the one that polls for a signal.

`RedisStateStore_proofs` assumes that reading a dumped record back is idempotent and never
`None` (`JsonAssumption`), that there are finitely many keys (`FamilyAssumption`), and that
requests are reads, writes and trims (`RequestAssumption`). The invariant comes in four
layers, each proved on top of the one before. `StoreInv` holds always: `TypeOK`, `Threads`
(the references to worker and client by phase of start and stop) and `Taking` (nothing beyond
`taken` is settled, a worker works on an item that was taken). The others hold as long as no
join has timed out, and need it, since a straggler beside the next worker breaks each of them.
`QueueInv`: the worker of the last start is the only one alive, its item is the last one
taken, everything before that is settled, and the client is there while it is. `RecordInv`:
Redis holds the record of every successful write that nothing taken after it may have
replaced, which is what makes a read see the last write. `EvictInv`: a worker that evicts has
exactly the family's excess left. Results: `RedisTypeCorrect`, `ItemsSettleInOrder`,
`StopDrainsQueue`, `ClientIsThere`, `ReadsSeeWrites` and `TrimsAreExact`, for any number of
callers, items and starts and with commands failing before or after Redis has applied them:
every safety property the run of this module checks.

`InMemoryStateStore_proofs` assumes `StoreAssumption`: families of keys, natural limits, and
a `None` that is neither a value nor a thread. The invariant says that the thread that is in
the body of a method is the one that holds the lock, that nothing is touched while it is free,
and, of the holder, how far the dictionary is from `settled` (`Work`): a read has at most moved
its key, a write has assigned its own, a trim has dropped the oldest keys of its family, of
which it still lists the rest. The last is what makes the last step of a trim one step of
`StateStore`. Results: `MemoryTypeCorrect`, and the refinement `MemoryStoreImplements`, for
any threads, keys, overlapping families and limits. `TrimIsDecidedByUse` says what the promise
of `StateStore` comes to: since the keys are in line whenever the lock is free (`SettledLine`),
its description of what a trim drops fits one set of keys only, and never the key used last.
That such a set always exists would take an induction over the family, and is not claimed; the
implementation finds one.

`TraceFeed_proofs` assumes `FeedAssumption` (positive bounds). `PushInv`: what was sent, if it
is still retained, is of a Call-ID in the set of seen ones and in the one about to replace it;
that a Call-ID dropped and started again has another trace rests on the event it began with.
`BatchInv`: between `recent` and the send, the batch has a trace of every call that is about to
be marked as seen, as long as no more calls were recorded than are retained and read in one poll
(`FewCalls`). `LogInv` and `RetainInv` relate the order of the traces to the last events of their
calls, by a lemma on what one `Record` does to positions (`RecordShifts`). Results:
`FeedTypeCorrect`, `NoTraceTwice`, `LatestCallsRetained` and the action property
`SeenCallsAreSent`, for any number of calls and events.

`Observability_proofs` assumes `CaptureAssumption` (a positive bound of the capture).
`CaptureInv`: the messages retained are the last ones of the wire, and all of them until the
bound is reached; `AnswersAreEnds` follows for `SipCapture` alone. `FeedIsUndisturbed` and
`CaptureIsUndisturbed` say that every behaviour of the composition is one of each part, so that
`ObservabilityIsSafe` has the safety of both, which is what the run of the composition checks.

`CapacityDriver_proofs` assumes the levels are a finite list of positive numbers
(`LevelsAssumption`). `Phases` ties the phase of each worker to that of the main thread,
`CountInv` equates each level's counters with the number of its workers that have counted, and
`ResultInv` says that a result is its level's counters unless a join expired, and never names
more completed calls than they do. Results: `CapacityTypeCorrect`, `CallsAreTogether`,
`LevelsAddUp`, `CompletionsAreReal`, for any levels. Two more invariants say which workers have
been started at each point of a level: those before the one main is at (`GatherInv`), and no
other (`FreshInv`). They give `BarrierGetsItsParties` and `EveryStepIsForward`.

Only model-checked: the liveness properties, since neither fairness (`ENABLED`) nor leads-to
under it is within reach of the prover. Every safety property that a passing run checks is a
theorem. For the liveness properties that rest on more than a wait that expires, the part that
is safety is proved, so that only the scheduling of section 4 is left to TLC:

| Liveness, by TLC | Its safety part, by TLAPS |
|---|---|
| `FirstHopGivenUp` | `FirstTimerIsSound`: while the first hop is silent its timer is armed, and when that has fired the hop is not silent any more |
| `SingleHopCallerHears` | `CallerHasItsTimer`: a single-hop caller who has heard nothing has that timer armed |
| `NewCallIsPushed` | `SeenCallsAreSent`: a call is taken for seen only in a step that sends it |
| `SignalStopsStack` | `SignalsAreKept`: the flag stays set until the stack has stopped, and the poll of the loop stays armed |
| `RunReturns` | `BarrierGetsItsParties` and `EveryStepIsForward`: nobody waits for what cannot come, and no run goes on for ever |
| `EveryCallReturns`, `StopReturns`, `IdleWorkerLeaves` | none: they rest on waits that expire and on a worker that reads its queue |

## 6. Where the code and its documentation disagree

The first six are shown by runs; the trace of TLC is the scenario.

1. `call_controller.py:500` cancels the timer that failover has just armed for the next hop
   (`attempt_watched`).
2. `call_controller.py:613` drops the reference to the first hop's timer, which later tears
   down whichever leg is served (`ringing_hop`).
   The same timer survives `dispose`, which knows the last one only, although it is to drop the
   timers "so they cannot outlive the stack"; in `AsStack` these are the orphans that the stop
   properties have to except.
3. `call_controller.py:521`: a call that was failed over can be counted twice, by the failure of
   its last hop and again when that timer fires (`counted_once`; `OutcomesBounded` has the bound
   that is left).
4. `call_controller.py:473`: a relayed call its caller ends is counted in no disposition
   (`finished_counted`).
5. `state_store.py:330`: a read that gives up returns `None`, as if the key were absent
   (`none_is_absent`).
6. `internal_api.py:399`: calls beyond 50 per poll are marked as seen without being sent
   (`seen_was_pushed`).
7. Without a run: only a failover reports a hop unreachable (`call_controller.py:544`), so that
   the last or only hop of a list keeps the status it was given before its INVITE, reachable,
   though nothing was ever heard of it, while `metrics.py:79` calls it the last observed status.
   `PeerStatusFollowsHunt` asks `reachable` of a live leg only.
8. Without a run: `RedisStateStore.write` accepts what is not JSON (`default=str`) and stores
   its text (`state_store.py:248`), and every call of the store waits for the worker though
   the class says a callback only enqueues (`state_store.py:159`); `TlsTransport.start`
   starts no bridge; a port the API cannot bind is not reported to the caller; the capacity
   driver counts a call that raised as completed and leaves calls running into the next
   level. `PROJECT.json` quotes the lines.

A caller that hangs up after the first INVITE leaves the timer and the remaining hops as they
are, and the call goes on to other hops. The models do the same; the code's documentation does
not say what should happen, so no property is stated.

## 7. Not modelled

Events of a hop that leave a call as it is (`CCEventUpdate`, `CCEventInfo` and the like, which
take the same path as a redirect), an answer to a late offer (`CCEventPreConnect`, which ends
neither leg), `check_port_available` (a probe without state), the reload hook and `decide`
(application code, except that `decide` may raise), texts, headers and number rewriting, the
HTTP routes (reads of locked snapshots), `clear` of the two recorders (tests only), a second
console beside the first (a feed only reads the recorder and has a state of its own), the
application's own counters (locked increments), the measurement of the loop's delay, and the
value types. `BaseCallMap` refuses a request for one of three reasons; the reason is abstracted,
since all three leave the same state.

## 8. Plan

Done: every module of the plan; a theorem for each safety property of all six concurrent
components; the safety parts of the liveness properties above.

Left, should it be wanted:

1. `AsStack` with its calls as instances of `StackCall`, so that what `CallController`
   implements and what the stack cleans up is one definition and not two of the same names.
2. What `RedisStateStore` still promises while a worker left behind by an expired join is
   alive; its ordering properties are stated for the time before.
3. The promises of `TraceFeed` and `SipCapture` about one call together: that the console's
   trace and messages of a call cover the same part of it, which the two bounds do not grant.
4. Repaired versions of the defects of section 6 as variants of the actions, to check that the refuted
   properties hold of them.
