-------------------------------- MODULE AsStack --------------------------------
(***************************************************************************)
(* The life of a signalling stack: BaseAsStack (main.py) with the call map *)
(* (call_controller.py), the transport (transport.py), the server of the   *)
(* internal API (internal_api.py) and the shutdown flag (bootstrap.py).    *)
(*                                                                         *)
(* The application's thread, the owner, calls start, start_internal_api,   *)
(* run and stop.  run is the event loop of sippy (ED2): while it runs, the *)
(* trunk's requests and the timers are handled, one callback at a time.    *)
(* Signals come at any time, and the API is served by a thread of its own. *)
(* ED2 belongs to the process: a timer that is armed when the stack stops  *)
(* fires in the loop of the next start.                                    *)
(*                                                                         *)
(* A call is reduced to what the stack must clean up: its controller, the  *)
(* reference to its no-answer timer, its transactions and their timers.    *)
(* StackCall states that form of a call, and CallController implements it. *)
(***************************************************************************)
EXTENDS Naturals, Sequences

CONSTANTS
  Requests,   \* the requests that reach the trunk
  Tls,        \* the transport is a TlsTransport, else a UdpTransport
  MaxStarts   \* bound: starts of the stack in this process

ASSUME StackAssumption == MaxStarts \in Nat /\ Tls \in BOOLEAN

VARIABLES
  pc,           \* where the owner is
  starts,       \* starts so far
  transport,    \* fields: those of the transport that are set;
                \* open: its sockets, by the name that refers to them
  manager,      \* self.transaction_manager is set, and owns the trunk socket
  loop_timers,  \* self._shutdown_timer and self._reload_timer are set
  handled,      \* the requests that have arrived (history)
  controllers,  \* call_map.controllers
  held,         \* the calls whose controller refers to its no-answer timer
  relayed,      \* the calls that were offered to a hop (history)
  failed_over,  \* the calls whose first timer was lost in a failover (history)
  transactions, \* the manager's tables, tclient and tserver
  timers,       \* the timers armed in ED2
  requested,    \* ShutdownController.requested
  api           \* server: self.internal_api; console: a websocket is open;
                \* lingering: the thread of an earlier server is still there

calls == <<handled, relayed, controllers, held, failed_over, transactions>>
bound == <<transport, manager>>
vars == <<pc, starts, bound, loop_timers, calls, timers, requested, api>>

Loop == {<<"shutdown">>, <<"reload">>}
NoAnswer(r) == <<"no_answer", r>>
Client(r) == <<"tclient", r>>
Server(r) == <<"tserver", r>>

Transactions == {Client(r) : r \in Requests} \cup {Server(r) : r \in Requests}
Timers == Loop \cup {NoAnswer(r) : r \in Requests} \cup Transactions

-----------------------------------------------------------------------------
(* The transport.                                                            *)

At(fields, open) == [fields |-> fields, open |-> open]
NotStarted == At({}, {})

SocketFields == {"_tls_socket", "_local_socket_in", "_local_socket_out"}
Fields == SocketFields \cup {"_running", "_local_udp_port"}

\* The sockets start has in a local variable.
Locals == {"raw_sock", "local"}

\* TlsTransport.start: where it may raise, in order, and where it ends.
TlsStart ==
  LET running == {"_running"}
      tls == running \cup {"_tls_socket"}
      udp == tls \cup {"_local_udp_port"}
      paired == udp \cup {"_local_socket_in"}
  IN << At(running, {}),
        At(running, {"raw_sock"}),
        At(tls, {"_tls_socket"}),
        At(tls, {"_tls_socket", "local"}),
        At(udp, {"_tls_socket"}),
        At(paired, {"_tls_socket", "_local_socket_in"}),
        At(paired \cup {"_local_socket_out"}, SocketFields) >>

\* UdpTransport.start does nothing.
StartPoints == IF Tls THEN TlsStart ELSE <<NotStarted>>

\* start reaches its nth point.  A local socket of an earlier start that raised may
\* still be open: it is, as long as something keeps the exception.
TransportAt(n) ==
  At(StartPoints[n].fields, StartPoints[n].open \cup (transport.open \cap Locals))

\* Mutant: the socket sippy sends from is forgotten.
TransportStoppedButOne(t) ==
  At(t.fields \ (Fields \ {"_local_socket_out"}),
     t.open \ ({"_tls_socket", "_local_socket_in"} \cap t.fields))

\* transport.stop: each socket a field refers to is closed, then each field cleared.
TransportStopped(t) ==
  At(t.fields \ {"_running", "_tls_socket", "_local_socket_in", "_local_socket_out",
                 "_local_udp_port"},
     t.open \ ({"_tls_socket", "_local_socket_in", "_local_socket_out"} \cap t.fields))

Init ==
  /\ pc = "stopped"
  /\ starts = 0
  /\ transport = NotStarted
  /\ manager = FALSE
  /\ loop_timers = FALSE
  /\ handled = {}
  /\ controllers = {}
  /\ held = {}
  /\ relayed = {}
  /\ failed_over = {}
  /\ transactions = {}
  /\ timers = {}
  /\ requested = FALSE
  /\ api = [server |-> "none", console |-> FALSE, lingering |-> FALSE]

-----------------------------------------------------------------------------
(* start                                                                     *)

\* A start comes with a new ShutdownController.
Starting ==
  /\ pc = "stopped"
  /\ starts < MaxStarts
  /\ starts' = starts + 1
  /\ requested' = FALSE

\* start: the transport, an empty call map, the manager.
Start ==
  /\ Starting
  /\ pc' = "bound"
  /\ transport' = TransportAt(Len(StartPoints))
  /\ manager' = TRUE
  /\ controllers' = {}
  /\ held' = {}
  /\ UNCHANGED <<loop_timers, handled, relayed, failed_over, transactions, timers, api>>

\* start raises: in the transport, at any of its points, or in the manager, which
\* cannot bind the trunk socket.
StartFails ==
  /\ Starting
  /\ pc' = "failed"
  /\ \E n \in DOMAIN StartPoints :
       /\ transport' = TransportAt(n)
       /\ \/ UNCHANGED <<controllers, held>>
          \/ n = Len(StartPoints) /\ controllers' = {} /\ held' = {}
  /\ UNCHANGED <<manager, loop_timers, handled, relayed, failed_over, transactions,
                 timers, api>>

\* The exception of a start that raised is dropped, its frame with it, and CPython
\* closes the socket the frame referred to.
LocalsCollected ==
  /\ transport.open \cap Locals # {}
  /\ transport' = At(transport.fields, transport.open \ Locals)
  /\ UNCHANGED <<pc, starts, manager, loop_timers, calls, timers, requested, api>>

-----------------------------------------------------------------------------
(* run: the event loop.                                                      *)

Run ==
  /\ pc = "bound"
  /\ pc' = "looping"
  /\ loop_timers' = TRUE
  /\ timers' = timers \cup Loop
  /\ UNCHANGED <<starts, bound, calls, requested, api>>

\* Mutant: the poll timer fires once.
PollShutdownOnce ==
  /\ pc = "looping"
  /\ <<"shutdown">> \in timers
  /\ IF requested THEN pc' = "left" /\ timers' = timers
     ELSE pc' = pc /\ timers' = timers \ {<<"shutdown">>}
  /\ UNCHANGED <<starts, bound, loop_timers, calls, requested, api>>

\* _poll_shutdown, a periodic timer.
PollShutdown ==
  /\ pc = "looping"
  /\ <<"shutdown">> \in timers
  /\ requested
  /\ pc' = "left"
  /\ UNCHANGED <<starts, bound, loop_timers, calls, timers, requested, api>>

\* A request arrives, and sippy makes the server transaction of it.
Arrives(r) ==
  /\ pc = "looping"
  /\ manager
  /\ r \notin handled
  /\ handled' = handled \cup {r}

\* recv_request answers 403, 481 or 501: no call comes of it.
RequestRefused(r) ==
  /\ Arrives(r)
  /\ transactions' = transactions \cup {Server(r)}
  /\ timers' = timers \cup {Server(r)}
  /\ UNCHANGED <<pc, starts, bound, loop_timers, relayed, controllers, held,
                 failed_over, requested, api>>

\* Mutant: the calls that hold no timer are taken for ended and pruned, and so is
\* the new one.
RememberedAndPruned(r) == {c \in controllers \cup {r} : c \in held}

\* _new_controller: no controller is ever taken out of the list.
Remembered(r) == controllers \cup {r}

\* The controller decides to reject the call.
CallRejected(r) ==
  /\ Arrives(r)
  /\ controllers' = Remembered(r)
  /\ transactions' = transactions \cup {Server(r)}
  /\ timers' = timers \cup {Server(r)}
  /\ UNCHANGED <<pc, starts, bound, loop_timers, relayed, held, failed_over,
                 requested, api>>

\* The controller relays the call to its first hop, whose answer it watches.
CallRelayed(r) ==
  /\ Arrives(r)
  /\ relayed' = relayed \cup {r}
  /\ controllers' = Remembered(r)
  /\ held' = held \cup {r}
  /\ transactions' = transactions \cup {Server(r), Client(r)}
  /\ timers' = timers \cup {Server(r), Client(r), NoAnswer(r)}
  /\ UNCHANGED <<pc, starts, bound, loop_timers, failed_over, requested, api>>

\* Mutant: the reference is dropped, the timer is not cancelled.
CallSettlesForgetsTimer(r) ==
  /\ pc = "looping"
  /\ r \in held
  /\ held' = held \ {r}
  /\ UNCHANGED <<pc, starts, bound, loop_timers, handled, relayed, controllers,
                 failed_over, transactions, timers, requested, api>>

\* The hop answers, or the call fails: the timer the controller refers to is cancelled.
CallSettles(r) ==
  /\ pc = "looping"
  /\ r \in held
  /\ held' = held \ {r}
  /\ timers' = timers \ {NoAnswer(r)}
  /\ UNCHANGED <<pc, starts, bound, loop_timers, handled, relayed, controllers,
                 failed_over, transactions, requested, api>>

\* The hop fails and the call is offered to the next one: the timer that is
\* cancelled is the one just armed for it, and that of the first hop, unless it was
\* cancelled before, stays armed with nothing referring to it (CallController:
\* RelayFromNextHop).
CallFailsOver(r) ==
  /\ pc = "looping"
  /\ r \in relayed \cap controllers
  /\ held' = held \ {r}
  /\ failed_over' = failed_over \cup (held \cap {r})
  /\ transactions' = transactions \cup {Client(r)}
  /\ timers' = timers \cup {Client(r)}
  /\ UNCHANGED <<pc, starts, bound, loop_timers, handled, relayed, controllers,
                 requested, api>>

\* The no-answer timer fires.  The call may be ended, or be offered to another hop,
\* or be answered or over already, in which case the reference stays.
NoAnswerFires(r) ==
  /\ pc = "looping"
  /\ r \in controllers
  /\ NoAnswer(r) \in timers
  /\ \/ /\ timers' = timers \ {NoAnswer(r)}
        /\ UNCHANGED <<held, transactions>>
     \/ /\ held' = held \ {r}
        /\ \E started \in SUBSET {Client(r)} :
             /\ timers' = (timers \ {NoAnswer(r)}) \cup started
             /\ transactions' = transactions \cup started
  /\ UNCHANGED <<pc, starts, bound, loop_timers, handled, relayed, controllers,
                 failed_over, requested, api>>

\* The timer of a call of an earlier start fires, in a controller no call map knows: it
\* is consumed, or that controller fails over and arms another, which it refers to but
\* no stop will find.  The transactions are those of a manager that is shut down, so
\* the tables of this one are untouched (CallController: LateTimerFires).
LateTimerFires(r) ==
  /\ pc = "looping"
  /\ r \notin controllers
  /\ NoAnswer(r) \in timers
  /\ timers' \in {timers \ {NoAnswer(r)}, timers}
  /\ UNCHANGED <<pc, starts, bound, loop_timers, calls, requested, api>>

\* sippy: a transaction is over and its timers with it, or waits with none armed.
TransactionEnds(t) ==
  /\ pc = "looping"
  /\ t \in transactions
  /\ transactions' = transactions \ {t}
  /\ timers' = timers \ {t}
  /\ UNCHANGED <<pc, starts, bound, loop_timers, handled, relayed, controllers, held,
                 failed_over, requested, api>>

TransactionWaits(t) ==
  /\ pc = "looping"
  /\ t \in transactions \cap timers
  /\ timers' = timers \ {t}
  /\ UNCHANGED <<pc, starts, bound, loop_timers, calls, requested, api>>

-----------------------------------------------------------------------------
(* Other threads: the signal handler, the server of the API, its console.   *)

Signal ==
  /\ pc # "stopped"
  /\ ~requested
  /\ requested' = TRUE
  /\ UNCHANGED <<pc, starts, bound, loop_timers, calls, timers, api>>

\* InternalApiServer.start: the port is bound by the thread, which ends when that
\* fails; start returns in either case.
ServerOutcomes == {"serving", "dead"}

\* start_internal_api: the stack keeps the server, dead or not.
StartInternalApi ==
  /\ pc = "bound"
  /\ api.server = "none"
  /\ \E outcome \in ServerOutcomes : api' = [api EXCEPT !.server = outcome]
  /\ UNCHANGED <<pc, starts, bound, loop_timers, calls, timers, requested>>

ConsoleOpens ==
  /\ pc # "joining"
  /\ api.server = "serving"
  /\ ~api.console
  /\ api' = [api EXCEPT !.console = TRUE]
  /\ UNCHANGED <<pc, starts, bound, loop_timers, calls, timers, requested>>

ConsoleCloses ==
  /\ api' \in {[api EXCEPT !.console = FALSE], [api EXCEPT !.lingering = FALSE]}
  /\ api' # api
  /\ UNCHANGED <<pc, starts, bound, loop_timers, calls, timers, requested>>

-----------------------------------------------------------------------------
(* stop                                                                      *)

\* call_map.dispose: the timers the controllers refer to.
Disposed == {NoAnswer(r) : r \in controllers \cap held}

\* cancel_transaction_timers: those of the transactions in the tables.
Cancelled(tables) == IF manager THEN Transactions \cap tables ELSE {}

\* Mutant: the manager is shut down first, and its tables are empty when the
\* timers of the transactions are looked for.
StopShutsDownFirst ==
  /\ pc \in {"bound", "failed", "left"}
  /\ pc' = "joining"
  /\ timers' = timers \ (Disposed \cup Cancelled({})
                         \cup (IF loop_timers THEN Loop ELSE {}))
  /\ loop_timers' = FALSE
  /\ held' = held \ controllers
  /\ transactions' = {}
  /\ manager' = FALSE
  /\ UNCHANGED <<starts, transport, handled, relayed, controllers, failed_over,
                 requested, api>>

\* stop up to the join of the API thread: the loop timers, the calls, the
\* transactions and the manager, each if it is there.
Stop ==
  /\ pc \in {"bound", "failed", "left"}
  /\ pc' = "joining"
  /\ timers' = timers \ (Disposed \cup Cancelled(transactions)
                         \cup (IF loop_timers THEN Loop ELSE {}))
  /\ loop_timers' = FALSE
  /\ held' = held \ controllers
  /\ transactions' = {}
  /\ manager' = FALSE
  /\ UNCHANGED <<starts, transport, handled, relayed, controllers, failed_over,
                 requested, api>>

\* The API thread has ended, or the join of 3 s expires: the server waits for its
\* connections, and the feed of an idle console does not notice (ws_events).
StopEnds ==
  /\ pc = "joining"
  /\ pc' = "stopped"
  /\ transport' = TransportStopped(transport)
  /\ api' = [server |-> "none", console |-> FALSE,
             lingering |-> api.lingering \/ api.console]
  /\ UNCHANGED <<starts, manager, loop_timers, calls, timers, requested>>

-----------------------------------------------------------------------------
Owner == Run \/ StartInternalApi \/ Stop \/ StopEnds

Callback ==
  \/ \E r \in Requests : RequestRefused(r) \/ CallRejected(r) \/ CallRelayed(r)
  \/ \E r \in Requests : CallSettles(r) \/ CallFailsOver(r) \/ NoAnswerFires(r)
  \/ \E r \in Requests : LateTimerFires(r)
  \/ \E t \in Transactions : TransactionEnds(t) \/ TransactionWaits(t)

Next ==
  \/ Start
  \/ StartFails
  \/ LocalsCollected
  \/ Owner
  \/ PollShutdown
  \/ Callback
  \/ Signal
  \/ ConsoleOpens
  \/ ConsoleCloses

Spec == Init /\ [][Next]_vars

\* The application goes on to run, and to stop once the loop returns; the loop runs
\* the timers that are due.  Nothing is assumed of calls, signals and consoles.
FairSpec == Spec /\ WF_vars(Owner) /\ WF_vars(PollShutdown)

-----------------------------------------------------------------------------
(* Properties.                                                               *)

\* Every variable has its type; only calls the map remembers hold a timer, and
\* there are transactions only under a manager (_new_controller, stop).
TypeOK ==
  /\ pc \in {"stopped", "failed", "bound", "looping", "left", "joining"}
  /\ starts \in 0..MaxStarts
  /\ transport \in [fields : SUBSET Fields, open : SUBSET (SocketFields \cup Locals)]
  /\ manager \in BOOLEAN /\ loop_timers \in BOOLEAN /\ requested \in BOOLEAN
  /\ handled \subseteq Requests
  /\ relayed \subseteq handled
  /\ controllers \subseteq handled
  /\ held \subseteq controllers
  /\ failed_over \subseteq handled
  /\ transactions \subseteq Transactions
  /\ transactions # {} => manager
  /\ timers \subseteq Timers
  /\ api \in [server : {"none", "serving", "dead"}, console : BOOLEAN,
              lingering : BOOLEAN]

\* What stop can find: the loop timers, the timers the controllers in the map refer
\* to, those of the transactions in the tables.
Reachable ==
  (IF loop_timers THEN Loop ELSE {}) \cup Disposed \cup Cancelled(transactions)

\* The first attempt's timer of a call that failed over is out of reach, and so is what
\* its controller arms when that timer fires in a later start: a defect of the
\* controller, which the runs of CallController show.
Orphans == {NoAnswer(r) : r \in failed_over}

\* Whatever happens to the calls, every armed timer can be found by a stop, except
\* the orphans (stop, dispose, cancel_transaction_timers).
ArmedIsReachable == timers \subseteq Reachable \cup Orphans

\* "Everything the stack armed has to be cancelled" (stop): when stop returns, and in
\* the next start until it arms timers of its own, nothing but orphans is armed.
StopLeavesNoTimer ==
  pc \in {"joining", "stopped", "failed", "bound"} => timers \subseteq Orphans

\* When stop returns, nothing is held of the stack, also when start failed half way: no
\* field of the transport is set, and no socket is open but one start had not yet put
\* in a field when it raised, which stop cannot reach (stop, transport.stop).
StopReleasesAll ==
  pc = "stopped" =>
    /\ transport.fields = {} /\ transport.open \subseteq Locals
    /\ ~manager /\ ~loop_timers /\ held = {}

\* A signal, whenever it comes, ends in a stop that is complete (_poll_shutdown, stop).
SignalStopsStack == requested /\ pc # "stopped" ~> pc = "stopped"
=============================================================================
