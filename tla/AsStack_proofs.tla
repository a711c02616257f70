----------------------------- MODULE AsStack_proofs -----------------------------
(***************************************************************************)
(* Proofs about AsStack, for any requests, transport and number of starts: *)
(* the types, and the three safety properties of stop.                     *)
(***************************************************************************)
EXTENDS AsStack, TLAPS

\* The stack is not under way: no callback runs, and what is armed is left over.
Halted == {"joining", "stopped", "failed", "bound"}

\* The inductive invariant.  ArmedIsReachable alone says what a stop will find; that
\* the stop leaves nothing needs that the references it drops are all there are, and
\* that they are set exactly while the loop runs or has just returned; that it closes
\* every socket, that each open one is in a field or still in a local of start.
Phases ==
  /\ pc \in Halted => held = {} /\ ~loop_timers
  /\ pc \notin Halted => loop_timers
  /\ manager <=> pc \notin {"joining", "stopped", "failed"}
  /\ transport.open \ Locals \subseteq transport.fields
  /\ pc = "stopped" => transport.fields = {}

StackInv ==
  /\ TypeOK
  /\ ArmedIsReachable
  /\ StopLeavesNoTimer
  /\ Phases

-----------------------------------------------------------------------------
\* The kinds of timers are told apart by their names, whatever the requests are.
LEMMA TimerKinds ==
  /\ \A r \in Requests : NoAnswer(r) \notin Loop \cup Transactions
  /\ \A t \in Transactions : t \notin Loop
  /\ \A r, q \in Requests : NoAnswer(r) = NoAnswer(q) => r = q
  BY DEF NoAnswer, Loop, Transactions, Client, Server

\* At every point of start, a socket that is open is in the field of its name, or in a
\* local variable that start is about to leave.
LEMMA PointTypes ==
  ASSUME NEW n \in DOMAIN StartPoints
  PROVE  /\ StartPoints[n].fields \subseteq Fields
         /\ StartPoints[n].open \subseteq SocketFields \cup Locals
         /\ StartPoints[n].open \ Locals \subseteq StartPoints[n].fields
<1>1. CASE Tls
  <2>1. DOMAIN StartPoints = 1..7
    BY <1>1 DEF StartPoints, TlsStart
  <2>2. n \in 1..7 => n = 1 \/ n = 2 \/ n = 3 \/ n = 4 \/ n = 5 \/ n = 6 \/ n = 7
    OBVIOUS
  <2> QED
    BY <1>1, <2>1, <2>2 DEF StartPoints, TlsStart, At, Fields, SocketFields, Locals
<1>2. CASE ~Tls
  BY <1>2 DEF StartPoints, NotStarted, At
<1> QED
  BY <1>1, <1>2

LEMMA StartHasPoints ==
  Len(StartPoints) \in DOMAIN StartPoints
<1>1. CASE Tls
  BY <1>1 DEF StartPoints, TlsStart
<1>2. CASE ~Tls
  BY <1>2 DEF StartPoints
<1> QED
  BY <1>1, <1>2

\* What start leaves the transport with, wherever it ends.
LEMMA TransportTypes ==
  ASSUME StackInv, NEW n \in DOMAIN StartPoints
  PROVE  /\ TransportAt(n) \in [fields : SUBSET Fields,
                                open : SUBSET (SocketFields \cup Locals)]
         /\ TransportAt(n).open \ Locals \subseteq TransportAt(n).fields
  BY PointTypes DEF TransportAt, At, StackInv, TypeOK, Phases

\* What stop leaves the transport with.
LEMMA StoppedTransport ==
  ASSUME StackInv
  PROVE  /\ TransportStopped(transport) \in
                [fields : {{}}, open : SUBSET Locals]
         /\ TransportStopped(transport).fields = {}
         /\ TransportStopped(transport).open \subseteq Locals
<1>1. transport.fields \subseteq Fields /\ transport.open \subseteq SocketFields \cup Locals
  BY DEF StackInv, TypeOK
<1>2. transport.open \ Locals \subseteq transport.fields
  BY DEF StackInv, Phases
<1> QED
  BY <1>1, <1>2 DEF TransportStopped, At, Fields, SocketFields

\* The stack starts with nothing.
LEMMA StackInit == Init => StackInv
<1> SUFFICES ASSUME Init PROVE StackInv
  OBVIOUS
<1>1. TypeOK
  <2>1. starts \in 0..MaxStarts
    BY StackAssumption DEF Init
  <2>2. api \in [server : {"none", "serving", "dead"}, console : BOOLEAN, lingering : BOOLEAN]
    BY DEF Init
  <2> QED
    BY <2>1, <2>2 DEF Init, TypeOK, NotStarted, At
<1>2. ArmedIsReachable /\ StopLeavesNoTimer /\ Phases
  BY DEF Init, NotStarted, At, ArmedIsReachable, StopLeavesNoTimer, Phases, Halted
<1> QED
  BY <1>1, <1>2 DEF StackInv

-----------------------------------------------------------------------------
(* start                                                                     *)

LEMMA StartStep == StackInv /\ (Start \/ StartFails) => StackInv'
<1> SUFFICES ASSUME StackInv, Start \/ StartFails PROVE StackInv'
  OBVIOUS
<1>0. PICK n \in DOMAIN StartPoints : transport' = TransportAt(n)
  BY StartHasPoints DEF Start, StartFails
<1> USE DEF StackInv, Starting
<1>1. TypeOK'
  <2>1. starts' \in 0..MaxStarts
    BY StackAssumption DEF TypeOK, Start, StartFails
  <2>2. transport' \in [fields : SUBSET Fields, open : SUBSET (SocketFields \cup Locals)]
    BY <1>0, TransportTypes
  <2>3. held' = {} /\ controllers' \in {{}, controllers} /\ transactions = {}
    BY DEF Start, StartFails, Phases, Halted, TypeOK
  <2> QED
    BY <2>1, <2>2, <2>3 DEF TypeOK, Start, StartFails
<1>2. timers' \subseteq Orphans'
  BY DEF StopLeavesNoTimer, Orphans, Start, StartFails
<1>3. Phases'
  <2>1. transport'.open \ Locals \subseteq transport'.fields
    BY <1>0, TransportTypes
  <2>2. held' = {}
    BY DEF Start, StartFails, Phases, Halted
  <2> QED
    BY <2>1, <2>2 DEF Phases, Halted, Start, StartFails
<1> QED
  BY <1>1, <1>2, <1>3 DEF ArmedIsReachable, StopLeavesNoTimer

-----------------------------------------------------------------------------
(* run: while the loop runs, it is enough that what is armed can be reached. *)

LEMMA RunStep == StackInv /\ (Run \/ PollShutdown) => StackInv'
<1> SUFFICES ASSUME StackInv, Run \/ PollShutdown PROVE StackInv'
  OBVIOUS
<1> USE DEF StackInv
<1>1. TypeOK'
  BY DEF TypeOK, Run, PollShutdown, calls, bound, Timers
<1>2. ArmedIsReachable'
  BY DEF ArmedIsReachable, StopLeavesNoTimer, Reachable, Disposed, Cancelled, Orphans,
         Run, PollShutdown, calls, bound, Phases, Halted
<1>3. StopLeavesNoTimer' /\ Phases'
  BY DEF StopLeavesNoTimer, Phases, Halted, Run, PollShutdown, calls, bound
<1> QED
  BY <1>1, <1>2, <1>3

\* A request adds what it arms to what can be reached.
LEMMA RequestStep ==
  ASSUME NEW r \in Requests, StackInv, RequestRefused(r) \/ CallRejected(r) \/ CallRelayed(r)
  PROVE  StackInv'
<1> USE DEF StackInv, Arrives, Remembered
<1>1. TypeOK'
  BY DEF TypeOK, RequestRefused, CallRejected, CallRelayed, bound, Timers, Transactions
<1>2. ArmedIsReachable'
  BY DEF ArmedIsReachable, Reachable, Disposed, Cancelled, Orphans, TypeOK,
         RequestRefused, CallRejected, CallRelayed, bound, Transactions
<1>3. StopLeavesNoTimer' /\ Phases'
  BY DEF StopLeavesNoTimer, Phases, Halted, RequestRefused, CallRejected, CallRelayed, bound
<1> QED
  BY <1>1, <1>2, <1>3

\* The timer of a call of an earlier start: its own is the only one it may arm.
LEMMA LateTimerStep ==
  ASSUME NEW r \in Requests, StackInv, LateTimerFires(r)
  PROVE  StackInv'
<1>1. timers' \subseteq timers
  BY DEF LateTimerFires
<1>2. UNCHANGED <<pc, starts, bound, loop_timers, calls, requested, api>>
  BY DEF LateTimerFires
<1>3. TypeOK'
  BY <1>1, <1>2 DEF StackInv, TypeOK, calls, bound
<1>4. ArmedIsReachable' /\ StopLeavesNoTimer' /\ Phases'
  BY <1>1, <1>2 DEF StackInv, ArmedIsReachable, Reachable, Disposed, Cancelled, Orphans,
                    StopLeavesNoTimer, Phases, calls, bound
<1> QED
  BY <1>3, <1>4 DEF StackInv

\* A local socket that is closed concerns the transport only.
LEMMA CollectedStep == StackInv /\ LocalsCollected => StackInv'
<1> SUFFICES ASSUME StackInv, LocalsCollected PROVE StackInv'
  OBVIOUS
<1>1. UNCHANGED <<pc, starts, manager, loop_timers, calls, timers, requested, api>>
  BY DEF LocalsCollected
<1>2. /\ transport' \in [fields : SUBSET Fields, open : SUBSET (SocketFields \cup Locals)]
      /\ transport'.open \ Locals \subseteq transport'.fields
      /\ transport'.fields = transport.fields
  BY DEF LocalsCollected, At, StackInv, TypeOK, Phases
<1>3. TypeOK'
  BY <1>1, <1>2 DEF StackInv, TypeOK, calls
<1>4. ArmedIsReachable' /\ StopLeavesNoTimer' /\ Phases'
  BY <1>1, <1>2 DEF StackInv, ArmedIsReachable, Reachable, Disposed, Cancelled, Orphans,
                    StopLeavesNoTimer, Phases, calls
<1> QED
  BY <1>3, <1>4 DEF StackInv

\* A call that settles, fails over or is given up: its timer is cancelled, is an
\* orphan from now on, or has fired.
LEMMA CallStep ==
  ASSUME NEW r \in Requests, StackInv, CallSettles(r) \/ CallFailsOver(r) \/ NoAnswerFires(r)
  PROVE  StackInv'
<1> USE DEF StackInv
<1>1. TypeOK'
  BY DEF TypeOK, CallSettles, CallFailsOver, NoAnswerFires, bound, Timers, Transactions,
         Phases, Halted
<1>2. ArmedIsReachable'
  <2> SUFFICES ASSUME NEW t \in timers' PROVE t \in Reachable' \cup Orphans'
    BY DEF ArmedIsReachable
  <2>1. CASE t \in timers /\ t # NoAnswer(r)
    <3>1. t \in Reachable \cup Orphans
      BY <2>1 DEF ArmedIsReachable
    <3>2. CASE t \in Disposed
      <4>1. PICK q \in controllers \cap held : t = NoAnswer(q)
        BY <3>2 DEF Disposed
      <4>2. q # r
        BY <2>1, <4>1
      <4> QED
        BY <4>1, <4>2
        DEF Reachable, Disposed, CallSettles, CallFailsOver, NoAnswerFires
    <3>3. CASE t \notin Disposed
      BY <3>1, <3>3
      DEF Reachable, Cancelled, Orphans, CallSettles, CallFailsOver, NoAnswerFires, bound
    <3> QED
      BY <3>2, <3>3
  <2>2. CASE t \in timers /\ t = NoAnswer(r)
    <3>1. CASE CallFailsOver(r) /\ r \in held
      BY <2>2, <3>1 DEF CallFailsOver, Orphans
    <3>3. CASE CallFailsOver(r) /\ r \notin held
      <4>1. t \in Reachable \cup Orphans
        BY <2>2 DEF ArmedIsReachable
      <4>2. t \notin Loop /\ t \notin Disposed /\ t \notin Cancelled(transactions)
        BY <2>2, <3>3, TimerKinds DEF Disposed, Cancelled, TypeOK
      <4> QED
        BY <4>1, <4>2, <3>3 DEF Reachable, Orphans, CallFailsOver
    <3>2. CASE CallSettles(r) \/ NoAnswerFires(r)
      BY <2>2, <3>2, TimerKinds DEF CallSettles, NoAnswerFires, Transactions
    <3> QED
      BY <3>1, <3>2, <3>3
  <2>3. CASE t \notin timers
    BY <2>3
    DEF Reachable, Cancelled, CallSettles, CallFailsOver, NoAnswerFires, bound,
        Transactions, Phases, Halted
  <2> QED
    BY <2>1, <2>2, <2>3
<1>3. StopLeavesNoTimer' /\ Phases'
  BY DEF StopLeavesNoTimer, Phases, Halted, CallSettles, CallFailsOver, NoAnswerFires, bound
<1> QED
  BY <1>1, <1>2, <1>3

\* A transaction leaves the tables together with its timer.
LEMMA TransactionStep ==
  ASSUME NEW t \in Transactions, StackInv, TransactionEnds(t) \/ TransactionWaits(t)
  PROVE  StackInv'
<1> USE DEF StackInv
<1>1. TypeOK'
  BY DEF TypeOK, TransactionEnds, TransactionWaits, bound, calls
<1>2. ArmedIsReachable'
  BY TimerKinds
  DEF ArmedIsReachable, Reachable, Disposed, Cancelled, Orphans,
      TransactionEnds, TransactionWaits, bound, calls
<1>3. StopLeavesNoTimer' /\ Phases'
  BY DEF StopLeavesNoTimer, Phases, Halted, TransactionEnds, TransactionWaits, bound, calls
<1> QED
  BY <1>1, <1>2, <1>3

-----------------------------------------------------------------------------
(* Other threads write nothing that the invariant reads but their types.     *)

LEMMA OutsideStep ==
  StackInv /\ (Signal \/ StartInternalApi \/ ConsoleOpens \/ ConsoleCloses) => StackInv'
<1> SUFFICES ASSUME StackInv,
                    Signal \/ StartInternalApi \/ ConsoleOpens \/ ConsoleCloses
             PROVE  StackInv'
  OBVIOUS
<1>1. UNCHANGED <<pc, starts, bound, loop_timers, calls, timers>>
  BY DEF Signal, StartInternalApi, ConsoleOpens, ConsoleCloses
<1>2. requested' \in BOOLEAN
  BY DEF StackInv, TypeOK, Signal, StartInternalApi, ConsoleOpens, ConsoleCloses
<1>3. api' \in [server : {"none", "serving", "dead"}, console : BOOLEAN, lingering : BOOLEAN]
  BY DEF StackInv, TypeOK, Signal, StartInternalApi, ServerOutcomes, ConsoleOpens,
         ConsoleCloses
<1>4. TypeOK'
  BY <1>1, <1>2, <1>3 DEF StackInv, TypeOK, calls, bound
<1>5. ArmedIsReachable' /\ StopLeavesNoTimer' /\ Phases'
  BY <1>1 DEF StackInv, ArmedIsReachable, Reachable, Disposed, Cancelled, Orphans,
              StopLeavesNoTimer, Phases, calls, bound
<1> QED
  BY <1>4, <1>5 DEF StackInv

-----------------------------------------------------------------------------
(* stop: what can be reached is cancelled, so that only orphans remain.      *)

LEMMA StopStep == StackInv /\ (Stop \/ StopEnds) => StackInv'
<1> SUFFICES ASSUME StackInv, Stop \/ StopEnds PROVE StackInv'
  OBVIOUS
<1> USE DEF StackInv
<1>1. TypeOK'
  <2>1. CASE Stop
    BY <2>1 DEF TypeOK, Stop
  <2>2. CASE StopEnds
    BY <2>2, StoppedTransport DEF TypeOK, StopEnds, calls
  <2> QED
    BY <2>1, <2>2
<1>2. timers' \subseteq Orphans'
  <2>1. CASE Stop
    BY <2>1 DEF ArmedIsReachable, Reachable, Orphans, Stop
  <2>2. CASE StopEnds
    BY <2>2 DEF StopLeavesNoTimer, Orphans, StopEnds, calls
  <2> QED
    BY <2>1, <2>2
<1>3. Phases'
  <2>1. CASE Stop
    BY <2>1 DEF Phases, Halted, TypeOK, Stop
  <2>2. CASE StopEnds
    BY <2>2, StoppedTransport DEF Phases, Halted, TypeOK, StopEnds, calls
  <2> QED
    BY <2>1, <2>2
<1> QED
  BY <1>1, <1>2, <1>3 DEF ArmedIsReachable, StopLeavesNoTimer

-----------------------------------------------------------------------------
LEMMA StackStep == StackInv /\ [Next]_vars => StackInv'
<1> SUFFICES ASSUME StackInv, [Next]_vars PROVE StackInv'
  OBVIOUS
<1>1. CASE Start \/ StartFails
  BY <1>1, StartStep
<1>2. CASE Owner
  BY <1>2, RunStep, OutsideStep, StopStep DEF Owner
<1>3. CASE PollShutdown
  BY <1>3, RunStep
<1>4. CASE Callback
  BY <1>4, RequestStep, CallStep, LateTimerStep, TransactionStep DEF Callback
<1>5. CASE Signal \/ ConsoleOpens \/ ConsoleCloses
  BY <1>5, OutsideStep
<1>6. CASE LocalsCollected
  BY <1>6, CollectedStep
<1>7. CASE UNCHANGED vars
  <2>1. TypeOK'
    BY <1>7 DEF StackInv, TypeOK, vars, calls, bound
  <2>2. ArmedIsReachable' /\ StopLeavesNoTimer' /\ Phases'
    BY <1>7 DEF StackInv, ArmedIsReachable, Reachable, Disposed, Cancelled, Orphans,
                StopLeavesNoTimer, Phases, vars, calls, bound
  <2> QED
    BY <2>1, <2>2 DEF StackInv
<1> QED
  BY <1>1, <1>2, <1>3, <1>4, <1>5, <1>6, <1>7 DEF Next

LEMMA StackInvariant == Spec => []StackInv
  BY StackInit, StackStep, PTL DEF Spec

-----------------------------------------------------------------------------
\* Every state of the stack is well typed; above all, only calls the map remembers
\* hold a timer, and there are transactions only under a manager (_new_controller).
THEOREM StackTypeCorrect == Spec => []TypeOK
<1>1. StackInv => TypeOK
  BY DEF StackInv
<1> QED
  BY <1>1, StackInvariant, PTL

\* However many calls there are, and whatever becomes of them, a stop finds every
\* timer that is armed but those that failover has lost (stop, dispose).
THEOREM TimersAreReachable == Spec => []ArmedIsReachable
<1>1. StackInv => ArmedIsReachable
  BY DEF StackInv
<1> QED
  BY <1>1, StackInvariant, PTL

\* A stop, of any start, leaves no timer in the loop of the process but those that
\* failover has lost (stop).
THEOREM StopCancelsTimers == Spec => []StopLeavesNoTimer
<1>1. StackInv => StopLeavesNoTimer
  BY DEF StackInv
<1> QED
  BY <1>1, StackInvariant, PTL

\* A stop releases what any start, complete or not, has put in a field: of the fields
\* it goes through none is missing, and each open socket is in one of them by then
\* unless start raised before (stop, transport.stop).
THEOREM StopReleases == Spec => []StopReleasesAll
<1>1. StackInv => StopReleasesAll
  <2> SUFFICES ASSUME StackInv, pc = "stopped" PROVE StopReleasesAll
    BY DEF StopReleasesAll
  <2>1. transport.fields = {} /\ transport.open \subseteq Locals
    BY DEF StackInv, Phases
  <2> QED
    BY <2>1 DEF StackInv, Phases, Halted, StopReleasesAll
<1> QED
  BY <1>1, StackInvariant, PTL

-----------------------------------------------------------------------------
(* What a signal needs to end in a stop, besides the scheduling.             *)

LoopIsPolled == pc = "looping" => Loop \subseteq timers

LEMMA PollInit == Init => LoopIsPolled
  BY DEF Init, LoopIsPolled

\* Whatever the calls do in a turn of the loop, the loop's own timers stay armed.
LEMMA PollStep == LoopIsPolled /\ [Next]_vars => LoopIsPolled'
<1> SUFFICES ASSUME LoopIsPolled, [Next]_vars, pc' = "looping"
             PROVE  Loop \subseteq timers'
  BY DEF LoopIsPolled
<1>1. CASE Run
  BY <1>1 DEF Run
<1>2. CASE pc = "looping" /\ timers \subseteq timers'
  BY <1>2 DEF LoopIsPolled
<1>3. CASE \E r \in Requests : CallSettles(r) \/ NoAnswerFires(r) \/ LateTimerFires(r)
  <2>1. PICK r \in Requests : CallSettles(r) \/ NoAnswerFires(r) \/ LateTimerFires(r)
    BY <1>3
  <2>2. pc = "looping" /\ timers \ {NoAnswer(r)} \subseteq timers'
    BY <2>1 DEF CallSettles, NoAnswerFires, LateTimerFires
  <2> QED
    BY <2>2, TimerKinds DEF LoopIsPolled
<1>4. CASE \E t \in Transactions : TransactionEnds(t) \/ TransactionWaits(t)
  <2>1. PICK t \in Transactions : TransactionEnds(t) \/ TransactionWaits(t)
    BY <1>4
  <2>2. pc = "looping" /\ timers \ {t} \subseteq timers'
    BY <2>1 DEF TransactionEnds, TransactionWaits
  <2> QED
    BY <2>2, TimerKinds DEF LoopIsPolled
<1>5. CASE \E r \in Requests : \/ RequestRefused(r) \/ CallRejected(r) \/ CallRelayed(r)
                              \/ CallFailsOver(r)
  <2>1. pc = "looping" /\ timers \subseteq timers'
    BY <1>5 DEF RequestRefused, CallRejected, CallRelayed, CallFailsOver, Arrives
  <2> QED
    BY <1>2, <2>1
<1>6. CASE Start \/ StartFails \/ PollShutdown \/ Stop \/ StopEnds
  BY <1>6 DEF Start, StartFails, PollShutdown, Stop, StopEnds
<1>7. CASE \/ Signal \/ StartInternalApi \/ ConsoleOpens \/ ConsoleCloses
           \/ LocalsCollected \/ UNCHANGED vars
  <2>1. pc' = pc /\ timers' = timers
    BY <1>7 DEF Signal, StartInternalApi, ConsoleOpens, ConsoleCloses, LocalsCollected, vars
  <2> QED
    BY <1>2, <2>1
<1> QED
  BY <1>1, <1>3, <1>4, <1>5, <1>6, <1>7 DEF Next, Owner, Callback

\* A signal is never lost: the flag is reset by the next start alone, and as long as
\* the loop runs the poll that reads it is armed, whatever timers of calls and
\* transactions are cancelled meanwhile (_poll_shutdown, ShutdownController).
THEOREM SignalsAreKept ==
  Spec => /\ [](pc = "looping" => <<"shutdown">> \in timers)
          /\ [][requested /\ ~requested' => pc = "stopped"]_vars
<1>1. LoopIsPolled => (pc = "looping" => <<"shutdown">> \in timers)
  BY DEF LoopIsPolled, Loop
<1>2. [Next]_vars => [requested /\ ~requested' => pc = "stopped"]_vars
  <2> SUFFICES ASSUME [Next]_vars, requested, ~requested' PROVE pc = "stopped"
    OBVIOUS
  <2>1. CASE Start \/ StartFails
    BY <2>1 DEF Start, StartFails, Starting
  <2>2. CASE Owner \/ PollShutdown \/ Signal \/ ConsoleOpens \/ ConsoleCloses
             \/ LocalsCollected \/ UNCHANGED vars
    BY <2>2 DEF Owner, Run, StartInternalApi, Stop, StopEnds, PollShutdown, Signal,
                ConsoleOpens, ConsoleCloses, LocalsCollected, vars
  <2>3. CASE Callback
    BY <2>3 DEF Callback, RequestRefused, CallRejected, CallRelayed, CallSettles,
                CallFailsOver, NoAnswerFires, LateTimerFires, TransactionEnds,
                TransactionWaits
  <2> QED
    BY <2>1, <2>2, <2>3 DEF Next
<1> QED
  BY <1>1, <1>2, PollInit, PollStep, PTL DEF Spec

=============================================================================
