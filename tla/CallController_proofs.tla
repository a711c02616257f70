------------------------ MODULE CallController_proofs ------------------------
(***************************************************************************)
(* Proofs about CallController, for every set of hops and every set of hop *)
(* lists: its types, the inductive invariant behind its safety             *)
(* properties, and the steps that refine HopHunt.                          *)
(***************************************************************************)
EXTENDS CallController, TLAPS

USE DEF None

-----------------------------------------------------------------------------
(* Types.                                                                    *)

Timers(n) == [armed : SUBSET (1..n), ref : 0..n]

\* What the UA operators return.
LEMMA TrunkAfterType ==
  ASSUME NEW state \in TrunkStates, NEW event
  PROVE  TrunkAfter(state, event) \in TrunkStates
BY DEF TrunkAfter, TrunkStates

LEMMA ReleasedType ==
  ASSUME NEW state \in LegStates
  PROVE  Released(state) \in LegStates
BY DEF Released, LegStates

\* Arming and cancelling keep the timers among the attempts made.
LEMMA CancelType ==
  ASSUME NEW n \in Nat, NEW tm \in Timers(n)
  PROVE  Cancel(tm) \in Timers(n)
BY DEF Cancel, Timers

LEMMA ArmType ==
  ASSUME NEW n \in Nat, NEW tm \in Timers(n)
  PROVE  Arm(tm, n + 1) \in Timers(n + 1)
BY DEF Arm, Timers

LEMMA CountedType ==
  ASSUME dispositions \in [CallDisposition -> Nat],
         NEW disposition \in CallDisposition
  PROVE  Counted(disposition) \in [CallDisposition -> Nat]
BY DEF Counted, CallDisposition

\* Replacing the state of one leg keeps the sequence of legs one.
LEMMA LegUpdate ==
  ASSUME NEW ls \in Seq(LegStates), NEW i \in DOMAIN ls, NEW s \in LegStates
  PROVE  /\ [ls EXCEPT ![i] = s] \in Seq(LegStates)
         /\ Len([ls EXCEPT ![i] = s]) = Len(ls)
OBVIOUS

LEMMA OriginateType ==
  ASSUME NEW hop \in Hops, NEW ls \in Seq(LegStates),
         NEW status \in [Hops \cup {TrunkPeer} -> PeerStatus],
         OriginateTowards(hop, ls, status)
  PROVE  /\ serving_hop' \in Hops \cup {None}
         /\ legs' \in Seq(LegStates)
         /\ Len(legs') = Len(ls) + 1
         /\ uaO' \in 0..Len(legs')
         /\ peer_status' \in [Hops \cup {TrunkPeer} -> PeerStatus]
<1>1. "inviting" \in LegStates
  BY DEF LegStates
<1>2. "reachable" \in PeerStatus
  BY DEF PeerStatus
<1> QED
  BY <1>1, <1>2 DEF OriginateTowards

LEMMA FailoverType ==
  ASSUME TypeOK,
         NEW ls \in Seq(LegStates), Len(ls) = Len(legs),
         NEW tm \in Timers(Len(legs)),
         TryFailover(ls, tm)
  PROVE  TypeOK'
<1>1. Head(failover_hops) \in Hops /\ Tail(failover_hops) \in Seq(Hops)
  BY DEF TypeOK, TryFailover
<1>2. [peer_status EXCEPT ![serving_hop] = "unreachable"]
        \in [Hops \cup {TrunkPeer} -> PeerStatus]
  BY DEF TypeOK, PeerStatus
<1>3. /\ legs' \in Seq(LegStates)
      /\ Len(legs') = Len(legs) + 1
      /\ uaO' \in 0..Len(legs')
      /\ peer_status' \in [Hops \cup {TrunkPeer} -> PeerStatus]
  BY <1>1, <1>2, OriginateType DEF TryFailover
<1>4. serving_hop' \in Hops
  BY <1>1 DEF TryFailover, OriginateTowards
<1>5. timers' \in Timers(Len(legs'))
  BY <1>3, ArmType, CancelType DEF TryFailover, TypeOK
<1>6. failover_trace' \in Seq(Hops)
  BY <1>4 DEF TryFailover, TypeOK
<1> QED
  BY <1>1, <1>3, <1>4, <1>5, <1>6 DEF TryFailover, TypeOK, Timers, trunk

LEMMA RelayType ==
  ASSUME TypeOK,
         NEW event \in Events,
         NEW ls \in Seq(LegStates), Len(ls) = Len(legs),
         NEW tm \in Timers(Len(legs)),
         RelayToTrunk(event, ls, tm)
  PROVE  TypeOK'
<1>1. uaA' \in TrunkStates
  BY TrunkAfterType DEF RelayToTrunk, TypeOK
<1>2. timers' \in Timers(Len(legs'))
  BY CancelType DEF RelayToTrunk, TypeOK
<1>3. DispositionOf(event) \in CallDisposition
  BY DEF DispositionOf, CallDisposition
<1>4. dispositions' \in [CallDisposition -> Nat]
  BY <1>3, CountedType DEF RelayToTrunk, TypeOK
<1> QED
  BY <1>1, <1>2, <1>4 DEF RelayToTrunk, TypeOK, Timers

LEMMA RecvEventType ==
  ASSUME TypeOK,
         NEW event \in Events, NEW i,
         NEW ls \in Seq(LegStates), Len(ls) = Len(legs),
         NEW tm \in Timers(Len(legs)),
         RecvEvent(event, i, ls, tm)
  PROVE  TypeOK'
<1>1. CASE TryFailover(ls, tm)
  BY <1>1, FailoverType
<1>2. CASE RelayToTrunk(event, ls, tm)
  BY <1>2, RelayType
<1>3. CASE i # uaO
  BY <1>3 DEF RecvEvent, TypeOK, Timers, trunk, metrics
<1> QED
  BY <1>1, <1>2, <1>3 DEF RecvEvent, RelayFromNextHop

\* The hop side and the timer raise events on a leg of the call.
LEMMA LegEventType ==
  ASSUME TypeOK,
         NEW event \in Events,
         NEW i \in DOMAIN legs, NEW s \in LegStates,
         RecvEvent(event, i, [legs EXCEPT ![i] = s], timers)
  PROVE  TypeOK'
<1>1. legs \in Seq(LegStates) /\ timers \in Timers(Len(legs))
  BY DEF TypeOK, Timers
<1> QED
  BY <1>1, LegUpdate, RecvEventType

LEMMA NoAnswerType ==
  ASSUME TypeOK, NoAnswerFires
  PROVE  TypeOK'
<1>1. PICK t \in timers.armed :
        LET tm == [timers EXCEPT !.armed = @ \ {t}] IN
        IF uaO = None \/ uaA = "connected" \/ legs[uaO] = "dead"
        THEN /\ timers' = tm
             /\ UNCHANGED <<trunk, hunt, metrics, stopped>>
        ELSE RecvEvent("Disconnect", uaO, [legs EXCEPT ![uaO] = Released(@)], tm)
  BY DEF NoAnswerFires
<1> DEFINE tm == [timers EXCEPT !.armed = @ \ {t}]
<1>2. tm \in Timers(Len(legs))
  BY DEF TypeOK, Timers
<1>3. CASE uaO = None \/ uaA = "connected" \/ legs[uaO] = "dead"
  BY <1>1, <1>2, <1>3 DEF TypeOK, Timers, trunk, hunt, metrics
<1>4. CASE ~(uaO = None \/ uaA = "connected" \/ legs[uaO] = "dead")
  <2>1. legs \in Seq(LegStates) /\ uaO \in DOMAIN legs
    BY <1>4 DEF TypeOK
  <2>2. Released(legs[uaO]) \in LegStates
    BY <2>1, ReleasedType
  <2>3. RecvEvent("Disconnect", uaO, [legs EXCEPT ![uaO] = Released(legs[uaO])], tm)
    BY <1>1, <1>4
  <2>4. "Disconnect" \in Events
    BY DEF Events, Terminal
  <2> HIDE DEF tm
  <2> QED
    BY <1>2, <2>1, <2>2, <2>3, <2>4, LegUpdate, RecvEventType
<1> QED
  BY <1>3, <1>4

\* A late timer does what a failover or a relay does, up to a call that raises.
LEMMA LateTimerType ==
  ASSUME TypeOK, LateTimerFires
  PROVE  TypeOK'
<1>1. PICK t \in timers.armed :
        LET tm == [timers EXCEPT !.armed = @ \ {t}]
            ls == [legs EXCEPT ![uaO] = Released(@)] IN
        \/ /\ timers' = tm
           /\ UNCHANGED <<trunk, hunt, metrics, stopped>>
        \/ /\ uaO # None
           /\ \/ FailoverRaises(ls, tm)
              \/ RelayToTrunk("Disconnect", ls, tm)
              \/ RelayRaises("Disconnect", ls, tm)
  BY DEF LateTimerFires
<1> DEFINE tm == [timers EXCEPT !.armed = @ \ {t}]
           ls == [legs EXCEPT ![uaO] = Released(legs[uaO])]
<1>2. tm \in Timers(Len(legs))
  BY DEF TypeOK, Timers
<1>3. CASE timers' = tm /\ UNCHANGED <<trunk, hunt, metrics, stopped>>
  BY <1>2, <1>3 DEF TypeOK, Timers, trunk, hunt, metrics
<1>4. CASE uaO # None /\ (\/ FailoverRaises(ls, tm)
                         \/ RelayToTrunk("Disconnect", ls, tm)
                         \/ RelayRaises("Disconnect", ls, tm))
  <2>1. legs \in Seq(LegStates) /\ uaO \in DOMAIN legs
    BY <1>4 DEF TypeOK
  <2>2. ls \in Seq(LegStates) /\ Len(ls) = Len(legs)
    BY <2>1, ReleasedType, LegUpdate
  <2>3. "Disconnect" \in Events
    BY DEF Events, Terminal
  <2> HIDE DEF tm, ls
  <2>4. CASE RelayToTrunk("Disconnect", ls, tm)
    BY <1>2, <2>2, <2>3, <2>4, RelayType
  <2>5. CASE RelayRaises("Disconnect", ls, tm)
    <3>1. timers' \in Timers(Len(legs'))
      BY <1>2, <2>2, <2>5, CancelType DEF RelayRaises
    <3>2. dispositions' \in [CallDisposition -> Nat]
      <4>1. DispositionOf("Disconnect") \in CallDisposition
        BY DEF DispositionOf, CallDisposition
      <4> QED
        BY <2>5, <4>1, CountedType DEF RelayRaises, TypeOK
    <3> QED
      BY <2>2, <2>5, <3>1, <3>2 DEF RelayRaises, TypeOK, Timers, trunk
  <2>6. CASE FailoverRaises(ls, tm)
    <3>1. Head(failover_hops) \in Hops /\ Tail(failover_hops) \in Seq(Hops)
      BY <2>6 DEF TypeOK, FailoverRaises
    <3>2. [peer_status EXCEPT ![serving_hop] = "unreachable"]
            \in [Hops \cup {TrunkPeer} -> PeerStatus]
      BY DEF TypeOK, PeerStatus
    <3>3. /\ legs' \in Seq(LegStates)
          /\ Len(legs') = Len(legs) + 1
          /\ uaO' \in 0..Len(legs')
          /\ serving_hop' \in Hops \cup {None}
          /\ peer_status' \in [Hops \cup {TrunkPeer} -> PeerStatus]
      BY <2>2, <2>6, <3>1, <3>2, OriginateType DEF FailoverRaises
    <3>4. timers' \in Timers(Len(legs'))
      BY <1>2, <2>2, <2>6, <3>3, ArmType DEF FailoverRaises, TypeOK
    <3> QED
      BY <2>6, <3>1, <3>3, <3>4 DEF FailoverRaises, TypeOK, Timers, trunk
  <2> QED
    BY <1>4, <2>4, <2>5, <2>6
<1> QED
  BY <1>1, <1>3, <1>4

LEMMA InviteType ==
  ASSUME TypeOK,
         \/ \E hops \in HopLists : InviteRelayed(hops)
         \/ \E disposition \in RejectDispositions : InviteRejected(disposition)
         \/ DecideRaises
  PROVE  TypeOK'
<1>1. TrunkReachable \in [Hops \cup {TrunkPeer} -> PeerStatus]
  BY DEF TrunkReachable, TypeOK, PeerStatus
<1>2. CASE \E hops \in HopLists : InviteRelayed(hops)
  <2>1. PICK hops \in HopLists : InviteRelayed(hops)
    BY <1>2
  <2>2. hops \in Seq(Hops) /\ hops # <<>>
    BY HopListsAssumption
  <2>3. Head(hops) \in Hops /\ Tail(hops) \in Seq(Hops)
    BY <2>2
  <2>4. /\ legs' \in Seq(LegStates)
        /\ Len(legs') = Len(legs) + 1
        /\ uaO' \in 0..Len(legs')
        /\ serving_hop' \in Hops \cup {None}
        /\ peer_status' \in [Hops \cup {TrunkPeer} -> PeerStatus]
    BY <1>1, <2>1, <2>3, OriginateType DEF InviteRelayed, TypeOK
  <2>5. timers' \in Timers(Len(legs'))
    BY <2>1, <2>4, ArmType DEF InviteRelayed, TypeOK, Timers
  <2> QED
    BY <2>1, <2>3, <2>4, <2>5 DEF InviteRelayed, InviteArrives, TypeOK, Timers, TrunkStates
<1>3. CASE \E disposition \in RejectDispositions : InviteRejected(disposition)
  <2>1. PICK disposition \in RejectDispositions : InviteRejected(disposition)
    BY <1>3
  <2>2. dispositions' \in [CallDisposition -> Nat]
    <3>1. disposition \in CallDisposition
      BY DEF RejectDispositions, CallDisposition
    <3> QED
      BY <2>1, <3>1, CountedType DEF InviteRejected, TypeOK
  <2>3. uaA' \in TrunkStates
    BY <2>1, TrunkAfterType DEF InviteRejected, TrunkStates
  <2>4. timers' \in Timers(Len(legs))
    BY <2>1, CancelType DEF InviteRejected, TypeOK, Timers
  <2> QED
    BY <1>1, <2>1, <2>2, <2>3, <2>4 DEF InviteRejected, InviteArrives, TypeOK, Timers, hunt
<1>4. CASE DecideRaises
  BY <1>1, <1>4 DEF DecideRaises, InviteArrives, TypeOK, TrunkStates, hunt
<1> QED
  BY <1>2, <1>3, <1>4

LEMMA TrunkHangsUpType ==
  ASSUME TypeOK, TrunkHangsUp
  PROVE  TypeOK'
<1>1. uaA' \in TrunkStates
  BY TrunkAfterType DEF TrunkHangsUp, TrunkStates
<1>2. legs' \in Seq(LegStates) /\ Len(legs') = Len(legs)
  <2>1. CASE uaO = None
    BY <2>1 DEF TrunkHangsUp, TypeOK
  <2>2. CASE uaO # None
    <3>1. uaO \in DOMAIN legs /\ Released(legs[uaO]) \in LegStates
      BY <2>2, ReleasedType DEF TypeOK
    <3>2. legs' = [legs EXCEPT ![uaO] = Released(legs[uaO])]
      BY <2>2 DEF TrunkHangsUp
    <3>3. legs \in Seq(LegStates)
      BY DEF TypeOK
    <3> QED
      BY <3>1, <3>2, <3>3, LegUpdate
  <2> QED
    BY <2>1, <2>2
<1> QED
  BY <1>1, <1>2 DEF TrunkHangsUp, TypeOK, metrics

LEMMA LegStepType ==
  ASSUME TypeOK, NEW i \in DOMAIN legs, LegStep(i)
  PROVE  TypeOK'
<1> USE DEF LegStates, Progress, Terminal, Events
<1>1. CASE HopTrying(i)
  BY <1>1, LegUpdate DEF HopTrying, TypeOK, trunk, metrics
<1>2. CASE HopRings(i)
  BY <1>2, LegEventType DEF HopRings
<1>3. CASE HopAnswers(i)
  BY <1>3, LegEventType DEF HopAnswers
<1>4. CASE HopRefuses(i)
  BY <1>4, LegEventType DEF HopRefuses
<1>5. CASE TransactionTimesOut(i)
  BY <1>5, LegEventType DEF TransactionTimesOut
<1>6. CASE HopHangsUp(i)
  BY <1>6, LegEventType DEF HopHangsUp
<1>7. CASE \E event \in Terminal : ReplacedLegExpires(i, event)
  BY <1>7, LegEventType DEF ReplacedLegExpires
<1>8. CASE LegDies(i)
  BY <1>8, LegUpdate DEF LegDies, TypeOK, trunk, metrics
<1>9. CASE HopRedirects(i)
  BY <1>9, LegEventType DEF HopRedirects
<1> QED
  BY <1>1, <1>2, <1>3, <1>4, <1>5, <1>6, <1>7, <1>8, <1>9 DEF LegStep

LEMMA InitType == Init => TypeOK
<1> SUFFICES ASSUME Init PROVE TypeOK
  OBVIOUS
<1>1. /\ legs \in Seq(LegStates) /\ failover_hops \in Seq(Hops)
      /\ failover_trace \in Seq(Hops) /\ Len(legs) = 0
  BY DEF Init
<1>2. timers \in [armed : SUBSET (1..Len(legs)), ref : 0..Len(legs)]
  BY <1>1 DEF Init
<1>3. /\ dispositions \in [CallDisposition -> Nat]
      /\ peer_status \in [Hops \cup {TrunkPeer} -> PeerStatus]
  BY DEF Init, PeerStatus
<1> QED
  BY <1>1, <1>2, <1>3 DEF Init, TypeOK, TrunkStates

LEMMA NextType == TypeOK /\ [Next]_vars => TypeOK'
<1> SUFFICES ASSUME TypeOK, [Next]_vars
             PROVE  TypeOK'
  OBVIOUS
<1>1. CASE TrunkStep
  BY <1>1, InviteType, TrunkHangsUpType DEF TrunkStep
<1>2. CASE \E i \in DOMAIN legs : LegStep(i)
  BY <1>2, LegStepType
<1>3. CASE NoAnswerFires
  BY <1>3, NoAnswerType
<1>4. CASE Dispose
  BY <1>4, CancelType DEF Dispose, TypeOK, Timers, trunk, hunt, metrics
<1>5. CASE UNCHANGED vars
  BY <1>5 DEF vars, trunk, hunt, metrics, TypeOK
<1>6. CASE LateTimerFires
  BY <1>6, LateTimerType
<1> QED
  BY <1>1, <1>2, <1>3, <1>4, <1>5, <1>6 DEF Next, Running

\* Every variable of a call keeps its type, and the serving leg and the timers
\* are always those of attempts that were made (BaseCallController.__init__).
THEOREM TypeCorrect == Spec => []TypeOK
BY InitType, NextType, PTL DEF Spec

-----------------------------------------------------------------------------
(* The inductive invariant.                                                  *)

\* Before the INVITE nothing has happened; after it, one call is counted.
StartInv ==
  /\ uaA = "none" => /\ legs = <<>> /\ route = <<>>
                     /\ timers = [armed |-> {}, ref |-> None]
                     /\ calls_total = 0
                     /\ Outcomes = 0
  /\ uaA # "none" => calls_total = 1

\* At most one timer is pending.  While the stack runs it is that of the first attempt:
\* a failover cancels the one it has just armed.  An answered call holds none.
TimerInv ==
  /\ timers.armed \subseteq {1} \/ (stopped /\ timers.armed \subseteq {timers.ref})
  /\ ~stopped => /\ timers.ref \in {None, 1}
                 /\ Len(legs) > 1 => timers.ref = None
  /\ stopped /\ Len(legs) <= 1 => timers.armed = {}
  /\ uaA = "connected" => timers.ref = None

\* The status of the hop served is what its last attempt made it, alive or not.
StatusInv ==
  \A i \in DOMAIN legs :
    (\A j \in i + 1 .. Len(legs) : route[j] # route[i]) =>
      peer_status[route[i]] = IF i = uaO THEN "reachable" ELSE "unreachable"

\* What may still count the call: the leg it serves, while there is a stack to raise its
\* events, and the timer that is armed.
LegCounts == IF ~stopped /\ uaO # None /\ legs[uaO] \in Live THEN 1 ELSE 0
TimerCounts == IF timers.armed = {} THEN 0 ELSE 1

\* What has counted a call and what may still do so are two together.  A call that was
\* never failed over and that has been counted has nothing left that could.
Within(outcomes, leg, timer, attempts) ==
  /\ outcomes + leg + timer <= 2
  /\ attempts <= 1 => outcomes <= 1 /\ (outcomes = 1 => leg = 0 /\ timer = 0)

CountInv == Within(Outcomes, LegCounts, TimerCounts, Len(legs))

Inv ==
  /\ TypeOK
  /\ HopsTriedInOrder
  /\ SingleLiveLeg
  /\ BridgedWhileConnected
  /\ StatusInv
  /\ FirstTimerFollowsHop
  /\ StartInv
  /\ TimerInv
  /\ CountInv

\* What an event raised on leg i, and moving it to s, tells the controller: tm
\* are the timers left when the event is raised.
LegEvent(event, i, s, tm) ==
  /\ event \in Events
  /\ i \in DOMAIN legs
  /\ s \in LegStates
  /\ tm \in Timers(Len(legs))
  /\ tm.ref = timers.ref
  /\ tm.armed \subseteq timers.armed
  /\ event \notin Terminal => legs[i] \in Early
  /\ event = "Ring" => s = "ringing"
  /\ event = "Connect" => s = "connected"
  /\ event \notin Progress => s \notin Live
  /\ event \notin Progress \cup Terminal => tm = timers
  /\ legs[i] \in Live \/ s \notin Live
  /\ i = uaO => (~stopped /\ legs[i] \in Live) \/ tm.armed # timers.armed
  /\ event \notin Terminal => ~stopped
  /\ i # uaO \/ uaA = "connected" => tm = timers

\* One count more is one outcome more.
LEMMA OutcomesAfterCount ==
  ASSUME dispositions \in [CallDisposition -> Nat],
         NEW disposition \in CallDisposition,
         dispositions' = Counted(disposition)
  PROVE  Outcomes \in Nat /\ Outcomes' = Outcomes + 1
BY DEF Counted, CallDisposition, Outcomes

LEMMA OutcomesNat ==
  ASSUME dispositions \in [CallDisposition -> Nat]
  PROVE  Outcomes \in Nat
BY DEF CallDisposition, Outcomes

\* Losing what may count a call keeps it within its bounds, and so does counting it
\* once with a leg or a timer, which is lost by that.
LEMMA WithinKept ==
  ASSUME NEW outcomes, NEW leg, NEW timer, NEW attempts, NEW leg2, NEW timer2,
         outcomes \in Nat,
         leg = 0 \/ leg = 1, timer = 0 \/ timer = 1,
         leg2 = 0 \/ leg2 = 1, timer2 = 0 \/ timer2 = 1,
         Within(outcomes, leg, timer, attempts)
  PROVE  /\ leg2 <= leg /\ timer2 <= timer => Within(outcomes, leg2, timer2, attempts)
         /\ /\ leg2 = 0 /\ timer2 <= timer /\ (attempts <= 1 => timer2 = 0)
            /\ leg = 1 \/ (timer = 1 /\ timer2 = 0)
            => Within(outcomes + 1, leg2, timer2, attempts)
BY DEF Within

LEMMA CountsType ==
  /\ (LegCounts = 0 \/ LegCounts = 1) /\ (LegCounts' = 0 \/ LegCounts' = 1)
  /\ (TimerCounts = 0 \/ TimerCounts = 1) /\ (TimerCounts' = 0 \/ TimerCounts' = 1)
BY DEF LegCounts, TimerCounts

\* A leg exists only once the INVITE has arrived.
LEMMA LegsAfterInvite ==
  ASSUME Inv, NEW i \in DOMAIN legs
  PROVE  uaA # "none"
BY DEF Inv, StartInv, TypeOK

\* Relaying an event of the serving leg to the trunk keeps the invariant, also when the
\* answer to the trunk raises.
LEMMA RelayInv ==
  ASSUME Inv,
         NEW event, NEW i, NEW s, NEW tm,
         LegEvent(event, i, s, tm),
         i = uaO,
         \/ RelayToTrunk(event, [legs EXCEPT ![i] = s], tm)
         \/ /\ event = "Disconnect" /\ uaA # "connected"
            /\ RelayRaises(event, [legs EXCEPT ![i] = s], tm)
            /\ TypeOK'
  PROVE  Inv'
<1> DEFINE ls == [legs EXCEPT ![i] = s]
<1>1. /\ legs \in Seq(LegStates) /\ i \in DOMAIN legs
      /\ ls \in Seq(LegStates) /\ Len(ls) = Len(legs) /\ DOMAIN ls = DOMAIN legs
      /\ ls[i] = s /\ \A j \in DOMAIN legs : j # i => ls[j] = legs[j]
  BY LegUpdate DEF Inv, TypeOK, LegEvent
<1>2. /\ legs' = ls
      /\ timers' = IF event \in Progress \cup Terminal THEN Cancel(tm) ELSE tm
      /\ uaA' = TrunkAfter(uaA, event) \/ (uaA' = uaA /\ uaA # "connected")
      /\ UNCHANGED <<policy, route, uaO, failover_hops, serving_hop, failover_trace,
                     calls_total, peer_status, stopped>>
  BY DEF RelayToTrunk, RelayRaises, trunk, Terminal
<1>3. uaA # "none"
  BY <1>1, LegsAfterInvite
<1> HIDE DEF ls
<1>4. TypeOK'
  <2>1. RelayToTrunk(event, ls, tm) \/ TypeOK'
    BY DEF ls
  <2> QED
    BY <1>1, <2>1, RelayType DEF Inv, LegEvent
<1>5. HopsTriedInOrder'
  BY <1>1, <1>2 DEF Inv, HopsTriedInOrder
<1>6. SingleLiveLeg'
  BY <1>1, <1>2 DEF Inv, SingleLiveLeg
<1>7. BridgedWhileConnected'
  <2>1. CASE event = "Connect"
    BY <1>1, <1>2, <2>1 DEF BridgedWhileConnected, LegEvent
  <2>2. CASE event \in {"Ring", "Redirect"}
    BY <1>1, <1>2, <2>2 DEF Inv, BridgedWhileConnected, LegEvent, TrunkAfter,
                            Progress, Terminal, Early, Unanswered
  <2>3. CASE event \in Terminal
    BY <1>2, <2>3 DEF BridgedWhileConnected, TrunkAfter, Terminal
  <2> QED
    BY <2>1, <2>2, <2>3 DEF LegEvent, Events, Progress
<1>8. StatusInv'
  BY <1>1, <1>2 DEF Inv, StatusInv
<1>9. /\ Len(legs) <= 1 /\ event \in Progress \cup Terminal => timers'.armed = {}
      /\ event \notin Progress \cup Terminal => timers' = timers /\ s \notin Live
  BY <1>2 DEF Inv, FirstTimerFollowsHop, LegEvent, Cancel
<1>10. s \notin Unanswered
  BY DEF LegEvent, Unanswered, Live, Early, Progress
<1>11. FirstTimerFollowsHop'
  <2> SUFFICES ASSUME Len(legs) <= 1 PROVE FirstTimerFollowsHop'
    BY <1>1, <1>2 DEF FirstTimerFollowsHop
  <2>1. i = 1 /\ legs'[1] = s
    BY <1>1, <1>2 DEF Inv, TypeOK
  <2>2. ~FirstHopSilent'
    BY <1>2, <1>10, <2>1 DEF FirstHopSilent
  <2> QED
    BY <1>9, <2>1, <2>2 DEF Inv, FirstTimerFollowsHop, Live, Early
<1>12. StartInv'
  <2>1. uaA' # "none"
    BY <1>2, <1>3 DEF TrunkAfter
  <2> QED
    BY <1>2, <1>3, <2>1 DEF Inv, StartInv
<1>13. TimerInv'
  <2>1. /\ timers'.armed \subseteq timers.armed
        /\ timers'.ref = None \/ timers' = timers
    BY <1>2 DEF Cancel, LegEvent
  <2>2. uaA' = "connected" => timers'.ref = None
    <3>1. CASE event \in Progress \cup Terminal
      BY <1>2, <3>1 DEF Cancel
    <3>2. CASE event = "Redirect"
      BY <1>2, <2>1, <3>2 DEF Inv, TimerInv, TrunkAfter, Terminal
    <3> QED
      BY <3>1, <3>2 DEF LegEvent, Events
  <2>3. timers'.armed \subseteq {1} \/ (stopped /\ timers'.armed \subseteq {timers'.ref})
    <3>1. CASE timers' = timers
      BY <3>1 DEF Inv, TimerInv
    <3>2. CASE timers' = Cancel(tm)
      BY <3>2 DEF Inv, TimerInv, Cancel, LegEvent
    <3> QED
      BY <1>2, <1>9, <3>1, <3>2
  <2> QED
    BY <1>1, <1>2, <2>1, <2>2, <2>3 DEF Inv, TimerInv
<1>14. CountInv'
  <2>1. Outcomes \in Nat
    BY OutcomesNat DEF Inv, TypeOK
  <2>2. Within(Outcomes, LegCounts, TimerCounts, Len(legs))
    BY DEF Inv, CountInv
  <2>3. timers'.armed \subseteq tm.armed /\ tm.armed \subseteq timers.armed
    BY <1>2 DEF LegEvent, Cancel
  <2>4. TimerCounts' <= TimerCounts
    BY <2>3 DEF TimerCounts
  <2>5. i # None
    BY <1>1
  <2>6. /\ Len(legs') = Len(legs)
        /\ Len(legs) <= 1 /\ event \in Terminal => TimerCounts' = 0
    BY <1>1, <1>2, <1>9 DEF TimerCounts
  <2>7. CASE event \in Terminal
    <3>1. Outcomes' = Outcomes + 1
      <4>1. dispositions' = Counted(DispositionOf(event))
        BY <2>7 DEF RelayToTrunk, RelayRaises
      <4>2. DispositionOf(event) \in CallDisposition
        BY DEF DispositionOf, CallDisposition
      <4> QED
        BY <4>1, <4>2, OutcomesAfterCount DEF Inv, TypeOK
    <3>2. LegCounts' = 0
      BY <1>1, <1>2, <2>7 DEF LegCounts, LegEvent, Progress, Terminal
    <3>3. LegCounts = 1 \/ (TimerCounts = 1 /\ TimerCounts' = 0)
      <4>1. CASE ~stopped /\ legs[i] \in Live
        BY <2>5, <4>1 DEF LegCounts
      <4>2. CASE tm.armed # timers.armed
        <5>1. \E k : timers.armed \subseteq {k}
          BY DEF Inv, TimerInv
        <5>2. timers.armed # {} /\ timers'.armed = {}
          BY <2>3, <4>2, <5>1
        <5> QED
          BY <5>2 DEF TimerCounts
      <4> QED
        BY <4>1, <4>2 DEF LegEvent
    <3>4. Within(Outcomes + 1, LegCounts', TimerCounts', Len(legs))
      BY <2>1, <2>2, <2>4, <2>6, <2>7, <3>2, <3>3, CountsType, WithinKept
    <3> QED
      BY <2>6, <3>1, <3>4 DEF CountInv
  <2>8. CASE event \notin Terminal
    <3>1. Outcomes' = Outcomes
      BY <2>8 DEF RelayToTrunk, Outcomes, Terminal
    <3>2. ~stopped /\ legs[i] \in Live
      BY <2>8 DEF LegEvent, Live
    <3>3. LegCounts = 1
      BY <2>5, <3>2 DEF LegCounts
    <3>4. Within(Outcomes, LegCounts', TimerCounts', Len(legs))
      <4>1. LegCounts' <= LegCounts
        BY <3>3, CountsType
      <4> QED
        BY <2>1, <2>2, <2>4, <4>1, CountsType, WithinKept
    <3> QED
      BY <2>6, <3>1, <3>4 DEF CountInv
  <2> QED
    BY <2>7, <2>8
<1> QED
  BY <1>4, <1>5, <1>6, <1>7, <1>8, <1>11, <1>12, <1>13, <1>14 DEF Inv

\* What TryFailover and FailoverRaises have in common.
NextHopOriginated(ls) ==
  /\ failover_hops # <<>>
  /\ OriginateTowards(Head(failover_hops), ls,
                      [peer_status EXCEPT ![serving_hop] = "unreachable"])
  /\ failover_hops' = Tail(failover_hops)
  /\ UNCHANGED <<trunk, calls_total, dispositions, stopped>>

\* Originating the next attempt keeps the hunt in order.
LEMMA NextHopInv ==
  ASSUME Inv,
         NEW i \in DOMAIN legs, i = uaO, NEW s \in LegStates, s \notin Live,
         uaA # "connected",
         NextHopOriginated([legs EXCEPT ![i] = s])
  PROVE  /\ Len(legs') = Len(legs) + 1
         /\ HopsTriedInOrder' /\ SingleLiveLeg' /\ BridgedWhileConnected'
         /\ StatusInv' /\ StartInv' /\ FirstTimerFollowsHop'
         /\ UNCHANGED <<uaA, dispositions, stopped>>
<1> DEFINE ls == [legs EXCEPT ![i] = s]
           n == Len(legs)
<1>1. /\ legs \in Seq(LegStates) /\ i \in DOMAIN legs /\ i = n /\ n \in Nat
      /\ ls \in Seq(LegStates) /\ Len(ls) = n
      /\ ls[i] = s /\ \A j \in DOMAIN legs : j # i => ls[j] = legs[j]
  BY LegUpdate DEF Inv, TypeOK, HopsTriedInOrder
<1>2. /\ failover_hops \in Seq(Hops) /\ failover_hops # <<>>
      /\ serving_hop' = Head(failover_hops) /\ failover_hops' = Tail(failover_hops)
      /\ legs' = Append(ls, "inviting") /\ uaO' = n + 1
      /\ peer_status' = [[peer_status EXCEPT ![serving_hop] = "unreachable"]
                            EXCEPT ![Head(failover_hops)] = "reachable"]
      /\ UNCHANGED <<uaA, policy, route, calls_total, dispositions, stopped>>
  BY <1>1 DEF NextHopOriginated, OriginateTowards, trunk, Inv, TypeOK
<1> HIDE DEF ls, n
<1>3. Len(legs') = n + 1 /\ DOMAIN legs' = 1..(n + 1)
  BY <1>1, <1>2
<1>4. Len(legs') = n + 1
  BY <1>3
<1>5. \A j \in DOMAIN legs : legs'[j] = ls[j]
  BY <1>1, <1>2 DEF n
<1>6. legs'[n + 1] = "inviting"
  BY <1>1, <1>2
<1>7. /\ Len(failover_hops) \in Nat /\ Len(failover_hops) > 0
      /\ Len(failover_hops') = Len(failover_hops) - 1
      /\ \A k \in 1..Len(failover_hops') : failover_hops'[k] = failover_hops[k + 1]
      /\ serving_hop' = failover_hops[1]
  BY <1>2
<1>8. /\ route \in Seq(Hops)
      /\ n + Len(failover_hops) = Len(route)
      /\ \A k \in 1..Len(failover_hops) : failover_hops[k] = route[n + k]
      /\ serving_hop = route[n]
  BY <1>1, HopListsAssumption DEF Inv, TypeOK, HopsTriedInOrder, n
<1>9. HopsTriedInOrder'
  <2>1. n + 1 + Len(failover_hops') = Len(route)
    BY <1>1, <1>2, <1>7, <1>8
  <2>2. \A k \in 1..Len(failover_hops') : failover_hops'[k] = route[n + 1 + k]
    <3> TAKE k \in 1..Len(failover_hops')
    <3>1. k + 1 \in 1..Len(failover_hops) /\ n + (k + 1) = n + 1 + k
      BY <1>1, <1>7
    <3>2. failover_hops[k + 1] = route[n + (k + 1)]
      BY <1>8, <3>1
    <3> QED
      BY <1>7, <3>1, <3>2
  <2>3. serving_hop' = route[n + 1]
    BY <1>1, <1>2, <1>7, <1>8
  <2> QED
    BY <1>2, <1>4, <2>1, <2>2, <2>3 DEF HopsTriedInOrder
<1>10. SingleLiveLeg'
  <2> SUFFICES ASSUME NEW j \in DOMAIN legs', legs'[j] \in Live
               PROVE  j = n + 1
    BY <1>2 DEF SingleLiveLeg
  <2>1. j \in DOMAIN legs \/ j = n + 1
    BY <1>1, <1>3 DEF Inv, TypeOK, n
  <2>2. CASE j \in DOMAIN legs
    BY <1>1, <1>5, <2>2 DEF Inv, SingleLiveLeg
  <2> QED
    BY <2>1, <2>2
<1>11. BridgedWhileConnected'
  BY <1>2 DEF BridgedWhileConnected
<1>12. StatusInv'
  <2> SUFFICES ASSUME NEW j \in 1..(n + 1),
                      \A k \in j + 1 .. n + 1 : route[k] # route[j]
               PROVE  peer_status'[route[j]] =
                        IF j = n + 1 THEN "reachable" ELSE "unreachable"
    BY <1>2, <1>3 DEF StatusInv
  <2>1. /\ Head(failover_hops) = route[n + 1]
        /\ route[j] \in Hops
        /\ peer_status \in [Hops \cup {TrunkPeer} -> PeerStatus]
    BY <1>1, <1>2, <1>7, <1>8 DEF Inv, TypeOK
  <2>2. CASE j = n + 1
    BY <1>2, <2>1, <2>2
  <2>3. CASE j = n
    BY <1>1, <1>2, <1>8, <2>1, <2>3
  <2>4. CASE j < n
    <3>1. route[j] # route[n] /\ route[j] # route[n + 1]
      BY <1>1, <2>4
    <3>2. peer_status[route[j]] = "unreachable"
      BY <1>1, <2>4 DEF Inv, StatusInv, n
    <3> QED
      BY <1>1, <1>2, <1>8, <2>1, <2>4, <3>1, <3>2
  <2> QED
    BY <1>1, <2>2, <2>3, <2>4
<1>13. FirstTimerFollowsHop'
  BY <1>1, <1>4 DEF FirstTimerFollowsHop
<1>14. StartInv'
  BY <1>1, <1>2, LegsAfterInvite DEF Inv, StartInv, Outcomes
<1> QED
  BY <1>2, <1>4, <1>9, <1>10, <1>11, <1>12, <1>13, <1>14 DEF n

\* Failing over to the next hop keeps the invariant.
LEMMA FailoverInv ==
  ASSUME Inv,
         NEW event, NEW i, NEW s, NEW tm,
         LegEvent(event, i, s, tm),
         i = uaO, event \in Terminal, uaA # "connected", ~stopped,
         TryFailover([legs EXCEPT ![i] = s], tm)
  PROVE  Inv'
<1> DEFINE ls == [legs EXCEPT ![i] = s]
           n == Len(legs)
<1>1. /\ i \in DOMAIN legs /\ s \in LegStates /\ s \notin Live
      /\ n \in Nat /\ n > 0 /\ ls \in Seq(LegStates) /\ Len(ls) = n
      /\ tm \in Timers(n)
  BY LegUpdate DEF Inv, TypeOK, LegEvent, Progress, Terminal
<1>2. NextHopOriginated(ls)
  BY DEF TryFailover, NextHopOriginated
<1>3. TypeOK'
  <2>1. TryFailover(ls, tm)
    OBVIOUS
  <2> HIDE DEF ls
  <2> QED
    BY <1>1, <2>1, FailoverType DEF Inv
<1>4. /\ Len(legs') = n + 1
      /\ HopsTriedInOrder' /\ SingleLiveLeg' /\ BridgedWhileConnected'
      /\ StatusInv' /\ StartInv' /\ FirstTimerFollowsHop'
      /\ UNCHANGED <<uaA, dispositions, stopped>>
  BY <1>1, <1>2, NextHopInv
<1>5. timers' = Cancel(Arm(tm, n + 1))
  BY <1>1 DEF TryFailover
<1> HIDE DEF ls, n
<1>6. timers.armed \subseteq {1}
  BY DEF Inv, TimerInv
<1>7. timers'.armed = tm.armed /\ timers'.ref = None
  BY <1>1, <1>5, <1>6 DEF Cancel, Arm, Timers, LegEvent
<1>8. CountInv'
  <2>1. Outcomes \in Nat /\ Outcomes' = Outcomes
    BY <1>4, OutcomesNat DEF Inv, TypeOK, Outcomes
  <2>2. Outcomes + LegCounts + TimerCounts <= 2
    BY DEF Inv, CountInv, Within
  <2>3. LegCounts' + TimerCounts' <= LegCounts + TimerCounts
    <3>1. CASE tm.armed = timers.armed
      <4>1. i # None /\ legs[i] \in Live
        BY <3>1 DEF Inv, TypeOK, LegEvent
      <4>2. LegCounts = 1 /\ TimerCounts' = TimerCounts
        BY <1>7, <3>1, <4>1 DEF LegCounts, TimerCounts
      <4> QED
        BY <4>2, CountsType
    <3>2. CASE tm.armed # timers.armed
      <4>1. timers.armed # {} /\ tm.armed = {}
        BY <1>6, <3>2 DEF LegEvent
      <4>2. TimerCounts = 1 /\ TimerCounts' = 0
        BY <1>7, <4>1 DEF TimerCounts
      <4> QED
        BY <4>2, CountsType
    <3> QED
      BY <3>1, <3>2
  <2>4. Outcomes + LegCounts' + TimerCounts' <= 2
    BY <2>1, <2>2, <2>3, CountsType
  <2>5. ~(Len(legs') <= 1)
    BY <1>1, <1>4
  <2> QED
    BY <2>1, <2>4, <2>5 DEF CountInv, Within
<1>9. TimerInv'
  BY <1>1, <1>4, <1>6, <1>7 DEF TimerInv, LegEvent
<1> QED
  BY <1>3, <1>4, <1>8, <1>9 DEF Inv

\* A step that counts nothing, arms nothing and makes no leg live keeps what may still
\* count the call.
LEMMA CountsKept ==
  ASSUME Inv, Outcomes' = Outcomes, Len(legs') = Len(legs), uaO' = uaO,
         timers'.armed \subseteq timers.armed,
         uaO # None /\ legs'[uaO] \in Live => legs[uaO] \in Live,
         stopped => stopped'
  PROVE  CountInv'
<1>1. Outcomes \in Nat
  BY OutcomesNat DEF Inv, TypeOK
<1>2. Within(Outcomes, LegCounts, TimerCounts, Len(legs))
  BY DEF Inv, CountInv
<1>3. LegCounts' <= LegCounts
  BY DEF LegCounts
<1>4. TimerCounts' <= TimerCounts
  BY DEF TimerCounts
<1>5. Within(Outcomes, LegCounts', TimerCounts', Len(legs))
  BY <1>1, <1>2, <1>3, <1>4, CountsType, WithinKept
<1> QED
  BY <1>5 DEF CountInv

\* Dropping an event of a leg the controller no longer serves keeps the
\* invariant, and so does a step that only moves a leg among such states.
LEMMA LegMovesInv ==
  ASSUME Inv,
         NEW i \in DOMAIN legs, NEW s \in LegStates,
         s \in Live => legs[i] \in Live,
         legs[i] = "connected" => i # uaO \/ uaA # "connected",
         s \in Unanswered => legs[i] \in Unanswered,
         i = uaO => s \notin {"ringing", "connected"},
         legs' = [legs EXCEPT ![i] = s],
         UNCHANGED <<trunk, uaO, failover_hops, serving_hop, failover_trace,
                     metrics, timers, stopped>>
  PROVE  Inv'
<1>1. /\ legs \in Seq(LegStates)
      /\ legs' \in Seq(LegStates) /\ Len(legs') = Len(legs)
      /\ legs'[i] = s /\ \A j \in DOMAIN legs : j # i => legs'[j] = legs[j]
  BY LegUpdate DEF Inv, TypeOK
<1>2. UNCHANGED <<uaA, policy, route, uaO, failover_hops, serving_hop, failover_trace,
                  calls_total, dispositions, peer_status, timers, stopped>>
  BY DEF trunk, metrics
<1>3. TypeOK'
  BY <1>1, <1>2 DEF Inv, TypeOK
<1>4. HopsTriedInOrder'
  BY <1>1, <1>2 DEF Inv, HopsTriedInOrder
<1>5. SingleLiveLeg'
  BY <1>1, <1>2 DEF Inv, SingleLiveLeg
<1>6. BridgedWhileConnected'
  BY <1>1, <1>2 DEF Inv, BridgedWhileConnected, TypeOK
<1>7. StatusInv'
  BY <1>1, <1>2 DEF Inv, StatusInv
<1>8. FirstTimerFollowsHop'
  <2> SUFFICES ASSUME Len(legs) <= 1 PROVE FirstTimerFollowsHop'
    BY <1>1 DEF FirstTimerFollowsHop
  <2>1. i = 1 /\ uaO = 1
    BY DEF Inv, HopsTriedInOrder, TypeOK
  <2> QED
    BY <1>1, <1>2, <2>1 DEF Inv, FirstTimerFollowsHop, FirstHopSilent
<1>9. TimerInv'
  BY <1>1, <1>2 DEF Inv, TimerInv
<1>10. StartInv'
  BY <1>1, <1>2, LegsAfterInvite DEF Inv, StartInv
<1>11. CountInv'
  <2>1. Outcomes' = Outcomes
    BY <1>2 DEF Outcomes
  <2>2. uaO # None => uaO \in DOMAIN legs
    BY DEF Inv, TypeOK
  <2> QED
    BY <1>1, <1>2, <2>1, <2>2, CountsKept
<1> QED
  BY <1>3, <1>4, <1>5, <1>6, <1>7, <1>8, <1>9, <1>10, <1>11 DEF Inv

LEMMA RecvEventInv ==
  ASSUME Inv,
         NEW event, NEW i, NEW s, NEW tm,
         LegEvent(event, i, s, tm), ~stopped,
         RecvEvent(event, i, [legs EXCEPT ![i] = s], tm)
  PROVE  Inv'
<1>1. CASE i # uaO
  <2>1. /\ s \in Live => legs[i] \in Live
        /\ s \in Unanswered => legs[i] \in Unanswered
    BY DEF LegEvent, Live, Unanswered, Early, Progress
  <2>2. /\ legs' = [legs EXCEPT ![i] = s]
        /\ UNCHANGED <<trunk, uaO, failover_hops, serving_hop, failover_trace,
                       metrics, timers, stopped>>
    BY <1>1 DEF RecvEvent, LegEvent
  <2> QED
    BY <1>1, <2>1, <2>2, LegMovesInv DEF LegEvent
<1>2. CASE i = uaO /\ event \in Terminal /\ uaA # "connected" /\ failover_hops # <<>>
  BY <1>2, FailoverInv DEF RecvEvent, RelayFromNextHop
<1>3. CASE i = uaO /\ ~(event \in Terminal /\ uaA # "connected" /\ failover_hops # <<>>)
  BY <1>3, RelayInv DEF RecvEvent, RelayFromNextHop
<1> QED
  BY <1>1, <1>2, <1>3

\* Releasing a leg takes it out of the live ones.
LEMMA ReleasedNotLive ==
  ASSUME NEW state \in LegStates
  PROVE  Released(state) \notin Live
BY DEF Released, LegStates, Live, Early, Unanswered

\* A step in which a leg raises an event that the controller is told of.
EventStep ==
  ~stopped /\ \E event \in Events, i \in DOMAIN legs,
                s \in LegStates, tm \in Timers(Len(legs)) :
    /\ LegEvent(event, i, s, tm)
    /\ RecvEvent(event, i, [legs EXCEPT ![i] = s], tm)

\* A timer that fires when there is nothing to give up.
IdleTimer ==
  /\ \E t \in timers.armed : timers' = [timers EXCEPT !.armed = @ \ {t}]
  /\ uaO = None \/ uaA = "connected" \/ legs[uaO] = "dead"
  /\ UNCHANGED <<trunk, hunt, metrics, stopped>>

LEMMA LegStepCases ==
  ASSUME Inv, ~stopped, NEW i \in DOMAIN legs, LegStep(i)
  PROVE  HopTrying(i) \/ LegDies(i) \/ EventStep
<1> DEFINE Event(event, s) ==
             /\ event \in Events
             /\ s \in LegStates
             /\ event \notin Terminal => legs[i] \in Early
             /\ event = "Ring" => s = "ringing"
             /\ event = "Connect" => s = "connected"
             /\ event \notin Progress => s \notin Live
             /\ legs[i] \in Live \/ (i # uaO /\ s \notin Live)
             /\ RecvEvent(event, i, [legs EXCEPT ![i] = s], timers)
<1>1. ASSUME NEW event, NEW s, Event(event, s)
      PROVE  EventStep
  <2>1. timers \in Timers(Len(legs))
    BY DEF Inv, TypeOK, Timers
  <2>2. LegEvent(event, i, s, timers)
    BY <1>1, <2>1 DEF LegEvent
  <2> QED
    BY <1>1, <2>1, <2>2 DEF EventStep
<1> USE DEF LegStates, Progress, Terminal, Events, Live, Early, Unanswered
<1>2. CASE HopRings(i)
  <2>1. Event("Ring", "ringing")
    BY <1>2 DEF HopRings
  <2> QED
    BY <1>1, <2>1
<1>3. CASE HopAnswers(i)
  <2>1. Event("Connect", "connected")
    BY <1>3 DEF HopAnswers
  <2> QED
    BY <1>1, <2>1
<1>4. CASE HopRefuses(i)
  <2>1. Event("Fail", "failed")
    BY <1>4 DEF HopRefuses
  <2> QED
    BY <1>1, <2>1
<1>5. CASE TransactionTimesOut(i)
  <2>1. Event("Fail", "failed")
    BY <1>5 DEF TransactionTimesOut
  <2> QED
    BY <1>1, <2>1
<1>6. CASE HopHangsUp(i)
  <2>1. Event("Disconnect", "disconnected")
    BY <1>6 DEF HopHangsUp
  <2> QED
    BY <1>1, <2>1
<1>7. CASE \E event \in Terminal : ReplacedLegExpires(i, event)
  <2>1. PICK event \in Terminal : ReplacedLegExpires(i, event)
    BY <1>7
  <2>2. Event(event, "dead")
    BY <2>1 DEF ReplacedLegExpires
  <2> QED
    BY <1>1, <2>2
<1>8. CASE HopRedirects(i)
  <2>1. Event("Redirect", "failed")
    BY <1>8 DEF HopRedirects
  <2> QED
    BY <1>1, <2>1
<1> QED
  BY <1>2, <1>3, <1>4, <1>5, <1>6, <1>7, <1>8 DEF LegStep

LEMMA NoAnswerCases ==
  ASSUME Inv, ~stopped, NoAnswerFires
  PROVE  IdleTimer \/ EventStep
<1>1. PICK t \in timers.armed :
        LET tm == [timers EXCEPT !.armed = @ \ {t}] IN
        IF uaO = None \/ uaA = "connected" \/ legs[uaO] = "dead"
        THEN /\ timers' = tm
             /\ UNCHANGED <<trunk, hunt, metrics, stopped>>
        ELSE RecvEvent("Disconnect", uaO, [legs EXCEPT ![uaO] = Released(@)], tm)
  BY DEF NoAnswerFires
<1> DEFINE tm == [timers EXCEPT !.armed = @ \ {t}]
<1>2. /\ tm \in Timers(Len(legs)) /\ tm.ref = timers.ref
      /\ tm.armed = timers.armed \ {t}
  BY DEF Inv, TypeOK, Timers
<1>3. CASE uaO = None \/ uaA = "connected" \/ legs[uaO] = "dead"
  BY <1>1, <1>3 DEF IdleTimer
<1>4. CASE ~(uaO = None \/ uaA = "connected" \/ legs[uaO] = "dead")
  <2>1. uaO \in DOMAIN legs /\ legs[uaO] \in LegStates
    BY <1>4 DEF Inv, TypeOK
  <2>2. Released(legs[uaO]) \in LegStates /\ Released(legs[uaO]) \notin Live
    BY <2>1, ReleasedType, ReleasedNotLive
  <2>3. RecvEvent("Disconnect", uaO, [legs EXCEPT ![uaO] = Released(legs[uaO])], tm)
    BY <1>1, <1>4
  <2> HIDE DEF tm
  <2>4. "Disconnect" \in Events
    BY DEF Events, Terminal
  <2>5. LegEvent("Disconnect", uaO, Released(legs[uaO]), tm)
    BY <1>1, <1>2, <1>4, <2>1, <2>2, <2>4 DEF LegEvent, Progress, Terminal
  <2> QED
    BY <1>2, <2>1, <2>2, <2>3, <2>4, <2>5 DEF EventStep
<1> QED
  BY <1>3, <1>4

LEMMA LegStepInv ==
  ASSUME Inv, ~stopped, NEW i \in DOMAIN legs, LegStep(i)
  PROVE  Inv'
<1>1. CASE HopTrying(i)
  BY <1>1, LegMovesInv DEF HopTrying, LegStates, Live, Early, Unanswered
<1>2. CASE LegDies(i)
  BY <1>2, LegMovesInv DEF LegDies, LegStates, Live, Early, Unanswered, Ended
<1>3. CASE EventStep
  BY <1>3, RecvEventInv DEF EventStep
<1> QED
  BY <1>1, <1>2, <1>3, LegStepCases

LEMMA NoAnswerInv ==
  ASSUME Inv, ~stopped, NoAnswerFires
  PROVE  Inv'
<1>1. CASE IdleTimer
  <2>1. PICK t \in timers.armed : timers' = [timers EXCEPT !.armed = @ \ {t}]
    BY <1>1 DEF IdleTimer
  <2>2. /\ timers' \in Timers(Len(legs)) /\ timers'.ref = timers.ref
        /\ timers'.armed = timers.armed \ {t}
    BY <2>1 DEF Inv, TypeOK, Timers
  <2>3. UNCHANGED <<uaA, policy, route, legs, uaO, failover_hops, serving_hop,
                    failover_trace, calls_total, dispositions, peer_status, stopped>>
    BY <1>1 DEF IdleTimer, trunk, hunt, metrics
  <2>4. TypeOK'
    BY <2>2, <2>3 DEF Inv, TypeOK, Timers
  <2>5. HopsTriedInOrder' /\ SingleLiveLeg' /\ BridgedWhileConnected'
    BY <2>3 DEF Inv, HopsTriedInOrder, SingleLiveLeg, BridgedWhileConnected
  <2>6. StatusInv'
    BY <2>3 DEF Inv, StatusInv
  <2>7. FirstTimerFollowsHop'
    <3>1. ~FirstHopSilent
      BY <1>1 DEF Inv, FirstHopSilent, IdleTimer, BridgedWhileConnected, Unanswered
    <3> QED
      BY <2>2, <2>3, <3>1 DEF Inv, FirstTimerFollowsHop, FirstHopSilent
  <2>8. TimerInv' /\ CountInv'
    <3>1. Outcomes' = Outcomes
      BY <2>3 DEF Outcomes
    <3> QED
      BY <2>2, <2>3, <3>1, CountsKept DEF Inv, TimerInv
  <2>9. uaA # "none"
    BY <2>1 DEF Inv, StartInv
  <2>10. StartInv'
    BY <2>3, <2>9 DEF Inv, StartInv
  <2> QED
    BY <2>4, <2>5, <2>6, <2>7, <2>8, <2>10 DEF Inv
<1>2. CASE EventStep
  BY <1>2, RecvEventInv DEF EventStep
<1> QED
  BY <1>1, <1>2, NoAnswerCases

LEMMA TrunkHangsUpInv ==
  ASSUME Inv, TrunkHangsUp
  PROVE  Inv'
<1>1. TypeOK'
  BY TrunkHangsUpType DEF Inv
<1>2. /\ uaA # "none" /\ uaA' = "hungup"
      /\ UNCHANGED <<policy, route, uaO, failover_hops, serving_hop, failover_trace,
                     calls_total, dispositions, peer_status, timers, stopped>>
  BY DEF TrunkHangsUp, TrunkAfter, metrics
<1>3. /\ Len(legs') = Len(legs) /\ DOMAIN legs' = DOMAIN legs
      /\ \A j \in DOMAIN legs : legs'[j] = legs[j] \/ legs'[j] \notin Live
  <2>1. CASE uaO = None
    BY <2>1 DEF TrunkHangsUp
  <2>2. CASE uaO # None
    <3>1. /\ legs \in Seq(LegStates) /\ uaO \in DOMAIN legs
          /\ legs' = [legs EXCEPT ![uaO] = Released(legs[uaO])]
      BY <2>2 DEF TrunkHangsUp, Inv, TypeOK
    <3>2. Released(legs[uaO]) \in LegStates /\ Released(legs[uaO]) \notin Live
      BY <3>1, ReleasedType, ReleasedNotLive
    <3> QED
      BY <3>1, <3>2
  <2> QED
    BY <2>1, <2>2
<1>4. HopsTriedInOrder' /\ StatusInv'
  BY <1>2, <1>3 DEF Inv, HopsTriedInOrder, StatusInv
<1>5. SingleLiveLeg' /\ BridgedWhileConnected'
  BY <1>2, <1>3 DEF Inv, SingleLiveLeg, BridgedWhileConnected
<1>6. FirstTimerFollowsHop'
  <2>1. Unanswered \subseteq Live /\ {"ringing", "connected"} \subseteq Live
    BY DEF Live, Early
  <2>2. legs # <<>> /\ Len(legs) <= 1 => 1 \in DOMAIN legs
    BY DEF Inv, TypeOK
  <2>3. uaO = 1 => 1 \in DOMAIN legs
    BY DEF Inv, TypeOK
  <2>4. legs' # <<>> => legs # <<>>
    BY <1>1, <1>3 DEF Inv, TypeOK
  <2> QED
    BY <1>2, <1>3, <2>1, <2>2, <2>3, <2>4 DEF Inv, FirstTimerFollowsHop, FirstHopSilent
<1>7. TimerInv' /\ StartInv'
  BY <1>2, <1>3 DEF Inv, TimerInv, StartInv
<1>8. CountInv'
  <2>1. Outcomes' = Outcomes
    BY <1>2 DEF Outcomes
  <2>2. uaO # None => uaO \in DOMAIN legs
    BY DEF Inv, TypeOK
  <2> QED
    BY <1>2, <1>3, <2>1, <2>2, CountsKept
<1> QED
  BY <1>1, <1>4, <1>5, <1>6, <1>7, <1>8 DEF Inv

\* The INVITE starts from the initial state of the controller.
LEMMA BeforeInvite ==
  ASSUME Inv, InviteArrives
  PROVE  /\ legs = <<>> /\ Len(legs) = 0 /\ uaO = 0 /\ failover_hops = <<>>
         /\ route = <<>> /\ timers = [armed |-> {}, ref |-> None]
         /\ Outcomes = 0 /\ calls_total' = 1
<1>1. legs = <<>> /\ route = <<>> /\ timers = [armed |-> {}, ref |-> None]
      /\ Outcomes = 0 /\ calls_total' = 1
  BY DEF Inv, StartInv, InviteArrives
<1>2. Len(legs) = 0 /\ Len(route) = 0
  BY <1>1
<1>3. uaO = 0 /\ Len(failover_hops) = 0
  BY <1>2 DEF Inv, HopsTriedInOrder, TypeOK
<1> QED
  BY <1>1, <1>2, <1>3 DEF Inv, TypeOK

LEMMA InviteInv ==
  ASSUME Inv, ~stopped,
         \/ \E hops \in HopLists : InviteRelayed(hops)
         \/ \E disposition \in RejectDispositions : InviteRejected(disposition)
         \/ DecideRaises
  PROVE  Inv'
<1>1. TypeOK'
  BY InviteType DEF Inv
<1>2. InviteArrives
  BY DEF InviteRelayed, InviteRejected, DecideRaises
<1>3. CASE \E hops \in HopLists : InviteRelayed(hops)
  <2>1. PICK hops \in HopLists : InviteRelayed(hops)
    BY <1>3
  <2>2. hops \in Seq(Hops) /\ hops # <<>>
    BY HopListsAssumption
  <2>3. /\ uaA' = "trying" /\ route' = hops /\ failover_hops' = Tail(hops)
        /\ legs' = <<"inviting">> /\ uaO' = 1 /\ serving_hop' = Head(hops)
        /\ timers' = [armed |-> {1}, ref |-> 1]
        /\ peer_status' = [TrunkReachable EXCEPT ![Head(hops)] = "reachable"]
        /\ dispositions' = dispositions /\ calls_total' = 1 /\ stopped' = stopped
    <3>1. Arm([armed |-> {}, ref |-> None], 1) = [armed |-> {1}, ref |-> 1]
      <4>1. {} \cup {1} = {1}
        OBVIOUS
      <4> QED
        BY <4>1 DEF Arm
    <3>2. timers' = [armed |-> {1}, ref |-> 1]
      <4>1. timers' = Arm(timers, Len(legs) + 1)
        BY <2>1 DEF InviteRelayed
      <4>2. Len(legs) + 1 = 1
        BY <1>2, BeforeInvite
      <4>3. timers = [armed |-> {}, ref |-> None]
        BY <1>2, BeforeInvite
      <4> QED
        BY <3>1, <4>1, <4>2, <4>3
    <3> QED
      BY <1>2, <2>1, <3>2, BeforeInvite DEF InviteRelayed, OriginateTowards
  <2>4. /\ Len(hops) \in Nat /\ Len(hops) > 0
        /\ Len(Tail(hops)) = Len(hops) - 1
        /\ \A k \in 1..Len(Tail(hops)) : Tail(hops)[k] = hops[k + 1]
        /\ Head(hops) = hops[1] /\ Head(hops) \in Hops
    BY <2>2
  <2>5. Len(legs') = 1 /\ DOMAIN legs' = {1} /\ legs'[1] = "inviting"
    BY <2>3
  <2>6. HopsTriedInOrder'
    <3>1. \A k \in 1..Len(Tail(hops)) : Tail(hops)[k] = hops[1 + k]
      BY <2>4
    <3> QED
      BY <2>3, <2>4, <2>5, <3>1 DEF HopsTriedInOrder
  <2>7. SingleLiveLeg' /\ BridgedWhileConnected'
    BY <2>3, <2>5 DEF SingleLiveLeg, BridgedWhileConnected
  <2>8. StatusInv'
    <3>1. TrunkReachable \in [Hops \cup {TrunkPeer} -> PeerStatus]
      BY DEF Inv, TypeOK, TrunkReachable, PeerStatus
    <3>2. peer_status'[Head(hops)] = "reachable"
      BY <2>3, <2>4, <3>1
    <3> QED
      BY <2>3, <2>4, <2>5, <3>2 DEF StatusInv
  <2>9. FirstTimerFollowsHop' /\ TimerInv'
    BY <2>3, <2>5 DEF FirstTimerFollowsHop, TimerInv
  <2>10. Outcomes' = 0
    BY <1>2, <2>3, BeforeInvite DEF Outcomes
  <2>11. StartInv' /\ CountInv'
    BY <2>3, <2>10 DEF StartInv, CountInv, Within, LegCounts, TimerCounts
  <2> QED
    BY <1>1, <2>6, <2>7, <2>8, <2>9, <2>11 DEF Inv
<1>4. ASSUME UNCHANGED <<route, hunt, stopped>>,
             uaA' \in {"trying", "failed"},
             timers' = [armed |-> {}, ref |-> None],
             Outcomes' = 0 \/ Outcomes' = 1
      PROVE  Inv'
  <2>1. /\ legs' = <<>> /\ Len(legs') = 0 /\ DOMAIN legs' = {}
        /\ uaO' = 0 /\ failover_hops' = <<>> /\ Len(failover_hops') = 0
        /\ route' = <<>> /\ Len(route') = 0
    BY <1>2, <1>4, BeforeInvite DEF hunt
  <2>2. HopsTriedInOrder' /\ SingleLiveLeg' /\ BridgedWhileConnected'
    BY <1>4, <2>1 DEF HopsTriedInOrder, SingleLiveLeg, BridgedWhileConnected
  <2>3. StatusInv' /\ FirstTimerFollowsHop'
    BY <1>4, <2>1 DEF StatusInv, FirstTimerFollowsHop, FirstHopSilent
  <2>4. TimerInv' /\ CountInv'
    BY <1>4, <2>1 DEF TimerInv, CountInv, Within, LegCounts, TimerCounts
  <2>5. StartInv'
    BY <1>2, <1>4, BeforeInvite DEF StartInv
  <2> QED
    BY <1>1, <2>2, <2>3, <2>4, <2>5 DEF Inv
<1>5. CASE \E disposition \in RejectDispositions : InviteRejected(disposition)
  <2>1. PICK disposition \in RejectDispositions : InviteRejected(disposition)
    BY <1>5
  <2>2. disposition \in CallDisposition
    BY DEF RejectDispositions, CallDisposition
  <2>3. Outcomes' = 1
    BY <1>2, <2>1, <2>2, OutcomesAfterCount, BeforeInvite DEF Inv, TypeOK, InviteRejected
  <2>4. timers' = [armed |-> {}, ref |-> None]
    <3>1. timers' = Cancel([armed |-> {}, ref |-> None])
      BY <1>2, <2>1, BeforeInvite DEF InviteRejected
    <3>2. {} \ {None} = {}
      OBVIOUS
    <3> QED
      BY <3>1, <3>2 DEF Cancel
  <2>5. uaA' = "failed"
    BY <2>1 DEF InviteRejected, TrunkAfter
  <2> QED
    BY <1>4, <2>1, <2>3, <2>4, <2>5 DEF InviteRejected
<1>6. CASE DecideRaises
  <2>1. Outcomes' = 0
    BY <1>2, <1>6, BeforeInvite DEF DecideRaises, Outcomes
  <2>2. timers' = [armed |-> {}, ref |-> None]
    BY <1>2, <1>6, BeforeInvite DEF DecideRaises
  <2> QED
    BY <1>4, <1>6, <2>1, <2>2 DEF DecideRaises
<1> QED
  BY <1>3, <1>5, <1>6

\* A timer that outlived dispose is the only one armed, and it was lost by a failover.
LEMMA LateTimerAlone ==
  ASSUME Inv, stopped, NEW t \in timers.armed
  PROVE  /\ timers.armed = {t} /\ ~(Len(legs) <= 1) /\ TimerCounts = 1
         /\ uaA # "none"
         /\ [timers EXCEPT !.armed = @ \ {t}] = [armed |-> {}, ref |-> timers.ref]
         /\ timers.ref \in 0..Len(legs) /\ Len(legs) \in Nat
<1>1. timers.armed = {t}
  BY DEF Inv, TimerInv
<1>2. timers \in [armed : SUBSET (1..Len(legs)), ref : 0..Len(legs)]
  BY DEF Inv, TypeOK
<1>3. [timers EXCEPT !.armed = @ \ {t}] = [armed |-> {}, ref |-> timers.ref]
  <2>1. timers.armed \ {t} = {}
    BY <1>1
  <2>2. timers = [armed |-> timers.armed, ref |-> timers.ref]
    BY <1>2
  <2>3. [timers EXCEPT !.armed = @ \ {t}] = [armed |-> timers.armed \ {t}, ref |-> timers.ref]
    BY <2>2
  <2> QED
    BY <2>1, <2>3
<1> QED
  BY <1>1, <1>2, <1>3 DEF Inv, TimerInv, TimerCounts, StartInv, TypeOK

LEMMA LateTimerInv ==
  ASSUME Inv, stopped, LateTimerFires
  PROVE  Inv'
<1> DEFINE tm == [armed |-> {}, ref |-> timers.ref]
           ls == [legs EXCEPT ![uaO] = Released(legs[uaO])]
<1>1. PICK t \in timers.armed :
        \/ /\ timers' = tm
           /\ UNCHANGED <<trunk, hunt, metrics, stopped>>
        \/ /\ uaO # None /\ uaA # "connected"
           /\ \/ FailoverRaises(ls, tm)
              \/ RelayToTrunk("Disconnect", ls, tm)
              \/ RelayRaises("Disconnect", ls, tm)
  BY LateTimerAlone DEF LateTimerFires
<1>2. /\ timers.armed # {} /\ ~(Len(legs) <= 1) /\ TimerCounts = 1
      /\ uaA # "none" /\ timers.ref \in 0..Len(legs) /\ Len(legs) \in Nat
  BY <1>1, LateTimerAlone
<1>3. TypeOK'
  BY LateTimerType DEF Inv
<1>4. CASE timers' = tm /\ UNCHANGED <<trunk, hunt, metrics, stopped>>
  <2>1. UNCHANGED <<uaA, policy, route, legs, uaO, failover_hops, serving_hop,
                    failover_trace, calls_total, dispositions, peer_status, stopped>>
    BY <1>4 DEF trunk, hunt, metrics
  <2>2. HopsTriedInOrder' /\ SingleLiveLeg' /\ BridgedWhileConnected'
    BY <2>1 DEF Inv, HopsTriedInOrder, SingleLiveLeg, BridgedWhileConnected
  <2>3. StatusInv' /\ StartInv' /\ Outcomes' = Outcomes
    BY <1>2, <2>1 DEF Inv, StatusInv, StartInv, Outcomes
  <2>4. FirstTimerFollowsHop'
    BY <1>2, <2>1 DEF FirstTimerFollowsHop
  <2>5. TimerInv' /\ CountInv'
    BY <1>4, <2>1, <2>3, CountsKept DEF Inv, TimerInv
  <2> QED
    BY <1>3, <2>2, <2>3, <2>4, <2>5 DEF Inv
<1>5. ASSUME uaO # None, uaA # "connected"
      PROVE  LegEvent("Disconnect", uaO, Released(legs[uaO]), tm)
  <2>1. uaO \in DOMAIN legs /\ legs[uaO] \in LegStates
    BY <1>5 DEF Inv, TypeOK
  <2>2. Released(legs[uaO]) \in LegStates /\ Released(legs[uaO]) \notin Live
    BY <2>1, ReleasedType, ReleasedNotLive
  <2>3. tm \in Timers(Len(legs))
    BY <1>2 DEF Timers
  <2> QED
    BY <1>2, <1>5, <2>1, <2>2, <2>3 DEF LegEvent, Events, Progress, Terminal
<1> HIDE DEF tm
<1>6. CASE /\ uaO # None /\ uaA # "connected"
           /\ RelayToTrunk("Disconnect", ls, tm) \/ RelayRaises("Disconnect", ls, tm)
  BY <1>3, <1>5, <1>6, RelayInv
<1>7. CASE uaO # None /\ uaA # "connected" /\ FailoverRaises(ls, tm)
  <2>1. /\ uaO \in DOMAIN legs /\ legs[uaO] \in LegStates /\ legs \in Seq(LegStates)
    BY <1>7 DEF Inv, TypeOK
  <2>2. Released(legs[uaO]) \in LegStates /\ Released(legs[uaO]) \notin Live
    BY <2>1, ReleasedType, ReleasedNotLive
  <2>3. NextHopOriginated(ls) /\ timers' = Arm(tm, Len(ls) + 1)
    BY <1>7 DEF FailoverRaises, NextHopOriginated
  <2>4. /\ Len(legs') = Len(legs) + 1
        /\ HopsTriedInOrder' /\ SingleLiveLeg' /\ BridgedWhileConnected'
        /\ StatusInv' /\ StartInv' /\ FirstTimerFollowsHop'
        /\ UNCHANGED <<uaA, dispositions, stopped>>
    BY <1>7, <2>1, <2>2, <2>3, NextHopInv
  <2>5. timers'.armed = {timers'.ref}
    BY <2>3 DEF Arm, tm
  <2>6. TimerInv'
    BY <1>2, <1>7, <2>4, <2>5 DEF TimerInv
  <2>7. CountInv'
    <3>1. Outcomes \in Nat /\ Outcomes' = Outcomes
      BY <2>4, OutcomesNat DEF Inv, TypeOK, Outcomes
    <3>2. LegCounts' = 0 /\ TimerCounts' = 1
      BY <2>4, <2>5 DEF LegCounts, TimerCounts
    <3>3. Outcomes + LegCounts + TimerCounts <= 2
      BY DEF Inv, CountInv, Within
    <3>4. Outcomes' + LegCounts' + TimerCounts' <= 2
      BY <1>2, <3>1, <3>2, <3>3, CountsType
    <3>5. ~(Len(legs') <= 1)
      BY <1>2, <2>4
    <3> QED
      BY <3>4, <3>5 DEF CountInv, Within
  <2> QED
    BY <1>3, <2>4, <2>6, <2>7 DEF Inv
<1> QED
  BY <1>1, <1>4, <1>6, <1>7

LEMMA InitInv == Init => Inv
<1> SUFFICES ASSUME Init PROVE Inv
  OBVIOUS
<1>1. /\ uaA = "none" /\ route = <<>> /\ Len(route) = 0
      /\ legs = <<>> /\ Len(legs) = 0 /\ DOMAIN legs = {}
      /\ failover_hops = <<>> /\ Len(failover_hops) = 0 /\ uaO = 0
      /\ timers = [armed |-> {}, ref |-> None] /\ calls_total = 0
  BY DEF Init
<1>2. Outcomes = 0
  BY DEF Init, Outcomes, CallDisposition
<1>3. HopsTriedInOrder /\ SingleLiveLeg /\ BridgedWhileConnected
  BY <1>1 DEF HopsTriedInOrder, SingleLiveLeg, BridgedWhileConnected
<1>4. StatusInv /\ FirstTimerFollowsHop
  BY <1>1 DEF StatusInv, FirstTimerFollowsHop, FirstHopSilent
<1>5. StartInv /\ TimerInv /\ CountInv
  BY <1>1, <1>2 DEF StartInv, TimerInv, CountInv, Within, LegCounts, TimerCounts
<1> QED
  BY <1>3, <1>4, <1>5, InitType DEF Inv

LEMMA NextInv == Inv /\ [Next]_vars => Inv'
<1> SUFFICES ASSUME Inv, [Next]_vars
             PROVE  Inv'
  OBVIOUS
<1>1. TypeOK'
  BY NextType DEF Inv
<1>2. CASE ~stopped /\ TrunkStep
  BY <1>2, InviteInv, TrunkHangsUpInv DEF TrunkStep
<1>3. CASE ~stopped /\ \E i \in DOMAIN legs : LegStep(i)
  BY <1>3, LegStepInv
<1>4. CASE ~stopped /\ NoAnswerFires
  BY <1>4, NoAnswerInv
<1>6. CASE stopped /\ LateTimerFires
  BY <1>6, LateTimerInv
<1>5. CASE (~stopped /\ Dispose) \/ UNCHANGED vars
  <2>1. /\ UNCHANGED <<uaA, route, legs, uaO, failover_hops, serving_hop,
                       calls_total, dispositions, peer_status>>
        /\ \/ timers' = timers /\ stopped' = stopped
           \/ timers' = Cancel(timers) /\ ~stopped /\ stopped' = TRUE /\ uaA # "none"
    BY <1>5 DEF Dispose, vars, trunk, hunt, metrics
  <2>2. HopsTriedInOrder' /\ SingleLiveLeg' /\ BridgedWhileConnected'
    BY <2>1 DEF Inv, HopsTriedInOrder, SingleLiveLeg, BridgedWhileConnected
  <2>3. StatusInv' /\ StartInv'
    BY <2>1 DEF Inv, StatusInv, StartInv, Outcomes
  <2>4. timers'.armed \subseteq timers.armed
    BY <2>1 DEF Cancel
  <2>5. FirstTimerFollowsHop' /\ TimerInv'
    <3>1. CASE timers' = timers /\ stopped' = stopped
      BY <2>1, <3>1 DEF Inv, FirstTimerFollowsHop, FirstHopSilent, TimerInv
    <3>2. CASE timers' = Cancel(timers) /\ ~stopped /\ stopped' = TRUE
      <4>1. timers'.armed = timers.armed \ {timers.ref} /\ timers'.ref = None
        BY <3>2 DEF Cancel
      <4>2. Len(legs) <= 1 => timers'.armed = {}
        BY <4>1 DEF Inv, FirstTimerFollowsHop
      <4>3. timers.armed \subseteq {1}
        BY <3>2 DEF Inv, TimerInv
      <4>4. TimerInv'
        BY <2>1, <3>2, <4>1, <4>2, <4>3 DEF TimerInv
      <4>5. FirstTimerFollowsHop'
        BY <2>1, <3>2, <4>1, <4>2 DEF FirstTimerFollowsHop
      <4> QED
        BY <4>4, <4>5
    <3> QED
      BY <2>1, <3>1, <3>2
  <2>6. CountInv'
    <3>1. Outcomes' = Outcomes
      BY <2>1 DEF Outcomes
    <3> QED
      BY <2>1, <2>4, <3>1, CountsKept
  <2> QED
    BY <1>1, <2>2, <2>3, <2>4, <2>5, <2>6 DEF Inv
<1> QED
  BY <1>2, <1>3, <1>4, <1>5, <1>6 DEF Next, Running

LEMMA Invariance == Spec => []Inv
BY InitInv, NextInv, PTL DEF Spec

-----------------------------------------------------------------------------
(* The safety properties.                                                    *)

\* A failover never leaves two attempts alive (_try_failover).
THEOREM OneLegAtATime == Spec => []SingleLiveLeg
BY Invariance, PTL DEF Inv

\* The hops of a decision are served in its order, and the controller's record
\* of the hunt is consistent (_originate_outbound_leg, _try_failover).
THEOREM HuntInOrder == Spec => []HopsTriedInOrder
BY Invariance, PTL DEF Inv

\* The peer status of the hops follows the hunt (_try_failover).
THEOREM PeerStatusCorrect == Spec => []PeerStatusFollowsHunt
<1>1. Inv => PeerStatusFollowsHunt
  BY DEF Inv, StatusInv, PeerStatusFollowsHunt
<1> QED
  BY <1>1, Invariance, PTL

\* Until a failover the timer of the first attempt is armed, cancelled and disposed of
\* as it is meant to be (_originate_towards, _relay_from_next_hop, dispose).
THEOREM FirstTimerIsSound == Spec => []FirstTimerFollowsHop
BY Invariance, PTL DEF Inv

\* One call has at most one outcome until it is failed over and at most two after,
\* however many hops its list names (_record_disposition).
THEOREM AtMostTwoOutcomes == Spec => []OutcomesBounded
<1>1. Inv => OutcomesBounded
  <2> SUFFICES ASSUME Inv
               PROVE  /\ Len(legs) <= 1 => Outcomes <= calls_total
                      /\ Outcomes <= 2 * calls_total
    BY DEF OutcomesBounded
  <2>1. Outcomes \in Nat
    BY OutcomesNat DEF Inv, TypeOK
  <2>2. /\ Outcomes + LegCounts + TimerCounts <= 2
        /\ Len(legs) <= 1 => Outcomes <= 1
    BY DEF Inv, CountInv, Within
  <2>3. Outcomes <= 2
    BY <2>1, <2>2, CountsType
  <2>4. (calls_total = 0 /\ Outcomes = 0) \/ calls_total = 1
    BY DEF Inv, StartInv
  <2> QED
    BY <2>1, <2>2, <2>3, <2>4
<1> QED
  BY <1>1, Invariance, PTL

-----------------------------------------------------------------------------
(* Action properties.                                                        *)

\* A step of a timer that outlived dispose, when it does more than IdleTimer.
LateStep ==
  /\ stopped
  /\ timers.armed # {}
  /\ \E s \in LegStates : \E ls \in Seq(LegStates) :
       LET tm == [armed |-> {}, ref |-> timers.ref] IN
       \/ /\ timers' = tm
          /\ UNCHANGED <<trunk, hunt, metrics, stopped>>
       \/ /\ uaO \in DOMAIN legs /\ uaA # "connected"
          /\ ls = [legs EXCEPT ![uaO] = s] /\ Len(ls) = Len(legs)
          /\ \/ FailoverRaises(ls, tm)
             \/ failover_hops = <<>> /\ RelayToTrunk("Disconnect", ls, tm)
             \/ RelayRaises("Disconnect", ls, tm)

LEMMA LateCases ==
  ASSUME Inv, stopped, LateTimerFires
  PROVE  LateStep
<1> DEFINE tm == [armed |-> {}, ref |-> timers.ref]
           ls == [legs EXCEPT ![uaO] = Released(legs[uaO])]
<1>1. PICK t \in timers.armed :
        \/ /\ timers' = tm
           /\ UNCHANGED <<trunk, hunt, metrics, stopped>>
        \/ /\ uaO # None /\ uaA # "connected"
           /\ \/ FailoverRaises(ls, tm)
              \/ failover_hops = <<>> /\ RelayToTrunk("Disconnect", ls, tm)
              \/ RelayRaises("Disconnect", ls, tm)
  BY LateTimerAlone DEF LateTimerFires
<1>2. CASE timers' = tm /\ UNCHANGED <<trunk, hunt, metrics, stopped>>
  <2>1. "dead" \in LegStates /\ <<>> \in Seq(LegStates)
    BY DEF LegStates
  <2> QED
    BY <1>1, <1>2, <2>1 DEF LateStep
<1>3. CASE /\ uaO # None /\ uaA # "connected"
           /\ \/ FailoverRaises(ls, tm)
              \/ failover_hops = <<>> /\ RelayToTrunk("Disconnect", ls, tm)
              \/ RelayRaises("Disconnect", ls, tm)
  <2>1. legs \in Seq(LegStates) /\ uaO \in DOMAIN legs /\ legs[uaO] \in LegStates
    BY <1>3 DEF Inv, TypeOK
  <2>2. Released(legs[uaO]) \in LegStates
    BY <2>1, ReleasedType
  <2>3. ls \in Seq(LegStates) /\ Len(ls) = Len(legs)
    BY <2>1, <2>2, LegUpdate
  <2> QED
    BY <1>1, <1>3, <2>1, <2>2, <2>3 DEF LateStep
<1> QED
  BY <1>1, <1>2, <1>3

\* The kinds of steps a call takes.
LEMMA StepCases ==
  ASSUME Inv, [Next]_vars
  PROVE  \/ InviteArrives /\ TrunkStep
         \/ TrunkHangsUp
         \/ \E i \in DOMAIN legs : HopTrying(i) \/ LegDies(i)
         \/ IdleTimer
         \/ EventStep
         \/ Dispose
         \/ LateStep
         \/ UNCHANGED vars
<1>1. CASE TrunkStep
  BY <1>1 DEF TrunkStep, InviteRelayed, InviteRejected, DecideRaises
<1>2. CASE ~stopped /\ \E i \in DOMAIN legs : LegStep(i)
  BY <1>2, LegStepCases
<1>3. CASE ~stopped /\ NoAnswerFires
  BY <1>3, NoAnswerCases
<1>4. CASE stopped /\ LateTimerFires
  BY <1>4, LateCases
<1> QED
  BY <1>1, <1>2, <1>3, <1>4 DEF Next, Running

\* An event moves the leg that raised it and, by failover, adds one: no other
\* leg moves, and when the leg is not the one served nothing else does.
LEMMA RecvEventMoves ==
  ASSUME Inv,
         NEW event, NEW i, NEW s, NEW tm,
         LegEvent(event, i, s, tm),
         RecvEvent(event, i, [legs EXCEPT ![i] = s], tm)
  PROVE  /\ \A j \in DOMAIN legs : j # i => legs'[j] = legs[j]
         /\ i # uaO => UNCHANGED <<trunk, uaO, failover_hops, serving_hop,
                                   metrics, timers>>
<1> DEFINE ls == [legs EXCEPT ![i] = s]
<1>1. /\ ls \in Seq(LegStates)
      /\ DOMAIN ls = DOMAIN legs
      /\ \A j \in DOMAIN legs : j # i => ls[j] = legs[j]
  BY LegUpdate DEF Inv, TypeOK, LegEvent
<1>2. CASE legs' = ls
  BY <1>1, <1>2 DEF RecvEvent, LegEvent
<1>3. CASE legs' = Append(ls, "inviting") /\ i = uaO
  BY <1>1, <1>3
<1>4. legs' = ls \/ (legs' = Append(ls, "inviting") /\ i = uaO)
  BY DEF RecvEvent, RelayFromNextHop, TryFailover, OriginateTowards, RelayToTrunk
<1> QED
  BY <1>2, <1>3, <1>4

LEMMA LateStaysStopped == LateStep => stopped /\ stopped' = stopped
BY DEF LateStep, FailoverRaises, RelayToTrunk, RelayRaises

\* What CallerHasItsHop says of a caller who waits.
WaitingInv ==
  legs # <<>> /\ ~stopped =>
    /\ uaA \in {"trying", "ringing"} => legs[uaO] \in Early
    /\ uaA = "trying" => legs[uaO] \in Unanswered

\* A leg that is early or unanswered is no longer either once it is over, and the caller
\* is told; when it is replaced instead, its successor is neither answered nor over.
LEMMA EventWaiting ==
  ASSUME Inv, WaitingInv, EventStep
  PROVE  WaitingInv'
<1>1. PICK event \in Events, i \in DOMAIN legs,
           s \in LegStates, tm \in Timers(Len(legs)) :
        /\ ~stopped
        /\ LegEvent(event, i, s, tm)
        /\ RecvEvent(event, i, [legs EXCEPT ![i] = s], tm)
  BY DEF EventStep
<1> DEFINE ls == [legs EXCEPT ![i] = s]
<1>2. /\ uaO \in DOMAIN legs /\ legs # <<>>
      /\ ls \in Seq(LegStates) /\ Len(ls) = Len(legs) /\ ls[i] = s
      /\ \A j \in DOMAIN legs : j # i => ls[j] = legs[j]
  BY LegUpdate DEF Inv, TypeOK, HopsTriedInOrder
<1>3. CASE i # uaO
  <2>1. uaA' = uaA /\ uaO' = uaO /\ legs' = ls
    BY <1>1, <1>3 DEF RecvEvent, trunk
  <2> QED
    BY <1>1, <1>2, <1>3, <2>1 DEF WaitingInv
<1>4. CASE i = uaO /\ TryFailover(ls, tm)
  <2>1. legs' = Append(ls, "inviting") /\ uaO' = Len(ls) + 1
    BY <1>4 DEF TryFailover, OriginateTowards
  <2>2. legs'[uaO'] = "inviting"
    BY <1>2, <2>1
  <2> QED
    BY <2>2 DEF WaitingInv, Early, Unanswered
<1>5. CASE i = uaO /\ RelayToTrunk(event, ls, tm)
  <2>1. uaA' = TrunkAfter(uaA, event) /\ uaO' = uaO /\ legs'[uaO'] = s
    BY <1>2, <1>5 DEF RelayToTrunk
  <2>2. CASE event = "Ring"
    <3>1. s = "ringing" /\ uaA' # "trying"
      BY <1>1, <2>1, <2>2 DEF LegEvent, TrunkAfter
    <3> QED
      BY <2>1, <3>1 DEF WaitingInv, Early
  <2>3. CASE event # "Ring"
    <3>1. uaA' \notin {"trying", "ringing"}
      BY <2>1, <2>3 DEF TrunkAfter, Progress, Terminal, Events
    <3> QED
      BY <3>1 DEF WaitingInv
  <2> QED
    BY <2>2, <2>3
<1> QED
  BY <1>1, <1>3, <1>4, <1>5 DEF RecvEvent, RelayFromNextHop

LEMMA WaitingStep == Inv /\ WaitingInv /\ [Next]_vars => WaitingInv'
<1> SUFFICES ASSUME Inv, WaitingInv, [Next]_vars PROVE WaitingInv'
  OBVIOUS
<1>1. CASE InviteArrives /\ TrunkStep
  <2>1. legs = <<>>
    BY <1>1 DEF InviteArrives, Inv, StartInv
  <2>2. CASE \E hops \in HopLists : InviteRelayed(hops)
    <3>1. legs' = <<"inviting">> /\ uaO' = 1
      BY <2>1, <2>2 DEF InviteRelayed, OriginateTowards
    <3> QED
      BY <3>1 DEF WaitingInv, Early, Unanswered
  <2>3. CASE DecideRaises \/ \E disposition \in RejectDispositions : InviteRejected(disposition)
    BY <2>1, <2>3 DEF DecideRaises, InviteRejected, hunt, WaitingInv
  <2>4. CASE TrunkHangsUp
    BY <1>1, <2>4 DEF TrunkHangsUp, InviteArrives
  <2> QED
    BY <1>1, <2>2, <2>3, <2>4 DEF TrunkStep
<1>2. CASE TrunkHangsUp
  <2>1. uaA' \notin {"trying", "ringing"}
    BY <1>2 DEF TrunkHangsUp, TrunkAfter
  <2> QED
    BY <2>1 DEF WaitingInv
<1>3. CASE \E i \in DOMAIN legs : HopTrying(i) \/ LegDies(i)
  <2>1. PICK i \in DOMAIN legs : HopTrying(i) \/ LegDies(i)
    BY <1>3
  <2>2. /\ uaA' = uaA /\ uaO' = uaO /\ DOMAIN legs' = DOMAIN legs
        /\ legs \in Seq(LegStates) /\ uaO \in DOMAIN legs
        /\ \A j \in DOMAIN legs : j # i => legs'[j] = legs[j]
    BY <2>1 DEF HopTrying, LegDies, trunk, Inv, TypeOK, HopsTriedInOrder
  <2>3. legs[i] \in Early => legs[i] = "inviting" /\ legs'[i] = "proceeding"
    BY <2>1, <2>2 DEF HopTrying, LegDies, Ended, Early, Unanswered
  <2>4. stopped' = stopped
    BY <2>1 DEF HopTrying, LegDies
  <2> QED
    BY <2>2, <2>3, <2>4 DEF WaitingInv, Early, Unanswered
<1>4. CASE EventStep
  BY <1>4, EventWaiting
<1>5. CASE IdleTimer \/ Dispose \/ UNCHANGED vars
  BY <1>5 DEF IdleTimer, Dispose, vars, trunk, hunt, WaitingInv
<1>6. CASE LateStep
  <2>1. stopped'
    BY <1>6, LateStaysStopped
  <2> QED
    BY <2>1 DEF WaitingInv
<1> QED
  BY <1>1, <1>2, <1>3, <1>4, <1>5, <1>6, StepCases

\* A caller is never left waiting for a leg that is over, and an answered one is bridged,
\* however many hops fail, time out or answer late (_relay_from_next_hop,
\* _on_next_hop_no_answer).
THEOREM CallerIsServed == Spec => []CallerHasItsHop
<1>1. Init => WaitingInv
  BY DEF Init, WaitingInv
<1>2. Inv /\ WaitingInv => CallerHasItsHop
  BY DEF Inv, WaitingInv, CallerHasItsHop
<1> QED
  BY <1>1, <1>2, WaitingStep, Invariance, PTL DEF Spec

\* A caller of a single-hop call that has heard nothing has a timer armed that will tell
\* it: what SingleHopCallerHears needs besides the loop that runs the timer
\* (_originate_towards, _on_next_hop_no_answer).
THEOREM CallerHasItsTimer ==
  Spec => [](uaA = "trying" /\ Len(route) = 1 /\ legs # <<>> /\ ~stopped =>
               timers.armed = {1})
<1>1. Inv /\ CallerHasItsHop =>
        (uaA = "trying" /\ Len(route) = 1 /\ legs # <<>> /\ ~stopped => timers.armed = {1})
  <2> SUFFICES ASSUME Inv, CallerHasItsHop,
                      uaA = "trying", Len(route) = 1, legs # <<>>, ~stopped
               PROVE  timers.armed = {1}
    OBVIOUS
  <2>1. /\ uaO = Len(legs) /\ Len(legs) \in Nat /\ Len(legs) # 0
        /\ Len(failover_hops) \in Nat
        /\ Len(legs) + Len(failover_hops) = 1
    BY DEF Inv, HopsTriedInOrder, TypeOK
  <2>2. uaO = 1 /\ Len(legs) = 1
    BY <2>1
  <2> QED
    BY <2>2 DEF Inv, FirstTimerFollowsHop, FirstHopSilent, CallerHasItsHop
<1> QED
  BY <1>1, CallerIsServed, Invariance, PTL

ReplacedLegStep ==
  \A i \in DOMAIN legs \ {uaO} :
    legs'[i] # legs[i] =>
      UNCHANGED <<trunk, uaO, failover_hops, serving_hop, metrics, timers>>

\* An event of a leg that failover has replaced moves that leg and nothing else
\* of the call (recv_event).
THEOREM StaleEventsIgnored == Spec => ReplacedLegIsIgnored
<1>1. Inv /\ [Next]_vars => ReplacedLegStep
  <2> SUFFICES ASSUME Inv, [Next]_vars,
                      NEW j \in DOMAIN legs \ {uaO}, legs'[j] # legs[j]
               PROVE  UNCHANGED <<trunk, uaO, failover_hops, serving_hop, metrics, timers>>
    BY DEF ReplacedLegStep
  <2>1. CASE InviteArrives
    BY <2>1 DEF Inv, StartInv, InviteArrives
  <2>2. CASE TrunkHangsUp
    BY <2>2 DEF TrunkHangsUp, Inv, TypeOK
  <2>3. CASE \E i \in DOMAIN legs : HopTrying(i) \/ LegDies(i)
    BY <2>3 DEF HopTrying, LegDies
  <2>4. CASE EventStep
    <3>1. PICK event \in Events, i \in DOMAIN legs,
               s \in LegStates, tm \in Timers(Len(legs)) :
            /\ LegEvent(event, i, s, tm)
            /\ RecvEvent(event, i, [legs EXCEPT ![i] = s], tm)
      BY <2>4 DEF EventStep
    <3>2. i = j
      BY <3>1, RecvEventMoves
    <3>3. i # uaO
      BY <3>2
    <3> QED
      BY <3>1, <3>3, RecvEventMoves
  <2>5. CASE IdleTimer \/ Dispose \/ UNCHANGED vars
    BY <2>5 DEF IdleTimer, Dispose, vars, hunt
  <2>6. ~LateStep
    <3> SUFFICES ASSUME LateStep PROVE FALSE
      OBVIOUS
    <3>1. legs' # legs
      OBVIOUS
    <3>2. PICK s \in LegStates, ls \in Seq(LegStates) :
            /\ ls = [legs EXCEPT ![uaO] = s] /\ Len(ls) = Len(legs)
            /\ legs' = ls \/ legs' = Append(ls, "inviting")
      BY <3>1 DEF LateStep, FailoverRaises, OriginateTowards, RelayToTrunk, RelayRaises, hunt
    <3>3. ls[j] = legs[j] /\ j \in 1..Len(ls)
      BY <3>2 DEF Inv, TypeOK
    <3>4. Append(ls, "inviting")[j] = ls[j]
      BY <3>2, <3>3
    <3> QED
      BY <3>2, <3>3, <3>4
  <2> QED
    BY <2>1, <2>2, <2>3, <2>4, <2>5, <2>6, StepCases
<1> QED
  BY <1>1, Invariance, PTL DEF Spec, ReplacedLegIsIgnored, ReplacedLegStep

SurvivalStep ==
  uaA = "connected" /\ timers'.armed # timers.armed =>
    UNCHANGED <<trunk, hunt, metrics>>

\* No timer touches an answered call (_on_next_hop_no_answer).
THEOREM AnsweredCallKept == Spec => AnsweredCallSurvivesTimer
<1>1. Inv /\ [Next]_vars => SurvivalStep
  <2> SUFFICES ASSUME Inv, [Next]_vars,
                      uaA = "connected", timers'.armed # timers.armed
               PROVE  UNCHANGED <<trunk, hunt, metrics>>
    BY DEF SurvivalStep
  <2>1. timers.ref = None /\ None \notin timers.armed
    <3>1. timers.armed \subseteq 1..Len(legs)
      BY DEF Inv, TypeOK
    <3>2. 0 \notin 1..Len(legs)
      BY DEF Inv, TypeOK
    <3> QED
      BY <3>1, <3>2 DEF Inv, TimerInv
  <2>2. CASE IdleTimer \/ Dispose
    BY <2>2 DEF IdleTimer, Dispose
  <2>3. CASE EventStep
    <3>1. PICK event \in Events, i \in DOMAIN legs,
               s \in LegStates, tm \in Timers(Len(legs)) :
            /\ LegEvent(event, i, s, tm)
            /\ RecvEvent(event, i, [legs EXCEPT ![i] = s], tm)
      BY <2>3 DEF EventStep
    <3>2. CASE i # uaO
      BY <3>1, <3>2 DEF RecvEvent, LegEvent
    <3>3. CASE i = uaO
      <4>1. timers' = Cancel(timers) \/ timers' = timers
        BY <3>1, <3>3 DEF RecvEvent, RelayFromNextHop, RelayToTrunk, LegEvent
      <4>2. timers' = Cancel(timers) => timers'.armed = timers.armed
        BY <2>1 DEF Cancel
      <4> QED
        BY <4>1, <4>2
    <3> QED
      BY <3>2, <3>3
  <2>4. CASE InviteArrives
    BY <2>4 DEF InviteArrives
  <2>5. CASE TrunkHangsUp \/ UNCHANGED vars \/ \E i \in DOMAIN legs : HopTrying(i) \/ LegDies(i)
    BY <2>5 DEF TrunkHangsUp, vars, HopTrying, LegDies
  <2>6. CASE LateStep
    BY <2>6 DEF LateStep
  <2> QED
    BY <2>2, <2>3, <2>4, <2>5, <2>6, StepCases
<1> QED
  BY <1>1, Invariance, PTL DEF Spec, AnsweredCallSurvivesTimer, SurvivalStep

-----------------------------------------------------------------------------
(* Refinement of HopHunt.                                                    *)

\* Relaying an event to the trunk is a step of the hunt.
LEMMA RelayRefines ==
  ASSUME Inv,
         NEW event \in Events,
         NEW ls, Len(ls) = Len(legs), Len(legs) > 0,
         NEW tm,
         RelayToTrunk(event, ls, tm),
         ~(event \in Terminal /\ uaA # "connected" /\ failover_hops # <<>>)
  PROVE  Hunt!Next \/ UNCHANGED Hunt!vars
<1>1. /\ Len(legs') = Len(legs) /\ Len(route') = Len(route)
      /\ uaA' = TrunkAfter(uaA, event)
  BY DEF RelayToTrunk
<1>2. CASE event = "Ring"
  BY <1>1, <1>2 DEF TrunkAfter, Terminal, Hunt!Next, Hunt!Ring, Hunt!vars
<1>3. CASE event = "Connect"
  BY <1>1, <1>3 DEF TrunkAfter, Terminal, Hunt!Next, Hunt!Answer, Hunt!Waiting, Hunt!vars
<1>4. uaA # "connected" /\ event \in Terminal => Len(legs) = Len(route)
  <2> SUFFICES ASSUME failover_hops = <<>> PROVE Len(legs) = Len(route)
    OBVIOUS
  <2>1. Len(failover_hops) = 0
    OBVIOUS
  <2>2. Len(legs) \in Nat
    BY DEF Inv, TypeOK
  <2> QED
    BY <2>1, <2>2 DEF Inv, HopsTriedInOrder
<1>5. CASE event = "Disconnect"
  BY <1>1, <1>4, <1>5 DEF TrunkAfter, Terminal, Hunt!Next, Hunt!End, Hunt!Waiting, Hunt!vars
<1>6. CASE event = "Fail"
  BY <1>1, <1>4, <1>6 DEF TrunkAfter, Terminal, Hunt!Next, Hunt!Fail, Hunt!End,
                          Hunt!Waiting, Hunt!vars
<1>7. CASE event = "Redirect"
  BY <1>1, <1>7 DEF TrunkAfter, Terminal, Hunt!Next, Hunt!Redirect, Hunt!Waiting, Hunt!vars
<1> QED
  BY <1>2, <1>3, <1>5, <1>6, <1>7 DEF Events, Progress, Terminal

\* Failing over is trying the next hop.
LEMMA FailoverRefines ==
  ASSUME Inv, uaA # "none", uaA # "connected",
         NEW ls \in Seq(LegStates), Len(ls) = Len(legs),
         NEW tm,
         TryFailover(ls, tm) \/ FailoverRaises(ls, tm)
  PROVE  Hunt!TryNext
<1>1. /\ uaA' = uaA /\ Len(route') = Len(route)
      /\ legs' = Append(ls, "inviting")
  BY DEF TryFailover, FailoverRaises, OriginateTowards, trunk
<1>2. Len(legs') = Len(legs) + 1
  BY <1>1
<1>3. Len(legs) < Len(route)
  <2>1. failover_hops \in Seq(Hops) /\ failover_hops # <<>>
    BY DEF TryFailover, FailoverRaises, Inv, TypeOK
  <2>2. Len(failover_hops) \in Nat /\ Len(failover_hops) > 0
    BY <2>1
  <2>3. Len(legs) \in Nat /\ Len(legs) + Len(failover_hops) = Len(route)
    BY DEF Inv, TypeOK, HopsTriedInOrder
  <2> QED
    BY <2>2, <2>3
<1> QED
  BY <1>1, <1>2, <1>3 DEF Hunt!TryNext

\* A late timer tries the next hop, or tells the caller when there is none, or nobody.
LEMMA LateRefines ==
  ASSUME Inv, LateStep
  PROVE  Hunt!Next \/ UNCHANGED Hunt!vars
<1> DEFINE tm == [armed |-> {}, ref |-> timers.ref]
<1>1. PICK ls \in Seq(LegStates) :
        \/ UNCHANGED <<trunk, hunt>>
        \/ /\ uaO \in DOMAIN legs /\ uaA # "connected" /\ Len(ls) = Len(legs)
           /\ \/ FailoverRaises(ls, tm)
              \/ failover_hops = <<>> /\ RelayToTrunk("Disconnect", ls, tm)
              \/ RelayRaises("Disconnect", ls, tm)
  BY DEF LateStep
<1> HIDE DEF tm
<1>2. CASE UNCHANGED <<trunk, hunt>>
  BY <1>2 DEF trunk, hunt, Hunt!vars
<1>3. uaO \in DOMAIN legs => Len(legs) > 0 /\ uaA # "none"
  BY LegsAfterInvite DEF Inv, TypeOK
<1>4. CASE uaO \in DOMAIN legs /\ uaA # "connected" /\ Len(ls) = Len(legs) /\ FailoverRaises(ls, tm)
  BY <1>3, <1>4, FailoverRefines DEF Hunt!Next
<1>5. CASE /\ uaO \in DOMAIN legs /\ Len(ls) = Len(legs) /\ failover_hops = <<>>
           /\ RelayToTrunk("Disconnect", ls, tm)
  BY <1>3, <1>5, RelayRefines DEF Events, Terminal
<1>6. CASE Len(ls) = Len(legs) /\ RelayRaises("Disconnect", ls, tm)
  BY <1>6 DEF RelayRaises, trunk, Hunt!vars
<1> QED
  BY <1>1, <1>2, <1>4, <1>5, <1>6

LEMMA StepRefines ==
  ASSUME Inv, [Next]_vars
  PROVE  Hunt!Next \/ UNCHANGED Hunt!vars
<1>1. CASE InviteArrives /\ TrunkStep
  <2>1. uaA = "none" /\ Len(legs) = 0 /\ Len(route) = 0
    BY <1>1, BeforeInvite DEF InviteArrives
  <2>2. CASE \E hops \in HopLists : InviteRelayed(hops)
    <3>1. PICK hops \in HopLists : InviteRelayed(hops)
      BY <2>2
    <3>2. Len(hops) \in Nat \ {0}
      BY HopListsAssumption
    <3>3. uaA' = "trying" /\ route' = hops /\ legs' = Append(legs, "inviting")
      BY <3>1 DEF InviteRelayed, OriginateTowards
    <3>4. Len(legs') = 1
      BY <2>1, <3>3 DEF Inv, TypeOK
    <3> QED
      BY <2>1, <3>2, <3>3, <3>4 DEF Hunt!Next, Hunt!Offer
  <2>3. CASE \E disposition \in RejectDispositions : InviteRejected(disposition)
    BY <2>1, <2>3 DEF InviteRejected, TrunkAfter, hunt, Hunt!Next, Hunt!Fail
  <2>4. CASE DecideRaises
    BY <2>1, <2>4 DEF DecideRaises, hunt, Hunt!Next, Hunt!Leave
  <2>5. ~TrunkHangsUp
    BY <2>1 DEF TrunkHangsUp
  <2> QED
    BY <1>1, <2>2, <2>3, <2>4, <2>5 DEF TrunkStep
<1>2. CASE TrunkHangsUp
  <2>1. Len(legs') = Len(legs)
    BY <1>2 DEF TrunkHangsUp, Inv, TypeOK
  <2> QED
    BY <1>2, <2>1 DEF TrunkHangsUp, TrunkAfter, Hunt!Next, Hunt!HangUp, Hunt!Waiting
<1>3. CASE \E i \in DOMAIN legs : HopTrying(i) \/ LegDies(i)
  <2>1. Len(legs') = Len(legs)
    BY <1>3 DEF HopTrying, LegDies, Inv, TypeOK
  <2> QED
    BY <1>3, <2>1 DEF HopTrying, LegDies, trunk, Hunt!vars
<1>4. CASE IdleTimer \/ Dispose \/ UNCHANGED vars
  BY <1>4 DEF IdleTimer, Dispose, vars, trunk, hunt, Hunt!vars
<1>5. CASE EventStep
  <2>1. PICK event \in Events, i \in DOMAIN legs,
             s \in LegStates, tm \in Timers(Len(legs)) :
          /\ LegEvent(event, i, s, tm)
          /\ RecvEvent(event, i, [legs EXCEPT ![i] = s], tm)
    BY <1>5 DEF EventStep
  <2> DEFINE ls == [legs EXCEPT ![i] = s]
  <2>2. /\ ls \in Seq(LegStates) /\ Len(ls) = Len(legs)
        /\ Len(legs) > 0 /\ uaA # "none"
    BY LegUpdate, LegsAfterInvite DEF Inv, TypeOK
  <2>3. RecvEvent(event, i, ls, tm)
    BY <2>1
  <2> HIDE DEF ls
  <2>4. CASE i # uaO
    BY <2>2, <2>3, <2>4 DEF RecvEvent, trunk, Hunt!vars
  <2>5. CASE i = uaO /\ event \in Terminal /\ uaA # "connected" /\ failover_hops # <<>>
    BY <2>2, <2>3, <2>5, FailoverRefines DEF RecvEvent, RelayFromNextHop, Hunt!Next
  <2>6. CASE i = uaO /\ ~(event \in Terminal /\ uaA # "connected" /\ failover_hops # <<>>)
    BY <2>2, <2>3, <2>6, RelayRefines DEF RecvEvent, RelayFromNextHop
  <2> QED
    BY <2>4, <2>5, <2>6
<1>6. CASE LateStep
  BY <1>6, LateRefines
<1> QED
  BY <1>1, <1>2, <1>3, <1>4, <1>5, <1>6, StepCases

\* The controller implements the hunt: hops one at a time, none after the
\* answer, and a failure only when no hop is left (_relay_from_next_hop).
THEOREM ControllerImplementsHopHunt == Spec => ImplementsHopHunt
<1>1. Init => Hunt!Init
  BY DEF Init, Hunt!Init
<1>2. Inv /\ [Next]_vars => [Hunt!Next]_(Hunt!vars)
  BY StepRefines
<1> QED
  BY <1>1, <1>2, Invariance, PTL DEF Spec, ImplementsHopHunt, Hunt!Spec

\* Whoever follows the hunt tells a caller of a failure only when it has tried every hop.
HuntExhausted ==
  /\ Len(route) \in Nat /\ Len(legs) \in Nat
  /\ Len(legs) <= Len(route)
  /\ uaA = "none" => Len(legs) = 0
  /\ uaA = "failed" => Len(legs) = Len(route)

LEMMA HuntExhausts ==
  /\ Hunt!Init => HuntExhausted
  /\ HuntExhausted /\ [Hunt!Next]_(Hunt!vars) => HuntExhausted'
<1>1. Hunt!Init => HuntExhausted
  BY DEF Hunt!Init, HuntExhausted
<1>2. HuntExhausted /\ [Hunt!Next]_(Hunt!vars) => HuntExhausted'
  <2> SUFFICES ASSUME HuntExhausted, [Hunt!Next]_(Hunt!vars) PROVE HuntExhausted'
    OBVIOUS
  <2>1. CASE Hunt!Offer
    BY <2>1 DEF HuntExhausted, Hunt!Offer
  <2>2. CASE Hunt!TryNext
    BY <2>2 DEF HuntExhausted, Hunt!TryNext
  <2>3. CASE Hunt!Fail
    BY <2>3 DEF HuntExhausted, Hunt!Fail
  <2>4. CASE \/ Hunt!Leave \/ Hunt!Ring \/ Hunt!Answer
             \/ Hunt!Redirect \/ Hunt!End \/ Hunt!HangUp
    BY <2>4 DEF HuntExhausted, Hunt!Leave, Hunt!Ring, Hunt!Answer,
                Hunt!Redirect, Hunt!End, Hunt!HangUp, Hunt!Waiting
  <2>5. CASE UNCHANGED Hunt!vars
    BY <2>5 DEF HuntExhausted, Hunt!vars
  <2> QED
    BY <2>1, <2>2, <2>3, <2>4, <2>5 DEF Hunt!Next
<1> QED
  BY <1>1, <1>2

\* The caller is told of a failure only when the call has been offered to every hop the
\* application named: what HopHunt promises holds of its implementation
\* (_relay_from_next_hop: "When no failover hop remains, the failure is relayed").
THEOREM FailureIsTheLastHops == Spec => [](uaA = "failed" => Len(legs) = Len(route))
<1>1. HuntExhausted => (uaA = "failed" => Len(legs) = Len(route))
  BY DEF HuntExhausted
<1> QED
  BY <1>1, HuntExhausts, ControllerImplementsHopHunt, PTL DEF ImplementsHopHunt, Hunt!Spec

-----------------------------------------------------------------------------
(* Refinement of StackCall: TimerInv says that there is only ever one timer. *)

\* Relaying an event settles the call, or a timer has fired, or nothing is left to
\* settle.
LEMMA RelaySettles ==
  ASSUME Inv, ~stopped,
         NEW event, NEW ls, Len(ls) = Len(legs),
         NEW tm \in Timers(Len(legs)), tm.ref = timers.ref, tm.armed \subseteq timers.armed,
         uaA # "none",
         event \in Progress \cup Terminal,
         RelayToTrunk(event, ls, tm)
  PROVE  OfStack!Next \/ UNCHANGED OfStack!vars
<1>1. /\ Len(legs') = Len(legs) /\ stopped' = stopped
      /\ timers'.ref = None /\ timers'.armed = tm.armed \ {timers.ref}
  BY DEF RelayToTrunk, Cancel
<1>2. uaA' # "none"
  BY DEF RelayToTrunk, TrunkAfter
<1>3. timers.armed \subseteq {1} /\ timers.ref \in {None, 1}
  BY DEF Inv, TimerInv
<1>4. CASE timers.ref = 1
  <2>1. timers.ref # None /\ timers'.armed = {}
    BY <1>1, <1>3, <1>4 DEF None
  <2> QED
    BY <1>1, <1>2, <2>1 DEF OfStack!Next, OfStack!Settle
<1>5. CASE timers.ref = None
  <2>1. timers'.armed = tm.armed
    BY <1>1, <1>3, <1>5 DEF None
  <2>2. CASE tm.armed = timers.armed
    BY <1>1, <1>2, <1>5, <2>1, <2>2 DEF OfStack!vars
  <2>3. CASE tm.armed # timers.armed
    <3>1. timers.armed # {} /\ timers'.armed = {}
      BY <1>3, <2>1, <2>3
    <3> QED
      BY <1>1, <1>2, <1>5, <3>1 DEF OfStack!Next, OfStack!Fire
  <2> QED
    BY <2>2, <2>3
<1> QED
  BY <1>3, <1>4, <1>5

\* Failing over cancels the timer it has just armed and leaves the other one, unless
\* that is the one that has fired.
LEMMA FailoverLosesTimer ==
  ASSUME Inv, ~stopped,
         NEW ls \in Seq(LegStates), Len(ls) = Len(legs), Len(legs) > 0,
         NEW tm \in Timers(Len(legs)), tm.ref = timers.ref, tm.armed \subseteq timers.armed,
         uaA # "none",
         TryFailover(ls, tm)
  PROVE  OfStack!Next
<1>1. Len(legs) \in Nat
  BY DEF Inv, TypeOK
<1>2. legs' = Append(ls, "inviting") /\ uaA' = uaA /\ stopped' = stopped
  BY DEF TryFailover, OriginateTowards, trunk
<1>3. Len(legs') = Len(legs) + 1
  BY <1>2
<1>4. timers.armed \subseteq {1}
  BY DEF Inv, TimerInv
<1>5. timers'.ref = None /\ timers'.armed = (tm.armed \cup {Len(ls) + 1}) \ {Len(ls) + 1}
  BY DEF TryFailover, Cancel, Arm
<1>6. timers'.armed = tm.armed
  BY <1>1, <1>4, <1>5
<1>7. CASE tm.armed = timers.armed
  BY <1>1, <1>2, <1>3, <1>5, <1>6, <1>7 DEF OfStack!Next, OfStack!FailOver
<1>8. CASE tm.armed # timers.armed
  <2>1. timers.armed # {} /\ timers'.armed = {}
    BY <1>4, <1>6, <1>8
  <2> QED
    BY <1>2, <1>3, <1>5, <2>1 DEF OfStack!Next, OfStack!Fire
<1> QED
  BY <1>7, <1>8

LEMMA InviteOfStack ==
  ASSUME Inv, ~stopped, InviteArrives, TrunkStep
  PROVE  OfStack!Next
<1>1. /\ uaA = "none" /\ Len(legs) = 0
      /\ timers = [armed |-> {}, ref |-> None]
  BY BeforeInvite DEF InviteArrives
<1>2. CASE \E hops \in HopLists : InviteRelayed(hops)
  <2>1. PICK hops \in HopLists : InviteRelayed(hops)
    BY <1>2
  <2>2. /\ uaA' = "trying" /\ stopped' = stopped /\ legs' = Append(legs, "inviting")
        /\ timers' = Arm(timers, 1)
    BY <1>1, <2>1 DEF InviteRelayed, OriginateTowards
  <2>3. Len(legs') = 1
    BY <1>1, <2>2 DEF Inv, TypeOK
  <2>4. timers'.ref # None /\ timers'.armed # {}
    BY <1>1, <2>2 DEF Arm, None
  <2> QED
    BY <1>1, <2>2, <2>3, <2>4 DEF OfStack!Next, OfStack!Relay
<1>3. CASE \E disposition \in RejectDispositions : InviteRejected(disposition)
  <2>1. uaA' # "none" /\ stopped' = stopped /\ legs' = legs /\ timers' = Cancel(timers)
    BY <1>3 DEF InviteRejected, TrunkAfter, hunt
  <2>2. timers' = timers
    BY <1>1, <2>1 DEF Cancel
  <2> QED
    BY <1>1, <2>1, <2>2 DEF OfStack!Next, OfStack!Reject
<1>4. CASE DecideRaises
  BY <1>1, <1>4 DEF DecideRaises, hunt, OfStack!Next, OfStack!Reject
<1>5. ~TrunkHangsUp
  BY <1>1 DEF TrunkHangsUp
<1> QED
  BY <1>2, <1>3, <1>4, <1>5 DEF TrunkStep

LEMMA StepOfStack ==
  ASSUME Inv, ~stopped, [Next]_vars
  PROVE  OfStack!Next \/ UNCHANGED OfStack!vars
<1>1. CASE InviteArrives /\ TrunkStep
  BY <1>1, InviteOfStack
<1>2. CASE TrunkHangsUp
  <2>1. Len(legs') = Len(legs)
    BY <1>2 DEF TrunkHangsUp, Inv, TypeOK
  <2>2. uaA # "none" /\ uaA' # "none" /\ timers' = timers /\ stopped' = stopped
    BY <1>2 DEF TrunkHangsUp, TrunkAfter
  <2> QED
    BY <2>1, <2>2 DEF OfStack!vars
<1>3. CASE \E i \in DOMAIN legs : HopTrying(i) \/ LegDies(i)
  <2>1. Len(legs') = Len(legs)
    BY <1>3 DEF HopTrying, LegDies, Inv, TypeOK
  <2> QED
    BY <1>3, <2>1 DEF HopTrying, LegDies, trunk, OfStack!vars
<1>4. CASE IdleTimer
  <2>1. PICK t \in timers.armed : timers' = [timers EXCEPT !.armed = @ \ {t}]
    BY <1>4 DEF IdleTimer
  <2>2. timers'.ref = timers.ref /\ timers'.armed = timers.armed \ {t}
    BY <2>1 DEF Inv, TypeOK
  <2>3. timers.armed # {} /\ timers'.armed = {}
    BY <2>2 DEF Inv, TimerInv
  <2>4. uaA # "none" /\ uaA' = uaA /\ legs' = legs /\ stopped' = stopped
    BY <1>4, <2>1 DEF IdleTimer, trunk, hunt, Inv, StartInv
  <2> QED
    BY <2>2, <2>3, <2>4 DEF OfStack!Next, OfStack!Fire
<1>5. CASE Dispose
  <2>1. /\ uaA # "none" /\ uaA' = uaA /\ legs' = legs /\ stopped' = TRUE
        /\ timers'.ref = None /\ timers'.armed = timers.armed \ {timers.ref}
    BY <1>5 DEF Dispose, Cancel, trunk, hunt
  <2>2. timers.armed \subseteq {1} /\ timers.ref \in {None, 1}
    BY DEF Inv, TimerInv
  <2>3. timers'.armed # {} <=> timers.armed # {} /\ ~(timers.ref # None)
    BY <2>1, <2>2 DEF None
  <2> QED
    BY <2>1, <2>3 DEF OfStack!Next, OfStack!Stop
<1>6. CASE EventStep
  <2>1. PICK event \in Events, i \in DOMAIN legs,
             s \in LegStates, tm \in Timers(Len(legs)) :
          /\ LegEvent(event, i, s, tm)
          /\ RecvEvent(event, i, [legs EXCEPT ![i] = s], tm)
    BY <1>6 DEF EventStep
  <2> DEFINE ls == [legs EXCEPT ![i] = s]
  <2>2. /\ ls \in Seq(LegStates) /\ Len(ls) = Len(legs)
        /\ Len(legs) > 0 /\ uaA # "none"
    BY LegUpdate, LegsAfterInvite DEF Inv, TypeOK
  <2>3. RecvEvent(event, i, ls, tm)
    BY <2>1
  <2>4. tm.ref = timers.ref /\ tm.armed \subseteq timers.armed /\ (i # uaO => tm = timers)
    BY <2>1 DEF LegEvent
  <2> HIDE DEF ls
  <2>5. CASE i # uaO
    BY <2>2, <2>3, <2>4, <2>5 DEF RecvEvent, trunk, OfStack!vars
  <2>6. CASE i = uaO /\ event \in Progress \cup Terminal
    BY <2>2, <2>3, <2>4, <2>6, RelaySettles, FailoverLosesTimer
    DEF RecvEvent, RelayFromNextHop
  <2>7. CASE i = uaO /\ event \notin Progress \cup Terminal
    <3>1. RelayToTrunk(event, ls, tm) /\ tm = timers
      BY <2>1, <2>3, <2>7 DEF RecvEvent, RelayFromNextHop, LegEvent
    <3> QED
      BY <2>2, <2>7, <3>1 DEF RelayToTrunk, TrunkAfter, OfStack!vars
  <2> QED
    BY <2>5, <2>6, <2>7
<1>7. CASE UNCHANGED vars
  BY <1>7 DEF vars, trunk, hunt, OfStack!vars
<1> QED
  BY <1>1, <1>2, <1>3, <1>4, <1>5, <1>6, <1>7, StepCases DEF LateStep

\* A late timer is consumed, or leaves one timer, held and armed, in its place.
LEMMA LateOfStack ==
  ASSUME Inv, LateStep
  PROVE  OfStack!Next
<1> DEFINE tm == [armed |-> {}, ref |-> timers.ref]
<1>1. PICK ls \in Seq(LegStates) :
        \/ timers' = tm /\ UNCHANGED <<trunk, hunt, metrics, stopped>>
        \/ /\ uaO \in DOMAIN legs /\ Len(ls) = Len(legs)
           /\ \/ FailoverRaises(ls, tm)
              \/ RelayToTrunk("Disconnect", ls, tm)
              \/ RelayRaises("Disconnect", ls, tm)
  BY DEF LateStep
<1>2. stopped /\ stopped' = stopped /\ timers.armed # {} /\ uaA # "none"
  <2>1. timers.armed # {}
    BY DEF LateStep
  <2>2. uaA # "none"
    BY <2>1 DEF Inv, StartInv
  <2>3. stopped /\ stopped' = stopped
    BY LateStaysStopped
  <2> QED
    BY <2>1, <2>2, <2>3
<1>3. CASE timers' = tm /\ UNCHANGED <<trunk, hunt, metrics, stopped>>
  BY <1>2, <1>3 DEF trunk, hunt, OfStack!Next, OfStack!LateFire
<1>4. CASE /\ Len(ls) = Len(legs)
           /\ RelayToTrunk("Disconnect", ls, tm) \/ RelayRaises("Disconnect", ls, tm)
  <2>1. timers' = Cancel(tm) /\ legs' = ls /\ uaA' # "none"
    BY <1>2, <1>4 DEF RelayToTrunk, RelayRaises, trunk, TrunkAfter, Terminal
  <2>2. timers'.armed = {} /\ timers'.ref = None
    BY <2>1 DEF Cancel
  <2> QED
    BY <1>2, <1>4, <2>1, <2>2 DEF OfStack!Next, OfStack!LateFire
<1>5. CASE Len(ls) = Len(legs) /\ FailoverRaises(ls, tm)
  <2>1. /\ timers' = Arm(tm, Len(legs) + 1) /\ legs' = Append(ls, "inviting")
        /\ uaA' = uaA
    BY <1>5 DEF FailoverRaises, OriginateTowards, trunk
  <2>2. Len(legs') = Len(legs) + 1 /\ Len(legs) \in Nat
    BY <1>5, <2>1 DEF Inv, TypeOK
  <2>3. timers'.armed # {} /\ timers'.ref # None
    BY <2>1, <2>2 DEF Arm
  <2> QED
    BY <1>2, <2>1, <2>2, <2>3 DEF OfStack!Next, OfStack!LateFire
<1> QED
  BY <1>1, <1>3, <1>4, <1>5

\* The call AsStack works with is a sound reduction of this one, for hop lists of any
\* length: one timer, referred to or lost (_originate_towards, dispose).
THEOREM ControllerImplementsStackCall == Spec => ImplementsStackCall
<1>1. Init => OfStack!Init
  BY DEF Init, OfStack!Init
<1>2. Inv /\ [Next]_vars => [OfStack!Next]_(OfStack!vars)
  <2>1. Inv /\ stopped /\ [Next]_vars => UNCHANGED vars \/ LateStep
    BY LateCases DEF Next
  <2>2. UNCHANGED vars => UNCHANGED OfStack!vars
    BY DEF vars, trunk, hunt, OfStack!vars
  <2> QED
    BY <2>1, <2>2, StepOfStack, LateOfStack
<1> QED
  BY <1>1, <1>2, Invariance, PTL DEF Spec, ImplementsStackCall, OfStack!Spec
=============================================================================
