---------------------------- MODULE CallController ----------------------------
(***************************************************************************)
(* One B2BUA call: BaseCallController (call_controller.py).                *)
(*                                                                         *)
(* The controller relays call control events between the answering leg    *)
(* uaA (the trunk) and the originating leg uaO (the next hop), walks an    *)
(* ordered list of failover hops, and owns a no-answer timer per attempt.  *)
(* Everything runs on the one thread of sippy's event loop, so a callback  *)
(* is one atomic step: the step of an action is the whole chain of calls   *)
(* that callback makes.  The interleavings are those of the callbacks:     *)
(* trunk messages, next-hop messages, timers, and the stop of the stack.   *)
(*                                                                         *)
(* sippy itself is not part of the repository.  Its user agent (UA) is     *)
(* modelled from the way the controller uses it: recvEvent drives a leg's  *)
(* state and raises nothing; a message from the wire drives it and raises  *)
(* one event through the callback; disconnect() does both.                 *)
(***************************************************************************)
EXTENDS Naturals, Sequences

CONSTANTS
  Hops,        \* the next hops an application may name
  HopLists,    \* the ordered hop lists a RELAY decision may carry
  TrunkPeer    \* the peer-status key of the trunk the INVITE came from

\* "A RELAY decision always names at least one hop" (decide).
ASSUME HopListsAssumption ==
  /\ HopLists \subseteq Seq(Hops)
  /\ <<>> \notin HopLists
  /\ TrunkPeer \notin Hops

None == 0    \* Python's None, for references to a leg, a timer or a hop

\* The CCEvents a leg raises: CCEventRing, -Connect, -Fail, -Disconnect, and one that
\* is none of these and still ends the leg, CCEventRedirect.
Progress == {"Ring", "Connect"}
Terminal == {"Fail", "Disconnect"}
Events == Progress \cup Terminal \cup {"Redirect"}

CallDisposition == {"completed", "failed", "rejected", "no_match", "abandoned"}
RejectDispositions == {"rejected", "no_match"}
PeerStatus == {"unknown", "reachable", "unreachable"}

\* "hungup": ended by the caller; the last three: ended by what the controller answered.
TrunkStates == {"none", "trying", "ringing", "connected", "hungup",
                "failed", "disconnected", "redirected"}

\* "proceeding": the hop sent 100 Trying, so sippy waits on, and nothing more;
\* "cancelling": torn down by the AS before a final response;
\* "dead": sippy has dropped the leg and raises no more events for it.
LegStates == {"inviting", "proceeding", "ringing", "connected",
              "cancelling", "failed", "disconnected", "dead"}
Unanswered == {"inviting", "proceeding"}
Early == Unanswered \cup {"ringing"}
Live == Early \cup {"connected"}
Ended == {"cancelling", "failed", "disconnected"}

VARIABLES
  uaA,            \* state of the trunk leg
  policy,         \* the action of the decision being applied
  route,          \* the hops of that decision
  legs,           \* every originating UA made for this call, by attempt
  uaO,            \* the attempt the controller serves: an index of legs, or None
  failover_hops,  \* the hops left to try
  serving_hop,    \* the hop of the serving attempt
  timers,         \* armed: the attempts whose no-answer timer is pending;
                  \* ref: the timer self._no_answer_timer points at
  calls_total,    \* MetricsRegistry.calls_total
  dispositions,   \* MetricsRegistry.calls_by_disposition
  peer_status,    \* MetricsRegistry.peer_status
  failover_trace, \* the failed_hop attribute of each failover trace event
  stopped         \* the stack has stopped and disposed the controller

trunk == <<uaA, policy, route>>
hunt == <<legs, uaO, failover_hops, serving_hop, failover_trace>>
metrics == <<calls_total, dispositions, peer_status>>
vars == <<trunk, hunt, metrics, timers, stopped>>

Init ==
  /\ uaA = "none"
  /\ policy = "none"
  /\ route = <<>>
  /\ legs = <<>>
  /\ uaO = None
  /\ failover_hops = <<>>
  /\ serving_hop = None
  /\ timers = [armed |-> {}, ref |-> None]
  /\ calls_total = 0
  /\ dispositions = [d \in CallDisposition |-> 0]
  /\ peer_status = [p \in Hops \cup {TrunkPeer} |-> "unknown"]
  /\ failover_trace = <<>>
  /\ stopped = FALSE

-----------------------------------------------------------------------------
(* The UA of sippy.                                                          *)

\* UA.recvEvent on the trunk leg: what the controller tells it to answer.
TrunkAfter(state, event) ==
  IF event = "Ring" /\ state = "trying" THEN "ringing"
  ELSE IF event = "Connect" /\ state \in {"trying", "ringing"} THEN "connected"
  ELSE IF event = "Fail" /\ state \in {"trying", "ringing"} THEN "failed"
  ELSE IF event = "Redirect" /\ state \in {"trying", "ringing"} THEN "redirected"
  ELSE IF event \in Terminal /\ state \in {"trying", "ringing", "connected"}
       THEN "disconnected"
  ELSE state

\* Mutant: a hop that is ringing is left alone.
ReleasedUnlessRinging(state) ==
  IF state \in Unanswered THEN "cancelling"
  ELSE IF state = "connected" THEN "disconnected"
  ELSE state

\* UA.recvEvent(CCEventDisconnect) on an originating leg.
Released(state) ==
  IF state \in Early THEN "cancelling"
  ELSE IF state = "connected" THEN "disconnected"
  ELSE state

-----------------------------------------------------------------------------
(* The no-answer timer.                                                      *)

\* self._no_answer_timer = Timeout(...): a reference already held is dropped,
\* and the timer it pointed at stays armed in the event loop.
Arm(t, attempt) == [armed |-> t.armed \cup {attempt}, ref |-> attempt]

\* Mutant: the reference is dropped, the timer is not cancelled.
CancelForgetsTimer(t) == [t EXCEPT !.ref = None]

\* _cancel_no_answer_timer
Cancel(t) == [armed |-> t.armed \ {t.ref}, ref |-> None]

-----------------------------------------------------------------------------
(* Counters.                                                                 *)

Counted(disposition) == [dispositions EXCEPT ![disposition] = @ + 1]

\* _record_disposition: the outcome named by the event that ended the call.
DispositionOf(event) ==
  IF event = "Fail" THEN "failed"
  ELSE IF uaA = "connected" THEN "completed"
  ELSE "abandoned"

-----------------------------------------------------------------------------
(* Originating an attempt.  ls and status are the legs and peer states the   *)
(* callback has reached by then.                                             *)

\* Mutant: the new leg takes the place of the old one.
OriginateInPlace(hop, ls, status) ==
  /\ serving_hop' = hop
  /\ uaO' = Len(ls) + 1
  /\ legs' = IF ls = <<>> THEN <<"inviting">> ELSE [ls EXCEPT ![Len(ls)] = "inviting"]
  /\ peer_status' = [status EXCEPT ![hop] = "reachable"]

\* Mutant: the hop first served stays the serving hop.
OriginateForFirstHop(hop, ls, status) ==
  /\ serving_hop' = IF ls = <<>> THEN hop ELSE serving_hop
  /\ uaO' = Len(ls) + 1
  /\ legs' = Append(ls, "inviting")
  /\ peer_status' = [status EXCEPT ![hop] = "reachable"]

OriginateTowards(hop, ls, status) ==
  /\ serving_hop' = hop
  /\ uaO' = Len(ls) + 1
  /\ legs' = Append(ls, "inviting")
  /\ peer_status' = [status EXCEPT ![hop] = "reachable"]

\* Mutant: the hop that failed stays reachable.
TryFailoverForgetsPeer(ls, tm) ==
  /\ failover_hops # <<>>
  /\ OriginateTowards(Head(failover_hops), ls, peer_status)
  /\ failover_hops' = Tail(failover_hops)
  /\ timers' = Cancel(Arm(tm, Len(ls) + 1))
  /\ failover_trace' = Append(failover_trace, serving_hop')
  /\ UNCHANGED <<trunk, calls_total, dispositions, stopped>>

\* _try_failover and the end of the failover branch of _relay_from_next_hop,
\* which cancels the timer held at that point -- the one OriginateTowards has
\* just armed -- and names the hop served at that point as the failed one.
TryFailover(ls, tm) ==
  /\ failover_hops # <<>>
  /\ OriginateTowards(Head(failover_hops), ls,
                      [peer_status EXCEPT ![serving_hop] = "unreachable"])
  /\ failover_hops' = Tail(failover_hops)
  /\ timers' = Cancel(Arm(tm, Len(ls) + 1))
  /\ failover_trace' = Append(failover_trace, serving_hop')
  /\ UNCHANGED <<trunk, calls_total, dispositions, stopped>>

\* The rest of _relay_from_next_hop: the event goes to the trunk leg.  An event it does
\* not know leaves the timer and the counters alone.
RelayToTrunk(event, ls, tm) ==
  /\ uaA' = TrunkAfter(uaA, event)
  /\ legs' = ls
  /\ timers' = IF event \in Progress \cup Terminal THEN Cancel(tm) ELSE tm
  /\ dispositions' = IF event \in Terminal THEN Counted(DispositionOf(event))
                                           ELSE dispositions
  /\ UNCHANGED <<policy, route, uaO, failover_hops, serving_hop, failover_trace,
                 calls_total, peer_status, stopped>>

\* Mutant: a hop that hangs up an answered call is failed over.
FailoverWhenConnected(event, ls, tm) ==
  IF event \in Terminal /\ failover_hops # <<>>
  THEN TryFailover(ls, tm)
  ELSE RelayToTrunk(event, ls, tm)

\* Mutant: a hop that refuses the call is not failed over.
FailoverOnDisconnectOnly(event, ls, tm) ==
  IF event = "Disconnect" /\ uaA # "connected" /\ failover_hops # <<>>
  THEN TryFailover(ls, tm)
  ELSE RelayToTrunk(event, ls, tm)

\* Mutant: the failure of the last hop is not relayed.
LastFailureDropped(event, ls, tm) ==
  IF event \in Terminal /\ uaA # "connected"
  THEN IF failover_hops # <<>>
       THEN TryFailover(ls, tm)
       ELSE /\ legs' = ls
            /\ timers' = Cancel(tm)
            /\ UNCHANGED <<trunk, uaO, failover_hops, serving_hop, failover_trace,
                           metrics, stopped>>
  ELSE RelayToTrunk(event, ls, tm)

RelayFromNextHop(event, ls, tm) ==
  IF event \in Terminal /\ uaA # "connected" /\ failover_hops # <<>>
  THEN TryFailover(ls, tm)
  ELSE RelayToTrunk(event, ls, tm)

\* Mutant: events of a replaced leg are relayed too.
RelayStaleEvent(event, i, ls, tm) == RelayFromNextHop(event, ls, tm)

\* recv_event for an event raised by attempt i.  ls and tm are the legs and the
\* timers once sippy, or the timer that fired, has done its part.
RecvEvent(event, i, ls, tm) ==
  IF i = uaO
  THEN RelayFromNextHop(event, ls, tm)
  ELSE /\ legs' = ls
       /\ timers' = tm
       /\ UNCHANGED <<trunk, uaO, failover_hops, serving_hop, failover_trace,
                      metrics, stopped>>

-----------------------------------------------------------------------------
(* The trunk side.                                                           *)

\* recv_request up to the decision: the answering UA is made, and raises
\* CCEventTry before recv_request returns.
InviteArrives ==
  /\ uaA = "none"
  /\ calls_total' = calls_total + 1

TrunkReachable == [peer_status EXCEPT ![TrunkPeer] = "reachable"]

InviteRelayed(hops) ==
  /\ InviteArrives
  /\ uaA' = "trying"
  /\ policy' = "relay"
  /\ route' = hops
  /\ failover_hops' = Tail(hops)
  /\ OriginateTowards(Head(hops), legs, TrunkReachable)
  /\ timers' = Arm(timers, Len(legs) + 1)
  /\ UNCHANGED <<dispositions, failover_trace, stopped>>

\* _reject_on_trunk: the trunk leg answers with the status of the decision.
InviteRejected(disposition) ==
  /\ InviteArrives
  /\ uaA' = TrunkAfter("trying", "Fail")
  /\ policy' = "reject"
  /\ timers' = Cancel(timers)
  /\ dispositions' = Counted(disposition)
  /\ peer_status' = TrunkReachable
  /\ UNCHANGED <<route, hunt, stopped>>

\* The application's decide() raises: nothing has been originated, and the
\* answering UA is left waiting.
DecideRaises ==
  /\ InviteArrives
  /\ uaA' = "trying"
  /\ peer_status' = TrunkReachable
  /\ UNCHANGED <<policy, route, hunt, timers, dispositions, stopped>>

\* The caller sends CANCEL or BYE: uaA ends and raises CCEventDisconnect, which
\* _relay_from_trunk passes to uaO, or back to uaA when nothing was originated.
TrunkHangsUp ==
  /\ uaA \in {"trying", "ringing", "connected"}
  /\ IF uaO = None
     THEN /\ uaA' = TrunkAfter("hungup", "Disconnect")
          /\ UNCHANGED legs
     ELSE /\ uaA' = "hungup"
          /\ legs' = [legs EXCEPT ![uaO] = Released(@)]
  /\ UNCHANGED <<policy, route, uaO, failover_hops, serving_hop, failover_trace,
                 metrics, timers, stopped>>

-----------------------------------------------------------------------------
(* The next-hop side: what the wire makes sippy raise on attempt i.          *)

\* A 100 Trying raises no event; it stops sippy's retransmissions and timer B.
HopTrying(i) ==
  /\ legs[i] = "inviting"
  /\ legs' = [legs EXCEPT ![i] = "proceeding"]
  /\ UNCHANGED <<trunk, uaO, failover_hops, serving_hop, failover_trace,
                 metrics, timers, stopped>>

HopRings(i) ==
  /\ legs[i] \in Early
  /\ RecvEvent("Ring", i, [legs EXCEPT ![i] = "ringing"], timers)

HopAnswers(i) ==
  /\ legs[i] \in Early
  /\ RecvEvent("Connect", i, [legs EXCEPT ![i] = "connected"], timers)

HopRefuses(i) ==
  /\ legs[i] \in Early
  /\ RecvEvent("Fail", i, [legs EXCEPT ![i] = "failed"], timers)

\* A 3xx ends the leg with an event that is no failure: it is relayed, and no hop left
\* is tried.
HopRedirects(i) ==
  /\ legs[i] \in Early
  /\ RecvEvent("Redirect", i, [legs EXCEPT ![i] = "failed"], timers)

\* sippy's own transaction timer (timer B) gives up an INVITE without response.
TransactionTimesOut(i) ==
  /\ legs[i] = "inviting"
  /\ RecvEvent("Fail", i, [legs EXCEPT ![i] = "failed"], timers)

HopHangsUp(i) ==
  /\ legs[i] = "connected"
  /\ RecvEvent("Disconnect", i, [legs EXCEPT ![i] = "disconnected"], timers)

\* "its expiry timer fires after the controller has moved on" (recv_event): a
\* leg that failover replaced raises one last event.
ReplacedLegExpires(i, event) ==
  /\ i # uaO
  /\ legs[i] \in Ended
  /\ RecvEvent(event, i, [legs EXCEPT ![i] = "dead"], timers)

\* sippy drops an ended leg without an event.
LegDies(i) ==
  /\ legs[i] \in Ended
  /\ legs' = [legs EXCEPT ![i] = "dead"]
  /\ UNCHANGED <<trunk, uaO, failover_hops, serving_hop, failover_trace,
                 metrics, timers, stopped>>

-----------------------------------------------------------------------------
(* Timers and stop.                                                          *)

\* Mutant: the check for an answered call is inverted.
NoAnswerFiresOnAnswered ==
  \E t \in timers.armed :
    LET tm == [timers EXCEPT !.armed = @ \ {t}] IN
    /\ \A s \in timers.armed : t <= s
    /\ IF uaO = None \/ uaA # "connected" \/ legs[uaO] = "dead"
       THEN /\ timers' = tm
            /\ UNCHANGED <<trunk, hunt, metrics, stopped>>
       ELSE RecvEvent("Disconnect", uaO, [legs EXCEPT ![uaO] = Released(@)], tm)

\* _on_next_hop_no_answer.  All timers run for the same time, so they fire in
\* the order they were armed.  disconnect() releases the serving leg and raises
\* CCEventDisconnect on it, unless sippy has dropped the leg.
NoAnswerFires ==
  \E t \in timers.armed :
    LET tm == [timers EXCEPT !.armed = @ \ {t}] IN
    /\ \A s \in timers.armed : t <= s
    /\ IF uaO = None \/ uaA = "connected" \/ legs[uaO] = "dead"
       THEN /\ timers' = tm
            /\ UNCHANGED <<trunk, hunt, metrics, stopped>>
       ELSE RecvEvent("Disconnect", uaO, [legs EXCEPT ![uaO] = Released(@)], tm)

\* dispose, when the stack stops.  The transaction manager is shut down with it, so
\* the wire and sippy's transactions raise nothing more; a timer that failover lost
\* (it is armed, and not the one referred to) is still in the event loop.
Dispose ==
  /\ uaA # "none"
  /\ stopped' = TRUE
  /\ timers' = Cancel(timers)
  /\ UNCHANGED <<trunk, hunt, metrics>>

\* _try_failover in a stack that has stopped: the INVITE raises, out of all the calls
\* under way, when the new timer is armed and before it is cancelled.
FailoverRaises(ls, tm) ==
  /\ failover_hops # <<>>
  /\ OriginateTowards(Head(failover_hops), ls,
                      [peer_status EXCEPT ![serving_hop] = "unreachable"])
  /\ failover_hops' = Tail(failover_hops)
  /\ timers' = Arm(tm, Len(ls) + 1)
  /\ UNCHANGED <<trunk, calls_total, dispositions, failover_trace, stopped>>

\* _relay_from_next_hop in a stack that has stopped, with no hop left: the call is
\* counted, and the answer to the trunk raises.
RelayRaises(event, ls, tm) ==
  /\ failover_hops = <<>>
  /\ legs' = ls
  /\ timers' = Cancel(tm)
  /\ dispositions' = Counted(DispositionOf(event))
  /\ UNCHANGED <<trunk, uaO, failover_hops, serving_hop, failover_trace,
                 calls_total, peer_status, stopped>>

\* A timer that outlived dispose fires once the process runs an event loop again, in
\* _on_next_hop_no_answer of the old controller, whose own copy of global_config holds
\* the manager that is shut down ("would otherwise have its timer fire into a
\* transaction manager that has already been shut down", dispose): disconnect() or the
\* answer to the trunk may raise, a new INVITE does.
LateTimerFires ==
  \E t \in timers.armed :
    LET tm == [timers EXCEPT !.armed = @ \ {t}]
        ls == [legs EXCEPT ![uaO] = Released(@)] IN
    /\ \A s \in timers.armed : t <= s
    /\ \/ /\ timers' = tm
          /\ UNCHANGED <<trunk, hunt, metrics, stopped>>
       \/ /\ uaO # None /\ uaA # "connected" /\ legs[uaO] # "dead"
          /\ \/ FailoverRaises(ls, tm)
             \/ failover_hops = <<>> /\ RelayToTrunk("Disconnect", ls, tm)
             \/ RelayRaises("Disconnect", ls, tm)

-----------------------------------------------------------------------------
TrunkStep ==
  \/ \E hops \in HopLists : InviteRelayed(hops)
  \/ \E disposition \in RejectDispositions : InviteRejected(disposition)
  \/ DecideRaises
  \/ TrunkHangsUp

LegStep(i) ==
  \/ HopTrying(i)
  \/ HopRings(i)
  \/ HopAnswers(i)
  \/ HopRefuses(i)
  \/ HopRedirects(i)
  \/ TransactionTimesOut(i)
  \/ HopHangsUp(i)
  \/ \E event \in Terminal : ReplacedLegExpires(i, event)
  \/ LegDies(i)

Running ==
  \/ TrunkStep
  \/ \E i \in DOMAIN legs : LegStep(i)
  \/ NoAnswerFires
  \/ Dispose

Next ==
  \/ ~stopped /\ Running
  \/ stopped /\ LateTimerFires

Spec == Init /\ [][Next]_vars

\* The event loop runs every timer that is due.  Nothing is assumed of the
\* caller, of the next hops, of sippy's transactions or of the stop of the stack.
Fairness == WF_vars(~stopped /\ NoAnswerFires)

FairSpec == Spec /\ Fairness

-----------------------------------------------------------------------------
\* Every variable has its type, and every reference to a leg or a timer is to
\* one that was made: the fields set by BaseCallController.__init__.
TypeOK ==
  /\ uaA \in TrunkStates
  /\ policy \in {"none", "relay", "reject"}
  /\ route \in HopLists \cup {<<>>}
  /\ legs \in Seq(LegStates)
  /\ uaO \in 0..Len(legs)
  /\ failover_hops \in Seq(Hops)
  /\ serving_hop \in Hops \cup {None}
  /\ timers \in [armed : SUBSET (1..Len(legs)), ref : 0..Len(legs)]
  /\ calls_total \in Nat
  /\ dispositions \in [CallDisposition -> Nat]
  /\ peer_status \in [Hops \cup {TrunkPeer} -> PeerStatus]
  /\ failover_trace \in Seq(Hops)
  /\ stopped \in BOOLEAN

\* One outbound leg at a time: when failover moves the call to the next hop, the
\* attempt it leaves is already torn down, whoever ended it (_try_failover).
SingleLiveLeg ==
  \A i \in DOMAIN legs : legs[i] \in Live => i = uaO

\* The hops of the decision are served one by one in the order it names them,
\* and the served leg, the served hop and the hops left to try always agree
\* (_originate_outbound_leg, _try_failover).
HopsTriedInOrder ==
  /\ uaO = Len(legs)
  /\ Len(legs) + Len(failover_hops) = Len(route)
  /\ \A k \in 1..Len(failover_hops) : failover_hops[k] = route[Len(legs) + k]
  /\ uaO # None => serving_hop = route[uaO]

\* While the caller's leg is answered it is bridged to one answered hop: no
\* callback moves an answered call to another hop (_relay_from_next_hop).
BridgedWhileConnected ==
  uaA = "connected" => uaO # None /\ legs[uaO] = "connected"

\* A caller who waits is served by a hop that may still answer, and one that hears
\* nothing by one that has not rung; and an answered caller is bridged: no order of
\* failures, timers and failovers leaves a caller with a leg that is over, as long as
\* the stack runs (_relay_from_next_hop, _on_next_hop_no_answer).
CallerHasItsHop ==
  /\ uaA \in {"trying", "ringing"} /\ legs # <<>> /\ ~stopped => legs[uaO] \in Early
  /\ uaA = "trying" /\ legs # <<>> /\ ~stopped => legs[uaO] \in Unanswered
  /\ BridgedWhileConnected

\* A hop that was failed over is reported unreachable until the call, or a later
\* entry of its list, tries it again; the hop served is reported reachable as long as
\* its leg lives (_try_failover, _originate_towards).  Once that leg is over, what is
\* reported of it is what it was given before its INVITE, whatever became of it.
PeerStatusFollowsHunt ==
  \A i \in DOMAIN legs :
    (\A j \in i + 1 .. Len(legs) : route[j] # route[i]) =>
      /\ i # uaO => peer_status[route[i]] = "unreachable"
      /\ i = uaO /\ legs[i] \in Live => peer_status[route[i]] = "reachable"

FirstHopSilent == uaO = 1 /\ legs[1] \in Unanswered

\* Until a call is failed over its no-answer timer is what it is meant to be: pending as
\* long as the INVITE has no answer, cancelled once the hop rings or answers, and the
\* one the controller holds, so that dispose leaves none behind (_originate_towards,
\* _relay_from_next_hop, dispose).
FirstTimerFollowsHop ==
  Len(legs) <= 1 =>
    /\ timers.armed \subseteq {timers.ref}
    /\ FirstHopSilent /\ ~stopped => timers.armed = {1}
    /\ legs # <<>> /\ legs[1] \in {"ringing", "connected"} => timers.armed = {}

Outcomes ==
  dispositions["completed"] + dispositions["failed"] + dispositions["rejected"]
    + dispositions["no_match"] + dispositions["abandoned"]

\* A call is counted at most once until it is failed over, whatever follows its final
\* response, and at most twice after: by the last of its hops, and by the timer that
\* failover leaves armed (_record_disposition, _cancel_no_answer_timer).
OutcomesBounded ==
  /\ Len(legs) <= 1 => Outcomes <= calls_total
  /\ Outcomes <= 2 * calls_total

\* An event of a leg that failover replaced changes nothing else (recv_event:
\* "relaying it would tear the new leg down").
ReplacedLegIsIgnored ==
  [][\A i \in DOMAIN legs \ {uaO} :
       legs'[i] # legs[i] =>
         UNCHANGED <<trunk, uaO, failover_hops, serving_hop, metrics, timers>>]_vars

\* A no-answer timer that is still pending when the call is answered, be it the
\* timer of a hop that was given up, does nothing (_on_next_hop_no_answer).
AnsweredCallSurvivesTimer ==
  [][uaA = "connected" /\ timers'.armed # timers.armed =>
       UNCHANGED <<trunk, hunt, metrics>>]_vars

\* The first hop is given up when it stays silent: the timer of the AS sees to
\* it, whatever sippy's transaction does (_on_next_hop_no_answer).
FirstHopGivenUp ==
  FirstHopSilent ~> stopped \/ ~FirstHopSilent

\* The caller of a call with a single hop eventually hears of it, if only that
\* the hop did not answer (_relay_from_next_hop).
SingleHopCallerHears ==
  uaA = "trying" /\ Len(route) = 1 ~> stopped \/ uaA # "trying"

Hunt == INSTANCE HopHunt WITH
          caller <- uaA, planned <- Len(route), tried <- Len(legs)

\* The controller implements the hunt of HopHunt: hops one at a time and in
\* order, none after the answer, and a failure or a disconnect of a call that was not
\* answered only when none is left (_relay_from_next_hop: "When no failover hop remains,
\* the failure is relayed").
ImplementsHopHunt == Hunt!Spec

OfStack == INSTANCE StackCall WITH
             arrived <- uaA # "none", tried <- Len(legs),
             held <- timers.ref # None, armed <- timers.armed # {}

\* Whatever becomes of a call, a stack need only know whether one timer is armed and
\* whether the controller refers to it: failover, late timers and dispose never leave
\* a second one, nor one that dispose finds and does not cancel (_originate_towards,
\* _cancel_no_answer_timer, dispose).
ImplementsStackCall == OfStack!Spec

-----------------------------------------------------------------------------
(* What the documentation of the code says and the code does not do: each of *)
(* these is refuted by a run of its own.                                     *)

\* "A controller-owned timer watches for a no-answer condition"
\* (_originate_towards): every attempt that has no answer has its timer pending.
\* Failover cancels the timer of the attempt it has just made.
AttemptIsWatched ==
  uaO # None /\ legs[uaO] \in Unanswered /\ ~stopped => uaO \in timers.armed

\* "The controller-owned no-answer timer fires before any response arrived from
\* the serving hop" (_on_next_hop_no_answer): a hop that rings is not torn down.
\* The timer of the attempt that failed stays armed and fires on its successor.
RingingHopIsNotTimedOut ==
  [][NoAnswerFires /\ uaO # None /\ legs[uaO] = "ringing" => legs' = legs]_vars

\* "Count the final outcome of the call" (_record_disposition): a call has one outcome.
\* The last hop counts its failure, and then the timer that failover lost counts again.
OutcomeCountedOnce == Outcomes <= calls_total

CallerGone == uaA \in {"hungup", "failed", "disconnected", "redirected"}

RelayedCallOver ==
  /\ policy = "relay"
  /\ CallerGone
  /\ \A i \in DOMAIN legs : legs[i] = "dead"
  /\ timers.armed = {}

\* "Count the final outcome of the call" (_record_disposition): a relayed
\* call that is over has been counted.  The hang-up of the caller counts nothing.
FinishedCallIsCounted ==
  RelayedCallOver => Outcomes >= calls_total

=============================================================================
