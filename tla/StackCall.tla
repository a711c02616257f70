------------------------------- MODULE StackCall -------------------------------
(***************************************************************************)
(* What is left of a call for a stack that must clean it up: whether the   *)
(* controller refers to its no-answer timer, and whether that timer is     *)
(* armed.  AsStack has its calls in this form (held, NoAnswer in timers);  *)
(* CallController implements it, with all the legs, hops and timers of a   *)
(* call.  At most one timer is ever armed: that of the first attempt, or,  *)
(* when the stack has stopped, one that a late timer left behind.          *)
(***************************************************************************)
EXTENDS Naturals

VARIABLES
  arrived,  \* the INVITE has arrived
  tried,    \* how many hops the call has been offered to
  held,     \* the controller refers to a timer
  armed,    \* a timer of the call is armed in the loop
  stopped   \* the stack has stopped

vars == <<arrived, tried, held, armed, stopped>>

Init ==
  /\ arrived = FALSE
  /\ tried = 0
  /\ held = FALSE
  /\ armed = FALSE
  /\ stopped = FALSE

\* AsStack: CallRejected
Reject ==
  /\ ~arrived
  /\ arrived' = TRUE
  /\ UNCHANGED <<tried, held, armed, stopped>>

\* AsStack: CallRelayed
Relay ==
  /\ ~arrived
  /\ arrived' = TRUE
  /\ tried' = 1
  /\ held' = TRUE
  /\ armed' = TRUE
  /\ UNCHANGED stopped

\* AsStack: CallSettles
Settle ==
  /\ held
  /\ held' = FALSE
  /\ armed' = FALSE
  /\ UNCHANGED <<arrived, tried, stopped>>

\* AsStack: CallFailsOver.  A timer that is armed stays so, out of reach.
FailOver ==
  /\ tried > 0
  /\ tried' = tried + 1
  /\ held' = FALSE
  /\ UNCHANGED <<arrived, armed, stopped>>

\* AsStack: NoAnswerFires
Fire ==
  /\ armed
  /\ armed' = FALSE
  /\ \/ UNCHANGED <<tried, held>>
     \/ tried' \in {tried, tried + 1} /\ held' = FALSE
  /\ UNCHANGED <<arrived, stopped>>

\* AsStack: Stop.  A timer that is not referred to cannot be cancelled.
Stop ==
  /\ arrived
  /\ stopped' = TRUE
  /\ held' = FALSE
  /\ armed' = (armed /\ ~held)
  /\ UNCHANGED <<arrived, tried>>

\* AsStack: LateTimerFires.  A timer that outlived the stack fires in a later start: it
\* is consumed, or fails the call over and leaves a new one, held and armed.
LateFire ==
  /\ armed
  /\ \/ armed' = FALSE /\ tried' = tried /\ held' \in {held, FALSE}
     \/ armed' = TRUE /\ tried' = tried + 1 /\ held' = TRUE
  /\ UNCHANGED <<arrived, stopped>>

Next ==
  \/ /\ ~stopped
     /\ \/ Reject
        \/ Relay
        \/ Settle
        \/ FailOver
        \/ Fire
        \/ Stop
  \/ stopped /\ LateFire

Spec == Init /\ [][Next]_vars
=============================================================================
