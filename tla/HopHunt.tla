------------------------------- MODULE HopHunt -------------------------------
(***************************************************************************)
(* What a call controller promises its caller, without legs, timers or     *)
(* counters: the hops the application planned are tried one at a time and  *)
(* in order, none is tried while the call is answered, and a caller who    *)
(* waits is told of a failure, or disconnected, only when there is no hop  *)
(* left to try.                                                            *)
(***************************************************************************)
EXTENDS Naturals

VARIABLES
  caller,   \* what the caller has been told
  planned,  \* how many hops the application named for the call
  tried     \* how many of them the call has been offered to

vars == <<caller, planned, tried>>

Waiting == {"trying", "ringing"}

Init ==
  /\ caller = "none"
  /\ planned = 0
  /\ tried = 0

\* The application plans the call, and it is offered to the first hop.
Offer ==
  /\ caller = "none"
  /\ caller' = "trying"
  /\ planned' \in Nat \ {0}
  /\ tried' = 1

\* The application has no answer for the call, and the caller waits.
Leave ==
  /\ caller = "none"
  /\ caller' = "trying"
  /\ UNCHANGED <<planned, tried>>

\* A caller that hung up, or was sent elsewhere, does not end the hunt.
TryNext ==
  /\ caller \notin {"none", "connected"}
  /\ tried < planned
  /\ tried' = tried + 1
  /\ UNCHANGED <<caller, planned>>

Ring ==
  /\ caller = "trying"
  /\ tried > 0
  /\ caller' = "ringing"
  /\ UNCHANGED <<planned, tried>>

Answer ==
  /\ caller \in Waiting
  /\ tried > 0
  /\ caller' = "connected"
  /\ UNCHANGED <<planned, tried>>

\* The application refuses the call at once, or its last hop has failed.
Fail ==
  /\ caller \in Waiting \cup {"none"}
  /\ tried = planned
  /\ caller' = "failed"
  /\ UNCHANGED <<planned, tried>>

\* A hop sends the caller elsewhere; the rest of the plan may still be tried.
Redirect ==
  /\ caller \in Waiting
  /\ tried > 0
  /\ caller' = "redirected"
  /\ UNCHANGED <<planned, tried>>

\* The call is ended on the caller: by the hop that answered, or for want of a hop.
End ==
  /\ \/ caller = "connected"
     \/ caller \in Waiting /\ tried = planned
  /\ caller' = "disconnected"
  /\ UNCHANGED <<planned, tried>>

HangUp ==
  /\ caller \in Waiting \cup {"connected"}
  /\ caller' = "hungup"
  /\ UNCHANGED <<planned, tried>>

Next ==
  \/ Offer
  \/ Leave
  \/ TryNext
  \/ Ring
  \/ Answer
  \/ Fail
  \/ Redirect
  \/ End
  \/ HangUp

Spec == Init /\ [][Next]_vars
=============================================================================
