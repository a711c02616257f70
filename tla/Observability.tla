----------------------------- MODULE Observability -----------------------------
(***************************************************************************)
(* What the console sees of a running AS: the trace recorder and its feed  *)
(* (TraceFeed) beside the capture of messages (SipCapture).                *)
(*                                                                         *)
(* The thread of sippy writes to both, the API's thread reads both.  A     *)
(* message is written before the callback it causes records an event, but  *)
(* not every message causes one, nor every event a message, and the two    *)
(* stores have locks and bounds of their own: their steps interleave.      *)
(***************************************************************************)
EXTENDS TraceFeed

CONSTANTS Originals, MaxLegs, MaxMessages, MaxWrites

ASSUME CaptureAssumption ==
  MaxMessages \in Nat \ {0} /\ MaxWrites \in Nat /\ MaxLegs \in Nat

VARIABLES wire, messages

Capture == INSTANCE SipCapture

captured == <<wire, messages>>

InitBoth == Init /\ Capture!Init

\* A message is written.
WriteMessage ==
  /\ Capture!Next
  /\ UNCHANGED vars

NextBoth ==
  \/ Next /\ UNCHANGED captured
  \/ WriteMessage

SpecBoth == InitBoth /\ [][NextBoth]_<<vars, captured>>

\* The feed goes on whatever the thread of sippy does.
FairBoth == SpecBoth /\ WF_vars(Feed)

AnswerIsEndOfExchange == Capture!AnswerIsEndOfExchange
=============================================================================
