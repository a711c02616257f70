------------------------------- MODULE SipCapture -------------------------------
(***************************************************************************)
(* The capture of SIP messages (SipMessageRecorder, observability/         *)
(* tracing.py) and the answer of the console's messages route, which puts  *)
(* the two legs of a call together again (messages_payload,                *)
(* internal_api.py; outbound_call_id, sip_adapter.py).                     *)
(*                                                                         *)
(* A Call-ID is the identifier its first user agent gave it and the number *)
(* of times an AS has derived an outbound Call-ID from it: a call that     *)
(* comes back to the trunk of the AS that relayed it has the outbound      *)
(* Call-ID of the earlier call as its own.                                 *)
(***************************************************************************)
EXTENDS Naturals, Sequences

CONSTANTS
  Originals,    \* the identifiers user agents gave
  MaxLegs,      \* bound: how often the AS relays a call
  MaxMessages,  \* max_messages: how many messages are retained
  MaxWrites     \* bound: messages written

VARIABLES
  wire,     \* the Call-ID of every message written, in order (history)
  messages  \* self.messages

CallIDs == Originals \X (0..MaxLegs)

\* "-": what the recorder notes for a message without a Call-ID.
NoCallID == <<"-", 0>>

Init ==
  /\ wire = <<>>
  /\ messages = <<>>

-----------------------------------------------------------------------------
\* Mutant: the newest message is dropped.
WriteDropsNewest(id) ==
  /\ Len(wire) < MaxWrites
  /\ wire' = Append(wire, id)
  /\ messages' = IF Len(messages) < MaxMessages THEN Append(messages, id) ELSE messages

\* The logger of the stack writes to the log and to the recorder, which appends the
\* message and drops the oldest ones above the bound.
Write(id) ==
  /\ Len(wire) < MaxWrites
  /\ wire' = Append(wire, id)
  /\ LET ms == Append(messages, id) IN
     messages' = IF Len(ms) > MaxMessages THEN Tail(ms) ELSE ms

OutboundCallID(id) == <<id[1], id[2] + 1>>

\* The Call-IDs of the two legs of the call that has this one on the trunk.
LegsOf(id) == {id, OutboundCallID(id)}

\* messages_for_any, a list that keeps the order of the messages: known by where they
\* are.
MessagesForAny(ids) == {i \in DOMAIN messages : messages[i] \in ids}

Next == \E id \in CallIDs \cup {NoCallID} : Write(id)

Spec == Init /\ [][Next]_<<wire, messages>>

-----------------------------------------------------------------------------
\* What the console is told of a call is the end of what went over the wire on its
\* two legs, in that order: every message of them after the ones dropped and no other,
\* and no message is dropped that is among the last MaxMessages written (write,
\* messages_for_any, messages_payload).
AnswerIsEndOfExchange ==
  LET dropped == Len(wire) - Len(messages) IN
  /\ dropped # 0 => Len(messages) = MaxMessages
  /\ \A id \in CallIDs :
       LET answer == MessagesForAny(LegsOf(id)) IN
       /\ {i + dropped : i \in answer} =
            {j \in DOMAIN wire : j > dropped /\ wire[j] \in LegsOf(id)}
       /\ \A i \in answer : messages[i] = wire[i + dropped]
=============================================================================
