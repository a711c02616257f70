-------------------------- MODULE Observability_proofs --------------------------
(***************************************************************************)
(* Proofs about Observability: the capture, and what the composition keeps *)
(* of its two parts.                                                       *)
(***************************************************************************)
EXTENDS Observability, TraceFeed_proofs

-----------------------------------------------------------------------------
(* The capture.                                                              *)

\* What a message may carry as its Call-ID.
Noted == Capture!CallIDs \cup {Capture!NoCallID}

\* The messages retained are the last ones written, and all of them until the bound is
\* reached.
CaptureInv ==
  /\ wire \in Seq(Noted)
  /\ messages \in Seq(Noted)
  /\ Len(messages) <= Len(wire)
  /\ Len(messages) <= MaxMessages
  /\ Len(messages) < Len(wire) => Len(messages) = MaxMessages
  /\ \A i \in 1..Len(messages) : messages[i] = wire[i + (Len(wire) - Len(messages))]

LEMMA InitCaptureInv ==
  ASSUME Capture!Init
  PROVE  CaptureInv
PROOF
  BY CaptureAssumption DEF Capture!Init, CaptureInv

\* What becomes of the messages when one is written: they all keep their places, or the
\* first one goes and the others move up.
LEMMA WriteAppends ==
  ASSUME CaptureInv, NEW id \in Noted, Capture!Write(id)
  PROVE  LET n == Len(messages)
             m == Len(messages')
         IN /\ wire' \in Seq(Noted) /\ Len(wire') = Len(wire) + 1
            /\ wire'[Len(wire) + 1] = id
            /\ \A j \in 1..Len(wire) : wire'[j] = wire[j]
            /\ messages' \in Seq(Noted)
            /\ messages'[m] = id
            /\ \/ /\ n < MaxMessages /\ m = n + 1
                  /\ \A i \in 1..n : messages'[i] = messages[i]
               \/ /\ n = MaxMessages /\ m = n
                  /\ \A i \in 1..n - 1 : messages'[i] = messages[i + 1]
PROOF
<1> DEFINE n == Len(messages)
           ms == Append(messages, id)
<1>1. /\ n \in Nat /\ n <= MaxMessages /\ MaxMessages \in Nat \ {0}
      /\ wire \in Seq(Noted) /\ messages \in Seq(Noted)
  BY CaptureAssumption DEF CaptureInv
<1>2. /\ ms \in Seq(Noted) /\ Len(ms) = n + 1 /\ ms[n + 1] = id
      /\ \A i \in 1..n : ms[i] = messages[i]
  BY <1>1, AppendProperties
<1>3. /\ wire' \in Seq(Noted) /\ Len(wire') = Len(wire) + 1
      /\ wire'[Len(wire) + 1] = id
      /\ \A j \in 1..Len(wire) : wire'[j] = wire[j]
  <2>1. wire' = Append(wire, id)
    BY DEF Capture!Write
  <2> QED
    BY <1>1, <2>1, AppendProperties
<1>4. messages' = IF Len(ms) > MaxMessages THEN Tail(ms) ELSE ms
  BY DEF Capture!Write
<1> HIDE DEF ms
<1>5. CASE n < MaxMessages
  <2>1. messages' = ms
    BY <1>1, <1>2, <1>4, <1>5
  <2> QED
    BY <1>1, <1>2, <1>3, <1>5, <2>1
<1>6. CASE n = MaxMessages
  <2>1. messages' = Tail(ms)
    BY <1>1, <1>2, <1>4, <1>6
  <2>2. /\ Tail(ms) \in Seq(Noted) /\ Len(Tail(ms)) = n
        /\ \A i \in 1..n : Tail(ms)[i] = ms[i + 1]
    BY <1>1, <1>2, HeadTailProperties
  <2>3. n \in 1..n
    BY <1>1, <1>6
  <2>4. messages'[n] = id
    BY <1>2, <2>1, <2>2, <2>3
  <2>5. ASSUME NEW i \in 1..n - 1 PROVE messages'[i] = messages[i + 1]
    <3>1. i \in 1..n /\ i + 1 \in 1..n
      BY <1>1
    <3> QED
      BY <1>2, <2>1, <2>2, <3>1
  <2> QED
    BY <1>3, <1>6, <2>1, <2>2, <2>4, <2>5
<1> QED
  BY <1>1, <1>5, <1>6

LEMMA WriteCaptureInv ==
  ASSUME CaptureInv, NEW id \in Noted, Capture!Write(id)
  PROVE  CaptureInv'
PROOF
<1> DEFINE n == Len(messages)
           m == Len(messages')
           w == Len(wire)
<1>1. /\ n \in Nat /\ w \in Nat /\ n <= w /\ n <= MaxMessages /\ MaxMessages \in Nat \ {0}
      /\ n < w => n = MaxMessages
      /\ \A i \in 1..n : messages[i] = wire[i + (w - n)]
  BY CaptureAssumption DEF CaptureInv
<1>2. /\ wire' \in Seq(Noted) /\ Len(wire') = w + 1 /\ wire'[w + 1] = id
      /\ \A j \in 1..w : wire'[j] = wire[j]
      /\ messages' \in Seq(Noted) /\ messages'[m] = id
      /\ \/ n < MaxMessages /\ m = n + 1 /\ \A i \in 1..n : messages'[i] = messages[i]
         \/ n = MaxMessages /\ m = n /\ \A i \in 1..n - 1 : messages'[i] = messages[i + 1]
  BY WriteAppends
<1> HIDE DEF m
<1>3. ASSUME NEW i \in 1..m
      PROVE  messages'[i] = wire'[i + ((w + 1) - m)]
  <2>1. CASE i = m
    BY <1>1, <1>2, <2>1
  <2>2. CASE i # m /\ n < MaxMessages /\ m = n + 1
    <3>1. i \in 1..n /\ i + (w - n) \in 1..w /\ i + ((w + 1) - m) = i + (w - n)
      BY <1>1, <2>2
    <3>2. messages'[i] = messages[i]
      BY <1>2, <2>2, <3>1
    <3>3. messages[i] = wire[i + (w - n)]
      BY <1>1, <3>1
    <3>4. wire'[i + (w - n)] = wire[i + (w - n)]
      BY <1>2, <3>1
    <3> QED
      BY <3>1, <3>2, <3>3, <3>4
  <2>3. CASE i # m /\ n = MaxMessages /\ m = n
    <3>1. /\ i \in 1..n - 1 /\ i + 1 \in 1..n /\ (i + 1) + (w - n) \in 1..w
          /\ i + ((w + 1) - m) = (i + 1) + (w - n)
      BY <1>1, <2>3
    <3>2. messages'[i] = messages[i + 1]
      BY <1>2, <2>3, <3>1
    <3>3. messages[i + 1] = wire[(i + 1) + (w - n)]
      BY <1>1, <3>1
    <3>4. wire'[(i + 1) + (w - n)] = wire[(i + 1) + (w - n)]
      BY <1>2, <3>1
    <3> QED
      BY <3>1, <3>2, <3>3, <3>4
  <2> QED
    BY <1>2, <2>1, <2>2, <2>3
<1>4. /\ m <= w + 1 /\ m <= MaxMessages /\ (m < w + 1 => m = MaxMessages)
  BY <1>1, <1>2
<1> QED
  BY <1>2, <1>3, <1>4 DEF CaptureInv, m

LEMMA StepCaptureInv ==
  ASSUME CaptureInv, [Capture!Next]_captured
  PROVE  CaptureInv'
PROOF
<1>1. CASE Capture!Next
  <2>1. PICK id \in Noted : Capture!Write(id)
    BY <1>1 DEF Capture!Next, Noted
  <2> QED
    BY <2>1, WriteCaptureInv
<1>2. CASE UNCHANGED captured
  BY <1>2 DEF captured, CaptureInv
<1> QED
  BY <1>1, <1>2

LEMMA CaptureInvAnswers ==
  ASSUME CaptureInv
  PROVE  Capture!AnswerIsEndOfExchange
PROOF
<1> DEFINE n == Len(messages)
           w == Len(wire)
           dropped == w - n
<1>1. /\ n \in Nat /\ w \in Nat /\ n <= w /\ (n < w => n = MaxMessages)
      /\ DOMAIN messages = 1..n /\ DOMAIN wire = 1..w
      /\ \A i \in 1..n : messages[i] = wire[i + dropped]
  BY DEF CaptureInv
<1>2. ASSUME NEW id \in Capture!CallIDs
      PROVE  LET legs == Capture!LegsOf(id)
                 answer == Capture!MessagesForAny(legs)
             IN /\ {i + dropped : i \in answer} = {j \in DOMAIN wire : j > dropped /\ wire[j] \in legs}
                /\ \A i \in answer : messages[i] = wire[i + dropped]
  <2> DEFINE legs == Capture!LegsOf(id)
             answer == Capture!MessagesForAny(legs)
             later == {j \in DOMAIN wire : j > dropped /\ wire[j] \in legs}
  <2>1. answer = {i \in 1..n : messages[i] \in legs}
    BY <1>1 DEF Capture!MessagesForAny
  <2> HIDE DEF legs, answer
  <2>2. ASSUME NEW i \in answer PROVE i + dropped \in later
    BY <1>1, <2>1
  <2>3. ASSUME NEW j \in later PROVE j - dropped \in answer /\ j = (j - dropped) + dropped
    <3>1. j \in 1..w /\ j > dropped /\ wire[j] \in legs
      BY <1>1
    <3>2. j - dropped \in 1..n /\ j = (j - dropped) + dropped
      BY <1>1, <3>1
    <3> QED
      BY <1>1, <2>1, <3>1, <3>2
  <2>4. {i + dropped : i \in answer} = later
    BY <2>2, <2>3
  <2>5. \A i \in answer : messages[i] = wire[i + dropped]
    BY <1>1, <2>1
  <2> QED
    BY <2>4, <2>5 DEF legs, answer
<1>3. ASSUME dropped # 0 PROVE n = MaxMessages
  <2> HIDE DEF n, w
  <2>1. n < w
    BY <1>1, <1>3
  <2> QED
    BY <1>1, <2>1
<1> QED
  BY <1>2, <1>3 DEF Capture!AnswerIsEndOfExchange

\* The answer to the console is the end of the exchange on the two legs of the call,
\* for any number of calls and messages and any bound of the capture (write,
\* messages_for_any, messages_payload).
THEOREM AnswersAreEnds == Capture!Spec => []Capture!AnswerIsEndOfExchange
PROOF
<1>1. Capture!Init => CaptureInv
  BY InitCaptureInv
<1>2. CaptureInv /\ [Capture!Next]_<<wire, messages>> => CaptureInv'
  BY StepCaptureInv DEF captured
<1>3. CaptureInv => Capture!AnswerIsEndOfExchange
  BY CaptureInvAnswers
<1> QED
  BY <1>1, <1>2, <1>3, PTL DEF Capture!Spec

-----------------------------------------------------------------------------
(* The composition.                                                          *)

\* A step of the composition is a step of one part and leaves the other alone.
LEMMA StepOfParts ==
  ASSUME [NextBoth]_<<vars, captured>>
  PROVE  [Next]_vars /\ [Capture!Next]_captured
PROOF
  BY DEF NextBoth, WriteMessage

\* The trace recorder and its feed behave beside the capture as they do alone, so every
\* theorem about them holds of the composition (main.py hands the sippy thread both).
THEOREM FeedIsUndisturbed == SpecBoth => Spec
PROOF
<1>1. InitBoth => Init
  BY DEF InitBoth
<1>2. [NextBoth]_<<vars, captured>> => [Next]_vars
  BY StepOfParts
<1> QED
  BY <1>1, <1>2, PTL DEF SpecBoth, Spec

\* And the capture as it does alone.
THEOREM CaptureIsUndisturbed == SpecBoth => Capture!Spec
PROOF
<1>1. InitBoth => Capture!Init
  BY DEF InitBoth
<1>2. [NextBoth]_<<vars, captured>> => [Capture!Next]_<<wire, messages>>
  BY StepOfParts DEF captured
<1> QED
  BY <1>1, <1>2, PTL DEF SpecBoth, Capture!Spec

\* In the composition no trace is sent to the console twice and none counts as seen that
\* was not sent, the calls retained are the latest ones, and the console is answered
\* with the end of an exchange.
THEOREM ObservabilityIsSafe ==
  SpecBoth => /\ [](TypeOK /\ PushedOnce /\ LatestAreRetained)
              /\ SeenIsSent
              /\ []AnswerIsEndOfExchange
PROOF
<1>1. SpecBoth => [](TypeOK /\ PushedOnce /\ LatestAreRetained)
  BY FeedIsUndisturbed, FeedTypeCorrect, NoTraceTwice, LatestCallsRetained, PTL
<1>2. SpecBoth => SeenIsSent
  BY FeedIsUndisturbed, SeenCallsAreSent, PTL
<1>3. SpecBoth => []AnswerIsEndOfExchange
  BY CaptureIsUndisturbed, AnswersAreEnds, PTL DEF AnswerIsEndOfExchange
<1> QED
  BY <1>1, <1>2, <1>3, PTL
=============================================================================
