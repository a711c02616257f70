---------------------------- MODULE TraceFeed_proofs ----------------------------
(***************************************************************************)
(* Proofs about TraceFeed.                                                 *)
(***************************************************************************)
EXTENDS TraceFeed, SequenceTheorems, FiniteSetTheorems, TLAPS

\* Nothing follows a trace but what the sequence without it holds (RemoveAt).
LEMMA RemoveAtProperties ==
  ASSUME NEW S, NEW s \in Seq(S), NEW k \in 1..Len(s)
  PROVE  /\ RemoveAt(s, k) \in Seq(S)
         /\ Len(RemoveAt(s, k)) = Len(s) - 1
         /\ \A i \in 1..Len(s) - 1 :
              RemoveAt(s, k)[i] = IF i < k THEN s[i] ELSE s[i + 1]
PROOF
<1> DEFINE u == SubSeq(s, 1, k - 1)
           v == SubSeq(s, k + 1, Len(s))
<1>1. u \in Seq(S) /\ Len(u) = k - 1 /\ \A i \in 1..k - 1 : u[i] = s[i]
  OBVIOUS
<1>2. v \in Seq(S) /\ Len(v) = Len(s) - k /\ \A i \in 1..Len(s) - k : v[i] = s[k + i]
  OBVIOUS
<1>3. RemoveAt(s, k) = u \o v
  BY DEF RemoveAt
<1> HIDE DEF u, v
<1>4. /\ u \o v \in Seq(S) /\ Len(u \o v) = Len(u) + Len(v)
      /\ \A i \in 1..Len(u) + Len(v) : (u \o v)[i] = IF i <= Len(u) THEN u[i] ELSE v[i - Len(u)]
  BY <1>1, <1>2, ConcatProperties
<1> QED
  BY <1>1, <1>2, <1>3, <1>4

-----------------------------------------------------------------------------
(* The recorder: what becomes of the sequence of traces.                     *)

\* The place of a retained call is unique.
LEMMA PlaceIsUnique ==
  ASSUME TypeOK, NEW c \in Ids(traces)
  PROVE  /\ Place(c) \in 1..Len(traces) /\ traces[Place(c)].id = c
         /\ \A j \in 1..Len(traces) : traces[j].id = c => j = Place(c)
PROOF
<1>1. PICK i \in DOMAIN traces : traces[i].id = c
  BY DEF Ids
<1>2. Place(c) \in DOMAIN traces /\ traces[Place(c)].id = c
  BY <1>1 DEF Place
<1> QED
  BY <1>2 DEF TypeOK

\* How traces' comes from traces when c is recorded: the trace at k is taken out, if
\* there is one, and the trace of c is put at the end.
Shifted(c, k) ==
  LET n == Len(traces) IN
  /\ k \in 1..n + 1
  /\ traces' \in Seq(Traces)
  /\ Len(traces') = IF k <= n THEN n ELSE n + 1
  /\ \A i \in 1..Len(traces') - 1 : traces'[i] = IF i < k THEN traces[i] ELSE traces[i + 1]
  /\ traces'[Len(traces')] = TraceOf(c)
  /\ \A j \in 1..n : traces[j].id = c => j = k
  /\ k <= n => traces[k].id = c \/ (k = 1 /\ n = MaxCalls)
  /\ k = n + 1 => n < MaxCalls

\* The trace of a call is the retained one or a new one.
LEMMA TraceOfCall ==
  ASSUME TypeOK, NEW c \in CallIds, Len(log) < MaxRecords
  PROVE  /\ TraceOf(c) \in Traces
         /\ TraceOf(c).id = c
         /\ c \in Ids(traces) => TraceOf(c) = traces[Place(c)]
         /\ c \notin Ids(traces) => TraceOf(c).born = Len(log) + 1
PROOF
<1>1. Len(log) \in Nat /\ Len(log) + 1 \in 1..MaxRecords
  BY FeedAssumption DEF TypeOK
<1>2. CASE c \in Ids(traces)
  <2>1. traces[Place(c)] \in Traces /\ traces[Place(c)].id = c
    BY <1>2, PlaceIsUnique DEF TypeOK
  <2> QED
    BY <1>2, <2>1 DEF TraceOf
<1>3. CASE c \notin Ids(traces)
  <2>1. TraceOf(c) = [id |-> c, born |-> Len(log) + 1]
    BY <1>3 DEF TraceOf
  <2> QED
    BY <1>1, <1>3, <2>1 DEF Traces
<1> QED
  BY <1>2, <1>3

LEMMA RecordShifts ==
  ASSUME TypeOK, NEW c \in CallIds, Record(c)
  PROVE  \E k \in 1..Len(traces) + 1 : Shifted(c, k)
PROOF
<1> DEFINE n == Len(traces)
           ts == Append(Others(c), TraceOf(c))
<1>1. traces \in Seq(Traces) /\ n \in Nat /\ n <= MaxCalls /\ MaxCalls \in Nat \ {0}
  BY FeedAssumption DEF TypeOK
<1>2. TraceOf(c) \in Traces
  BY TraceOfCall DEF Record
<1>3. traces' = IF Len(ts) > MaxCalls THEN Tail(ts) ELSE ts
  BY DEF Record
<1>4. CASE c \in Ids(traces)
  <2> DEFINE k == Place(c)
             rest == RemoveAt(traces, k)
  <2>1. /\ k \in 1..n /\ traces[k].id = c
        /\ \A j \in 1..n : traces[j].id = c => j = k
    BY <1>4, PlaceIsUnique
  <2>2. /\ rest \in Seq(Traces) /\ Len(rest) = n - 1
        /\ \A i \in 1..n - 1 : rest[i] = IF i < k THEN traces[i] ELSE traces[i + 1]
    BY <1>1, <2>1, RemoveAtProperties
  <2>3. ts = Append(rest, TraceOf(c))
    BY <1>4 DEF Others
  <2> HIDE DEF k, rest
  <2>4. /\ ts \in Seq(Traces) /\ Len(ts) = n /\ ts[n] = TraceOf(c)
        /\ \A i \in 1..n - 1 : ts[i] = rest[i]
    BY <1>1, <1>2, <2>1, <2>2, <2>3, AppendProperties
  <2>5. traces' = ts
    BY <1>1, <1>3, <2>4
  <2> HIDE DEF ts
  <2>6. Shifted(c, k)
    BY <1>1, <2>1, <2>2, <2>4, <2>5 DEF Shifted
  <2> QED
    BY <2>1, <2>6
<1>5. CASE c \notin Ids(traces)
  <2>1. \A j \in 1..n : traces[j].id # c
    BY <1>1, <1>5 DEF Ids
  <2>2. ts = Append(traces, TraceOf(c))
    BY <1>5 DEF Others
  <2>3. /\ ts \in Seq(Traces) /\ Len(ts) = n + 1 /\ ts[n + 1] = TraceOf(c)
        /\ \A i \in 1..n : ts[i] = traces[i]
    BY <1>1, <1>2, <2>2, AppendProperties
  <2> HIDE DEF ts
  <2>4. CASE n < MaxCalls
    <3>1. traces' = ts
      BY <1>1, <1>3, <2>3, <2>4
    <3>2. Shifted(c, n + 1)
      BY <1>1, <2>1, <2>3, <2>4, <3>1 DEF Shifted
    <3> QED
      BY <1>1, <3>2
  <2>5. CASE n = MaxCalls
    <3>1. traces' = Tail(ts)
      BY <1>1, <1>3, <2>3, <2>5
    <3>2. /\ Tail(ts) \in Seq(Traces) /\ Len(Tail(ts)) = n
          /\ \A i \in 1..n : Tail(ts)[i] = ts[i + 1]
      BY <1>1, <2>3, HeadTailProperties
    <3>3. Shifted(c, 1)
      BY <1>1, <2>1, <2>3, <2>5, <3>1, <3>2 DEF Shifted
    <3> QED
      BY <1>1, <3>3
  <2> QED
    BY <1>1, <2>4, <2>5
<1> QED
  BY <1>4, <1>5

\* The calls retained after an event: the same ones and c, but for the oldest when
\* there was no room.
LEMMA RetainedAfter ==
  ASSUME TypeOK, NEW c \in CallIds, NEW k, Shifted(c, k), Len(log) < MaxRecords
  PROVE  Ids(traces)' = {c} \cup {traces[i].id : i \in (1..Len(traces)) \ {k}}
PROOF
<1> DEFINE n == Len(traces)
           m == Len(traces')
           kept == {traces[i].id : i \in (1..n) \ {k}}
<1>1. /\ n \in Nat /\ k \in 1..n + 1 /\ m = IF k <= n THEN n ELSE n + 1
      /\ \A i \in 1..m - 1 : traces'[i] = IF i < k THEN traces[i] ELSE traces[i + 1]
      /\ traces'[m].id = c
      /\ DOMAIN traces' = 1..m
  BY TraceOfCall DEF Shifted, TypeOK
<1>2. Ids(traces)' = {traces'[i].id : i \in 1..m}
  BY <1>1 DEF Ids
<1>3. ASSUME NEW i \in 1..m PROVE traces'[i].id \in {c} \cup kept
  <2>1. CASE i = m
    BY <1>1, <2>1
  <2>2. CASE i < k /\ i # m
    <3>1. i \in (1..n) \ {k} /\ traces'[i] = traces[i]
      BY <1>1, <2>2
    <3> QED
      BY <3>1
  <2>3. CASE ~(i < k) /\ i # m
    <3>1. i + 1 \in (1..n) \ {k} /\ traces'[i] = traces[i + 1]
      BY <1>1, <2>3
    <3> QED
      BY <3>1
  <2> QED
    BY <2>1, <2>2, <2>3
<1>4. ASSUME NEW i \in (1..n) \ {k} PROVE \E j \in 1..m : traces[i].id = traces'[j].id
  <2>1. CASE i < k
    <3>1. i \in 1..m - 1 /\ traces'[i] = traces[i]
      BY <1>1, <2>1
    <3> QED
      BY <1>1, <3>1
  <2>2. CASE i > k
    <3>1. i - 1 \in 1..m - 1 /\ ~(i - 1 < k) /\ (i - 1) + 1 = i
      BY <1>1, <2>2
    <3>2. traces'[i - 1] = traces[i]
      BY <1>1, <3>1
    <3> QED
      BY <1>1, <3>1, <3>2
  <2> QED
    BY <1>1, <2>1, <2>2
<1>5. c \in Ids(traces)'
  <2>1. m \in 1..m /\ traces'[m].id = c
    BY <1>1
  <2> QED
    BY <1>2, <2>1
<1>6. {c} \cup kept \subseteq Ids(traces)'
  BY <1>2, <1>4, <1>5
<1>7. Ids(traces)' \subseteq {c} \cup kept
  BY <1>2, <1>3
<1> QED
  BY <1>6, <1>7

\* No two traces are of one call.
LEMMA IdsStayUnique ==
  ASSUME TypeOK, NEW c \in CallIds, NEW k, Shifted(c, k), Len(log) < MaxRecords
  PROVE  /\ Len(traces') \in Nat \ {0} /\ Len(traces') <= MaxCalls
         /\ \A i, j \in DOMAIN traces' : traces'[i].id = traces'[j].id => i = j
PROOF
<1> DEFINE n == Len(traces)
           m == Len(traces')
<1>1. /\ n \in Nat /\ n <= MaxCalls /\ k \in 1..n + 1
      /\ m = IF k <= n THEN n ELSE n + 1
      /\ \A i \in 1..m - 1 : traces'[i] = IF i < k THEN traces[i] ELSE traces[i + 1]
      /\ traces'[m].id = c
      /\ \A j \in 1..n : traces[j].id = c => j = k
      /\ k = n + 1 => n < MaxCalls
      /\ DOMAIN traces' = 1..m
      /\ \A i, j \in 1..n : traces[i].id = traces[j].id => i = j
  BY TraceOfCall DEF Shifted, TypeOK
<1>2. m \in Nat \ {0} /\ m <= MaxCalls
  BY <1>1, FeedAssumption
<1>3. ASSUME NEW i \in 1..m - 1 PROVE traces'[i].id # c
  BY <1>1
<1>4. ASSUME NEW i \in 1..m - 1, NEW j \in 1..m - 1, traces'[i].id = traces'[j].id
      PROVE  i = j
  <2> DEFINE p == IF i < k THEN i ELSE i + 1
             q == IF j < k THEN j ELSE j + 1
  <2>1. p \in 1..n /\ q \in 1..n /\ traces'[i] = traces[p] /\ traces'[j] = traces[q]
    BY <1>1
  <2>2. p = q
    BY <1>1, <1>4, <2>1
  <2> QED
    BY <1>1, <2>2
<1> QED
  BY <1>1, <1>2, <1>3, <1>4

-----------------------------------------------------------------------------
(* Type correctness.                                                         *)

LEMMA InitTypeOK ==
  ASSUME Init
  PROVE  TypeOK
PROOF
  BY FeedAssumption DEF Init, TypeOK

LEMMA RetainedIds ==
  ASSUME TypeOK
  PROVE  /\ Ids(traces) \subseteq CallIds
         /\ \A limit : Recent(limit) \subseteq Traces
PROOF
<1>1. \A i \in DOMAIN traces : traces[i] \in Traces
  BY DEF TypeOK
<1>2. \A t \in Traces : t.id \in CallIds
  BY DEF Traces
<1>3. Ids(traces) \subseteq CallIds
  BY <1>1, <1>2 DEF Ids
<1>4. ASSUME NEW limit PROVE Recent(limit) \subseteq Traces
  BY <1>1 DEF Recent
<1> QED
  BY <1>3, <1>4

LEMMA StepTypeOK ==
  ASSUME TypeOK, [Next]_vars
  PROVE  TypeOK'
PROOF
<1>1. ASSUME NEW c \in CallIds, Record(c) PROVE TypeOK'
  <2>1. PICK k \in 1..Len(traces) + 1 : Shifted(c, k)
    BY <1>1, RecordShifts
  <2>2. traces' \in Seq(Traces)
    BY <2>1 DEF Shifted
  <2>3. /\ Len(traces') <= MaxCalls
        /\ \A i, j \in DOMAIN traces' : traces'[i].id = traces'[j].id => i = j
    <3>1. Len(log) < MaxRecords
      BY <1>1 DEF Record
    <3> QED
      BY <2>1, <3>1, IdsStayUnique
  <2>4. log' \in Seq(CallIds) /\ Len(log') <= MaxRecords
    BY <1>1, FeedAssumption DEF Record, TypeOK
  <2> QED
    BY <1>1, <2>2, <2>3, <2>4 DEF Record, TypeOK
<1>2. CASE Accept
  BY <1>2, RetainedIds DEF Accept, TypeOK
<1>3. CASE PollKnown
  BY <1>3, RetainedIds DEF PollKnown, TypeOK
<1>4. CASE ReadRecent
  BY <1>4, RetainedIds, FeedAssumption DEF ReadRecent, TypeOK
<1>5. CASE Send
  BY <1>5 DEF Send, TypeOK
<1>6. CASE Disconnect
  BY <1>6 DEF Disconnect, TypeOK
<1>7. CASE UNCHANGED vars
  BY <1>7 DEF vars, TypeOK
<1> QED
  BY <1>1, <1>2, <1>3, <1>4, <1>5, <1>6, <1>7 DEF Next, Feed

\* The recorder never keeps more than max_calls traces, and never two of a call.
THEOREM FeedTypeCorrect == Spec => []TypeOK
PROOF
<1>1. Init => TypeOK
  BY InitTypeOK
<1>2. TypeOK /\ [Next]_vars => TypeOK'
  BY StepTypeOK
<1> QED
  BY <1>1, <1>2, PTL DEF Spec

-----------------------------------------------------------------------------
(* No trace is sent twice.                                                   *)

Retained == {traces[i] : i \in DOMAIN traces}

\* A trace that was sent is of a call that stays seen as long as the trace is
\* retained: by the set of seen calls, and by the one that is about to replace it.
\* A trace that starts anew under the same Call-ID is another one, as it starts with
\* a later event.
PushInv ==
  /\ \A t \in pushed \cup feed.batch \cup Retained : t.born <= Len(log)
  /\ feed.pc = "closed" => pushed = {}
  /\ feed.pc \in {"reading", "sending"} =>
       \A t \in pushed \cap Retained : t.id \in feed.current
  /\ feed.pc # "gone" => \A t \in pushed \cap Retained : t.id \in feed.seen
  /\ feed.pc = "sending" => \A t \in feed.batch : t.id \in feed.current
  /\ PushedOnce

LEMMA InitPushInv ==
  ASSUME Init
  PROVE  PushInv
PROOF
  BY DEF Init, PushInv, PushedOnce, Retained

\* What an event adds to the traces is the trace of its call, which is new or was there.
LEMMA RetainedGrows ==
  ASSUME TypeOK, NEW c \in CallIds, Record(c)
  PROVE  \A t \in Retained' : t \in Retained \/ t.born = Len(log) + 1
PROOF
<1> DEFINE n == Len(traces)
<1>1. PICK k \in 1..n + 1 : Shifted(c, k)
  BY RecordShifts
<1>2. Len(log) < MaxRecords
  BY DEF Record
<1>3. TraceOf(c) \in Retained \/ TraceOf(c).born = Len(log) + 1
  <2>1. CASE c \in Ids(traces)
    BY <1>2, <2>1, TraceOfCall, PlaceIsUnique DEF Retained, TypeOK
  <2>2. CASE c \notin Ids(traces)
    BY <1>2, <2>2, TraceOfCall
  <2> QED
    BY <2>1, <2>2
<1>4. n \in Nat /\ DOMAIN traces = 1..n
  BY DEF TypeOK
<1>5. Len(traces') \in Nat /\ DOMAIN traces' = 1..Len(traces')
  BY <1>1 DEF Shifted
<1>6. ASSUME NEW i \in 1..Len(traces')
      PROVE  traces'[i] \in Retained \/ traces'[i].born = Len(log) + 1
  <2>1. CASE i = Len(traces')
    BY <1>1, <1>3, <2>1 DEF Shifted
  <2>2. CASE i # Len(traces')
    <3>1. i \in 1..Len(traces') - 1
      <4>1. \A m \in Nat : \A j \in 1..m : j # m => j \in 1..m - 1
        OBVIOUS
      <4> QED
        BY <1>5, <2>2, <4>1
    <3>2. PICK j \in 1..n : traces'[i] = traces[j]
      <4>1. CASE i < k
        BY <1>1, <1>4, <3>1, <4>1 DEF Shifted
      <4>2. CASE ~(i < k)
        <5>1. i + 1 \in 1..n /\ traces'[i] = traces[i + 1]
          BY <1>1, <1>4, <3>1, <4>2 DEF Shifted
        <5> QED
          BY <5>1
      <4> QED
        BY <4>1, <4>2
    <3> QED
      BY <1>4, <3>2 DEF Retained
  <2> QED
    BY <2>1, <2>2
<1> QED
  BY <1>5, <1>6 DEF Retained

LEMMA StepPushInv ==
  ASSUME TypeOK, PushInv, [Next]_vars
  PROVE  PushInv'
PROOF
<1>1. ASSUME NEW c \in CallIds, Record(c) PROVE PushInv'
  <2>1. /\ Len(log) \in Nat /\ Len(log') = Len(log) + 1
        /\ UNCHANGED <<feed, pushed>>
    BY <1>1 DEF Record, TypeOK
  <2>2. \A t \in Retained' : t \in Retained \/ t.born = Len(log) + 1
    BY <1>1, RetainedGrows
  <2>3. \A t \in pushed \cup feed.batch \cup Retained : t.born \in Nat /\ t.born <= Len(log)
    <3>1. pushed \cup feed.batch \cup Retained \subseteq Traces
      BY DEF TypeOK, Retained
    <3> QED
      BY <3>1 DEF PushInv, Traces
  <2>4. pushed \cap Retained' \subseteq Retained
    BY <2>1, <2>2, <2>3
  <2>5. \A t \in pushed' \cup feed'.batch \cup Retained' : t.born <= Len(log')
    BY <2>1, <2>2, <2>3
  <2>6. PushedOnce'
    BY <2>1 DEF PushInv, PushedOnce
  <2> QED
    BY <2>1, <2>4, <2>5, <2>6 DEF PushInv
<1>2. CASE Accept
  <2>1. Retained' = Retained /\ Len(log') = Len(log)
    BY <1>2 DEF Accept, Retained
  <2> QED
    BY <1>2, <2>1 DEF Accept, PushInv, PushedOnce, TypeOK
<1>3. CASE PollKnown
  <2>1. Retained' = Retained /\ Len(log') = Len(log)
    BY <1>3 DEF PollKnown, Retained
  <2>2. \A t \in Retained : t.id \in Ids(traces)
    BY DEF Retained, Ids
  <2> QED
    BY <1>3, <2>1, <2>2 DEF PollKnown, PushInv, PushedOnce, TypeOK
<1>4. CASE ReadRecent
  <2>1. Retained' = Retained /\ Len(log') = Len(log)
    BY <1>4 DEF ReadRecent, Retained
  <2>2. Recent(MaxTraces) \subseteq Retained
    BY DEF Recent, Retained
  <2>3. /\ feed'.pc = "sending" /\ feed'.seen = feed.seen /\ feed'.current = feed.current
        /\ feed'.batch \subseteq Retained
        /\ \A t \in feed'.batch : t.id \in feed.current \ feed.seen
        /\ pushed' = pushed
    BY <1>4, <2>2 DEF ReadRecent, TypeOK
  <2>4. feed'.batch \cap pushed = {}
    BY <1>4, <2>3 DEF ReadRecent, PushInv
  <2> QED
    BY <1>4, <2>1, <2>3, <2>4 DEF ReadRecent, PushInv, PushedOnce
<1>5. CASE Send
  <2>1. Retained' = Retained /\ Len(log') = Len(log)
    BY <1>5 DEF Send, Retained
  <2> QED
    BY <1>5, <2>1 DEF Send, PushInv, PushedOnce, TypeOK
<1>6. CASE Disconnect
  <2>1. Retained' = Retained /\ Len(log') = Len(log)
    BY <1>6 DEF Disconnect, Retained
  <2> QED
    BY <1>6, <2>1 DEF Disconnect, PushInv, PushedOnce, TypeOK
<1>7. CASE UNCHANGED vars
  BY <1>7 DEF vars, PushInv, PushedOnce, Retained
<1> QED
  BY <1>1, <1>2, <1>3, <1>4, <1>5, <1>6, <1>7 DEF Next, Feed

\* However events come between the two reads of a poll, and however often a Call-ID is
\* dropped and used again, the console is sent no trace twice.
THEOREM NoTraceTwice == Spec => []PushedOnce
PROOF
<1>1. Init => TypeOK /\ PushInv
  BY InitTypeOK, InitPushInv
<1>2. TypeOK /\ PushInv /\ [Next]_vars => (TypeOK /\ PushInv)'
  BY StepTypeOK, StepPushInv
<1>3. PushInv => PushedOnce
  BY DEF PushInv
<1> QED
  BY <1>1, <1>2, <1>3, PTL DEF Spec

-----------------------------------------------------------------------------
(* The calls retained are the latest ones.                                   *)

\* A call that has an event has a last one.
LogInv ==
  \A c \in ToSet(log) :
    \E i \in DOMAIN log : log[i] = c /\ \A j \in DOMAIN log : log[j] = c => j <= i

\* The traces are in the order of their last events, and a call that is not retained
\* was dropped from a full recorder, before the last event of any retained call.
RetainInv ==
  /\ Ids(traces) \subseteq ToSet(log)
  /\ \A i, j \in DOMAIN traces :
       i < j => LastIn(log, traces[i].id) < LastIn(log, traces[j].id)
  /\ \A c \in ToSet(log) \ Ids(traces) :
       /\ Len(traces) = MaxCalls
       /\ \A i \in DOMAIN traces : LastIn(log, c) < LastIn(log, traces[i].id)

LEMMA LastEventIs ==
  ASSUME TypeOK, LogInv, NEW c
  PROVE  /\ c \notin ToSet(log) => LastIn(log, c) = 0
         /\ c \in ToSet(log) =>
              /\ LastIn(log, c) \in 1..Len(log)
              /\ log[LastIn(log, c)] = c
              /\ \A j \in 1..Len(log) : log[j] = c => j <= LastIn(log, c)
PROOF
<1> DEFINE events == {i \in DOMAIN log : log[i] = c}
<1>1. DOMAIN log = 1..Len(log)
  BY DEF TypeOK
<1>2. LastIn(log, c) = IF events = {} THEN 0 ELSE CHOOSE i \in events : \A j \in events : j <= i
  BY DEF LastIn
<1>3. CASE c \notin ToSet(log)
  BY <1>2, <1>3 DEF ToSet
<1>4. CASE c \in ToSet(log)
  <2>1. \E i \in events : \A j \in events : j <= i
    BY <1>4 DEF LogInv
  <2>2. LastIn(log, c) = CHOOSE i \in events : \A j \in events : j <= i
    BY <1>2, <2>1
  <2>3. LastIn(log, c) \in events /\ \A j \in events : j <= LastIn(log, c)
    BY <2>1, <2>2
  <2> QED
    BY <1>1, <1>4, <2>3
<1> QED
  BY <1>3, <1>4

\* An event makes its call the latest one, and leaves the others as they were.
LEMMA LastEventAfter ==
  ASSUME TypeOK, LogInv, NEW c \in CallIds, Record(c)
  PROVE  /\ LogInv'
         /\ ToSet(log)' = ToSet(log) \cup {c}
         /\ LastIn(log', c) = Len(log) + 1
         /\ \A d : d # c => LastIn(log', d) = LastIn(log, d)
PROOF
<1> DEFINE n == Len(log)
<1>1. /\ n \in Nat /\ DOMAIN log = 1..n /\ log' \in Seq(CallIds) /\ Len(log') = n + 1
      /\ DOMAIN log' = 1..n + 1 /\ log'[n + 1] = c
      /\ \A i \in 1..n : log'[i] = log[i]
  BY DEF TypeOK, Record
<1>2. ToSet(log)' = ToSet(log) \cup {c}
  <2>1. ToSet(log) = {log[i] : i \in 1..n} /\ ToSet(log)' = {log'[i] : i \in 1..n + 1}
    BY <1>1 DEF ToSet
  <2>2. \A i \in 1..n + 1 : i \in 1..n \/ i = n + 1
    BY <1>1
  <2>3. \A i \in 1..n : i \in 1..n + 1
    BY <1>1
  <2>4. n + 1 \in 1..n + 1
    BY <1>1
  <2> QED
    BY <1>1, <2>1, <2>2, <2>3, <2>4
<1>3. LastIn(log', c) = n + 1
  <2> DEFINE after == {i \in DOMAIN log' : log'[i] = c}
  <2>1. n + 1 \in after /\ \A j \in after : j \in Nat /\ j <= n + 1
    BY <1>1
  <2>2. LastIn(log', c) = IF after = {} THEN 0 ELSE CHOOSE i \in after : \A j \in after : j <= i
    BY DEF LastIn
  <2> HIDE DEF after
  <2>3. \A i \in after : (\A j \in after : j <= i) => i = n + 1
    BY <1>1, <2>1
  <2>4. (CHOOSE i \in after : \A j \in after : j <= i) = n + 1
    BY <2>1, <2>3
  <2> QED
    BY <2>1, <2>2, <2>4
<1>4. ASSUME NEW d, d # c PROVE LastIn(log', d) = LastIn(log, d)
  <2>1. {i \in DOMAIN log' : log'[i] = d} = {i \in DOMAIN log : log[i] = d}
    BY <1>1, <1>4
  <2> DEFINE Latest(es) == IF es = {} THEN 0 ELSE CHOOSE i \in es : \A j \in es : j <= i
  <2>2. /\ LastIn(log, d) = Latest({i \in DOMAIN log : log[i] = d})
        /\ LastIn(log', d) = Latest({i \in DOMAIN log' : log'[i] = d})
    BY DEF LastIn
  <2> HIDE DEF Latest
  <2> QED
    BY <2>1, <2>2
<1>5. LogInv'
  <2>1. ASSUME NEW d \in ToSet(log) \cup {c}
        PROVE  \E i \in DOMAIN log' : log'[i] = d /\ \A j \in DOMAIN log' : log'[j] = d => j <= i
    <3>1. CASE d = c
      <4>1. n + 1 \in DOMAIN log' /\ log'[n + 1] = d /\ \A j \in DOMAIN log' : j <= n + 1
        BY <1>1, <3>1
      <4> QED
        BY <4>1
    <3>2. CASE d # c
      <4>1. PICK i \in 1..n : log[i] = d /\ \A j \in 1..n : log[j] = d => j <= i
        BY <1>1, <2>1, <3>2 DEF LogInv
      <4>2. i \in DOMAIN log' /\ log'[i] = d
        BY <1>1, <4>1
      <4>3. \A j \in DOMAIN log' : log'[j] = d => j <= i
        BY <1>1, <3>2, <4>1
      <4> QED
        BY <4>2, <4>3
    <3> QED
      BY <3>1, <3>2
  <2> QED
    BY <1>2, <2>1 DEF LogInv
<1> QED
  BY <1>2, <1>3, <1>4, <1>5

LEMMA InitRetainInv ==
  ASSUME Init
  PROVE  LogInv /\ RetainInv
PROOF
  BY DEF Init, LogInv, RetainInv, Ids, ToSet

LEMMA RecordRetainInv ==
  ASSUME TypeOK, LogInv, RetainInv, NEW c \in CallIds, Record(c)
  PROVE  RetainInv'
PROOF
<1> DEFINE n == Len(traces)
           m == Len(traces')
           last == Len(log)
           Src(i, k) == IF i < k THEN i ELSE i + 1
<1>1. PICK k \in 1..n + 1 : Shifted(c, k)
  BY RecordShifts
<1>2. last < MaxRecords /\ last \in Nat
  BY DEF Record, TypeOK
<1>3. Ids(traces)' = {c} \cup {traces[i].id : i \in (1..n) \ {k}}
  BY <1>1, <1>2, RetainedAfter
<1>4. /\ ToSet(log)' = ToSet(log) \cup {c}
      /\ LastIn(log', c) = last + 1
      /\ \A d : d # c => LastIn(log', d) = LastIn(log, d)
  BY LastEventAfter
<1>5. \A d \in ToSet(log) : LastIn(log, d) \in 1..last
  BY LastEventIs
<1>6. /\ n \in Nat /\ DOMAIN traces = 1..n /\ m \in Nat \ {0} /\ DOMAIN traces' = 1..m
      /\ m = IF k <= n THEN n ELSE n + 1
      /\ \A i \in 1..n : traces[i].id \in ToSet(log) /\ (traces[i].id = c => i = k)
  <2>1. n \in Nat /\ DOMAIN traces = 1..n
    BY DEF TypeOK
  <2>2. m = (IF k <= n THEN n ELSE n + 1) /\ DOMAIN traces' = 1..m
    BY <1>1 DEF Shifted
  <2>3. \A i \in 1..n : traces[i].id \in ToSet(log)
    BY <2>1 DEF RetainInv, Ids
  <2> QED
    BY <1>1, <2>1, <2>2, <2>3 DEF Shifted
<1>7. traces'[m].id = c
  BY <1>1, <1>2, TraceOfCall DEF Shifted
<1>8. \A i \in 1..m : i = m \/ i \in 1..m - 1
  <2>1. \A q \in Nat : \A i \in 1..q : i = q \/ i \in 1..q - 1
    OBVIOUS
  <2> QED
    BY <1>6, <2>1
<1>9. ASSUME NEW i \in 1..m - 1
      PROVE  /\ Src(i, k) \in (1..n) \ {k} /\ traces'[i] = traces[Src(i, k)]
             /\ LastIn(log', traces'[i].id) = LastIn(log, traces[Src(i, k)].id)
             /\ LastIn(log, traces[Src(i, k)].id) \in 1..last
  <2>1. Src(i, k) \in (1..n) \ {k}
    BY <1>6
  <2>2. traces'[i] = traces[Src(i, k)]
    BY <1>1 DEF Shifted
  <2>3. traces[Src(i, k)].id # c /\ traces[Src(i, k)].id \in ToSet(log)
    BY <1>6, <2>1
  <2> HIDE DEF Src
  <2> QED
    BY <1>4, <1>5, <2>1, <2>2, <2>3
<1>10. Ids(traces)' \subseteq ToSet(log)'
  BY <1>3, <1>4, <1>6
<1>11. ASSUME NEW i \in 1..m, NEW j \in 1..m, i < j
       PROVE  LastIn(log', traces'[i].id) < LastIn(log', traces'[j].id)
  <2>1. i \in 1..m - 1
    BY <1>6, <1>11
  <2>2. CASE j = m
    BY <1>2, <1>4, <1>7, <1>9, <2>1, <2>2
  <2>3. CASE j # m
    <3>1. j \in 1..m - 1
      BY <1>8, <2>3
    <3>2. Src(i, k) < Src(j, k)
      BY <1>11, <2>1, <3>1
    <3>3. Src(i, k) \in 1..n /\ Src(j, k) \in 1..n
      BY <1>9, <2>1, <3>1
    <3> HIDE DEF Src
    <3>4. LastIn(log, traces[Src(i, k)].id) < LastIn(log, traces[Src(j, k)].id)
      BY <1>6, <3>2, <3>3 DEF RetainInv
    <3> QED
      BY <1>9, <2>1, <3>1, <3>4
  <2> QED
    BY <2>2, <2>3
<1>12. ASSUME NEW d \in ToSet(log) \cup {c}, d \notin Ids(traces)'
       PROVE  /\ m = MaxCalls
              /\ \A i \in 1..m : LastIn(log', d) < LastIn(log', traces'[i].id)
  <2>1. d # c /\ d \in ToSet(log) /\ LastIn(log', d) = LastIn(log, d) /\ LastIn(log, d) \in 1..last
    BY <1>3, <1>4, <1>5, <1>12
  <2>2. LastIn(log', d) < LastIn(log', traces'[m].id)
    BY <1>2, <1>4, <1>7, <2>1
  <2>3. CASE d \notin Ids(traces)
    <3>1. n = MaxCalls /\ \A i \in 1..n : LastIn(log, d) < LastIn(log, traces[i].id)
      BY <1>6, <2>1, <2>3 DEF RetainInv
    <3>2. m = MaxCalls
      BY <1>1, <1>6, <3>1 DEF Shifted
    <3>3. \A i \in 1..m - 1 : LastIn(log', d) < LastIn(log', traces'[i].id)
      BY <1>9, <2>1, <3>1
    <3> QED
      BY <1>8, <2>2, <3>2, <3>3
  <2>4. CASE d \in Ids(traces)
    <3>1. k \in 1..n /\ d = traces[k].id
      BY <1>3, <1>6, <1>12, <2>4 DEF Ids
    <3>2. k = 1 /\ n = MaxCalls /\ m = n
      BY <1>1, <1>6, <2>1, <3>1 DEF Shifted
    <3>3. ASSUME NEW i \in 1..m - 1
          PROVE  LastIn(log', d) < LastIn(log', traces'[i].id)
      <4>1. Src(i, k) = i + 1 /\ i + 1 \in 1..n /\ 1 < i + 1 /\ 1 \in 1..n
        BY <1>6, <3>1, <3>2
      <4>2. LastIn(log, traces[1].id) < LastIn(log, traces[i + 1].id)
        BY <1>6, <4>1 DEF RetainInv
      <4>3. LastIn(log', traces'[i].id) = LastIn(log, traces[i + 1].id)
        BY <1>9, <4>1
      <4> QED
        BY <2>1, <3>1, <3>2, <4>2, <4>3
    <3> QED
      BY <1>8, <2>2, <3>2, <3>3
  <2> QED
    BY <2>3, <2>4
<1> HIDE DEF m
<1>13. \A i, j \in DOMAIN traces' : i < j => LastIn(log', traces'[i].id) < LastIn(log', traces'[j].id)
  BY <1>6, <1>11
<1>14. \A d \in ToSet(log)' \ Ids(traces)' :
         /\ m = MaxCalls
         /\ \A i \in DOMAIN traces' : LastIn(log', d) < LastIn(log', traces'[i].id)
  BY <1>4, <1>6, <1>12
<1> QED
  BY <1>10, <1>13, <1>14 DEF RetainInv, m

LEMMA StepRetainInv ==
  ASSUME TypeOK, LogInv, RetainInv, [Next]_vars
  PROVE  LogInv' /\ RetainInv'
PROOF
<1>1. ASSUME NEW c \in CallIds, Record(c) PROVE LogInv' /\ RetainInv'
  BY <1>1, RecordRetainInv, LastEventAfter
<1>2. CASE UNCHANGED <<log, traces>>
  BY <1>2 DEF LogInv, RetainInv
<1>3. UNCHANGED <<log, traces>> \/ \E c \in CallIds : Record(c)
  BY DEF Next, Feed, Accept, PollKnown, ReadRecent, Send, Disconnect, vars
<1> QED
  BY <1>1, <1>2, <1>3

\* How many calls are newer than a retained one follows from its place.
LEMMA NewerThanRetained ==
  ASSUME TypeOK, LogInv, RetainInv, NEW i \in DOMAIN traces
  PROVE  Cardinality({d \in CallIds : LastIn(log, d) > LastIn(log, traces[i].id)}) < MaxCalls
PROOF
<1> DEFINE n == Len(traces)
           newer == {d \in CallIds : LastIn(log, d) > LastIn(log, traces[i].id)}
           behind == {traces[j].id : j \in i + 1..n}
           f == [j \in i + 1..n |-> traces[j].id]
<1>1. n \in Nat /\ n <= MaxCalls /\ DOMAIN traces = 1..n /\ i \in 1..n /\ MaxCalls \in Nat
  BY FeedAssumption DEF TypeOK
<1>2. traces[i].id \in ToSet(log)
  BY DEF RetainInv, Ids
<1>3. LastIn(log, traces[i].id) \in 1..Len(log) /\ Len(log) \in Nat
  BY <1>2, LastEventIs DEF TypeOK
<1>4. ASSUME NEW d \in newer PROVE d \in behind
  <2>1. d \in ToSet(log)
    BY <1>3, LastEventIs
  <2>2. LastIn(log, d) \in 1..Len(log)
    BY <2>1, LastEventIs
  <2>3. d \in Ids(traces)
    BY <1>3, <2>1, <2>2 DEF RetainInv
  <2>4. PICK j \in 1..n : d = traces[j].id
    BY <1>1, <2>3 DEF Ids
  <2>5. j > i
    <3>1. CASE j = i
      BY <1>3, <2>4, <3>1
    <3>2. CASE j < i
      <4>1. LastIn(log, d) < LastIn(log, traces[i].id)
        BY <1>1, <2>4, <3>2 DEF RetainInv
      <4> QED
        BY <1>3, <2>2, <4>1
    <3> QED
      BY <1>1, <3>1, <3>2
  <2> QED
    BY <1>1, <2>4, <2>5
<1>5. IsFiniteSet(i + 1..n) /\ Cardinality(i + 1..n) = n - i
  <2>1. i + 1 \in Int /\ n \in Int /\ i <= n
    BY <1>1
  <2>2. Cardinality(i + 1..n) = IF i + 1 > n THEN 0 ELSE n - (i + 1) + 1
    BY <2>1, FS_Interval
  <2>3. IsFiniteSet(i + 1..n)
    BY <2>1, FS_Interval
  <2> QED
    BY <1>1, <2>2, <2>3
<1>6. f \in Surjection(i + 1..n, behind)
  BY DEF Surjection
<1>7. IsFiniteSet(behind) /\ Cardinality(behind) <= n - i
  BY <1>5, <1>6, FS_Surjection
<1>8. newer \subseteq behind
  BY <1>4
<1> HIDE DEF newer, behind
<1>9. IsFiniteSet(newer) /\ Cardinality(newer) <= Cardinality(behind)
  BY <1>7, <1>8, FS_Subset
<1>10. Cardinality(newer) \in Nat /\ Cardinality(behind) \in Nat
  BY <1>7, <1>9, FS_CardinalityType
<1>11. Cardinality(newer) < MaxCalls
  BY <1>1, <1>7, <1>9, <1>10
<1> QED
  BY <1>11 DEF newer

\* The calls that have events are finitely many, and there are as many calls retained as
\* traces.
LEMMA CallsAreFinite ==
  ASSUME TypeOK
  PROVE  /\ IsFiniteSet(ToSet(log)) /\ Cardinality(ToSet(log)) \in Nat
         /\ ToSet(log) \subseteq CallIds
         /\ IsFiniteSet(Ids(traces)) /\ Cardinality(Ids(traces)) = Len(traces)
PROOF
<1> DEFINE n == Len(traces)
           f == [j \in 1..n |-> traces[j].id]
           g == [j \in 1..Len(log) |-> log[j]]
<1>1. n \in Nat /\ DOMAIN traces = 1..n
  BY DEF TypeOK
<1>2. Len(log) \in Nat /\ DOMAIN log = 1..Len(log) /\ ToSet(log) \subseteq CallIds
  BY DEF TypeOK, ToSet
<1>3. g \in Surjection(1..Len(log), ToSet(log))
  BY <1>2 DEF Surjection, ToSet
<1>4. IsFiniteSet(1..Len(log))
  BY <1>2, FS_Interval
<1>5. IsFiniteSet(ToSet(log))
  BY <1>3, <1>4, FS_Surjection
<1>6. f \in Surjection(1..n, Ids(traces))
  BY <1>1 DEF Surjection, Ids
<1>7. f \in Injection(1..n, Ids(traces))
  BY <1>1, <1>6 DEF Injection, IsInjective, Surjection, TypeOK
<1>8. IsFiniteSet(1..n) /\ Cardinality(1..n) = n
  <2> HIDE DEF n
  <2>1. IsFiniteSet(1..n) /\ Cardinality(1..n) = IF 1 > n THEN 0 ELSE n - 1 + 1
    BY <1>1, FS_Interval
  <2> QED
    BY <1>1, <2>1
<1>9. IsFiniteSet(Ids(traces)) /\ Cardinality(Ids(traces)) = n
  BY <1>6, <1>7, <1>8, FS_Surjection
<1> QED
  BY <1>2, <1>5, <1>9, FS_CardinalityType

\* A call that is not retained has all of a full recorder behind it.
LEMMA NewerThanDropped ==
  ASSUME TypeOK, LogInv, RetainInv, NEW c \in ToSet(log), c \notin Ids(traces)
  PROVE  ~(Cardinality({d \in CallIds : LastIn(log, d) > LastIn(log, c)}) < MaxCalls)
PROOF
<1> DEFINE n == Len(traces)
           newer == {d \in CallIds : LastIn(log, d) > LastIn(log, c)}
<1>1. n \in Nat /\ DOMAIN traces = 1..n /\ n = MaxCalls
  BY DEF TypeOK, RetainInv
<1>2. ToSet(log) \subseteq CallIds
  BY CallsAreFinite
<1>3. LastIn(log, c) \in 1..Len(log) /\ Len(log) \in Nat
  BY LastEventIs DEF TypeOK
<1>4. newer \subseteq ToSet(log)
  BY <1>3, LastEventIs
<1>5. Ids(traces) \subseteq newer
  <2>1. ASSUME NEW i \in 1..n PROVE traces[i].id \in newer
    <3>1. traces[i].id \in ToSet(log)
      BY <1>1 DEF RetainInv, Ids
    <3>2. LastIn(log, traces[i].id) \in 1..Len(log)
      BY <3>1, LastEventIs
    <3>3. LastIn(log, c) < LastIn(log, traces[i].id)
      BY <1>1 DEF RetainInv
    <3> QED
      BY <1>2, <1>3, <3>1, <3>2, <3>3
  <2> QED
    BY <1>1, <2>1 DEF Ids
<1> HIDE DEF newer
<1>6. IsFiniteSet(newer) /\ Cardinality(Ids(traces)) <= Cardinality(newer)
  BY <1>4, <1>5, CallsAreFinite, FS_Subset
<1>7. Cardinality(newer) \in Nat
  BY <1>6, FS_CardinalityType
<1> QED
  BY <1>1, <1>6, <1>7, CallsAreFinite DEF newer

\* The calls the recorder retains are the max_calls ones updated last, in that order,
\* for any number of calls and events (record, recent).
THEOREM LatestCallsRetained == Spec => []LatestAreRetained
PROOF
<1>1. Init => TypeOK /\ LogInv /\ RetainInv
  BY InitTypeOK, InitRetainInv
<1>2. TypeOK /\ LogInv /\ RetainInv /\ [Next]_vars => (TypeOK /\ LogInv /\ RetainInv)'
  BY StepTypeOK, StepRetainInv
<1>3. TypeOK /\ LogInv /\ RetainInv => LatestAreRetained
  <2> SUFFICES ASSUME TypeOK, LogInv, RetainInv PROVE LatestAreRetained
    OBVIOUS
  <2>1. Ids(traces) \subseteq ToSet(log)
    BY DEF RetainInv
  <2>2. \A c \in Ids(traces) :
          Cardinality({d \in CallIds : LastIn(log, d) > LastIn(log, c)}) < MaxCalls
    BY NewerThanRetained DEF Ids
  <2>3. \A c \in ToSet(log) \ Ids(traces) :
          ~(Cardinality({d \in CallIds : LastIn(log, d) > LastIn(log, c)}) < MaxCalls)
    BY NewerThanDropped
  <2> QED
    BY <2>1, <2>2, <2>3 DEF LatestAreRetained, RetainInv
<1> QED
  BY <1>1, <1>2, <1>3, PTL DEF Spec

-----------------------------------------------------------------------------
(* What counts as seen was sent.                                             *)

\* A poll only knows calls that have events, and a batch that waits to be sent holds a
\* trace of every call that the poll will count as seen.
BatchInv ==
  /\ feed.current \subseteq ToSet(log)
  /\ feed.pc = "sending" /\ FewCalls =>
       \A c \in feed.current \ feed.seen : \E t \in feed.batch : t.id = c

LEMMA InitBatchInv ==
  ASSUME Init
  PROVE  BatchInv
PROOF
  BY DEF Init, BatchInv

\* Few calls now were few calls before.
LEMMA CallsOnlyGrow ==
  ASSUME TypeOK, LogInv, NEW c \in CallIds, Record(c)
  PROVE  ToSet(log) \subseteq ToSet(log)' /\ (FewCalls' => FewCalls)
PROOF
<1>1. ToSet(log) \subseteq ToSet(log)'
  BY LastEventAfter
<1>2. IsFiniteSet(ToSet(log)') /\ Cardinality(ToSet(log)') \in Nat
  <2>1. ToSet(log)' = ToSet(log) \cup {c}
    BY LastEventAfter
  <2>2. IsFiniteSet(ToSet(log) \cup {c})
    BY CallsAreFinite, FS_AddElement
  <2> QED
    BY <2>1, <2>2, FS_CardinalityType
<1>3. Cardinality(ToSet(log)) <= Cardinality(ToSet(log)')
  BY <1>1, <1>2, FS_Subset
<1>4. Cardinality(ToSet(log)) \in Nat /\ MaxTraces \in Nat /\ MaxCalls \in Nat
  BY CallsAreFinite, FeedAssumption
<1>5. FewCalls' => FewCalls
  <2> DEFINE p == Cardinality(ToSet(log))
             q == Cardinality(ToSet(log)')
  <2>1. /\ FewCalls <=> p <= MaxTraces /\ p <= MaxCalls
        /\ FewCalls' <=> q <= MaxTraces /\ q <= MaxCalls
    BY DEF FewCalls
  <2>2. p \in Nat /\ q \in Nat /\ p <= q
    BY <1>2, <1>3, <1>4
  <2> HIDE DEF p, q
  <2> QED
    BY <1>4, <2>1, <2>2
<1> QED
  BY <1>1, <1>5

\* With few calls the recorder has dropped none, and a poll reads all of it.
LEMMA FewCallsAreRead ==
  ASSUME TypeOK, RetainInv, FewCalls
  PROVE  Ids(traces) = ToSet(log) /\ Recent(MaxTraces) = {traces[i] : i \in DOMAIN traces}
PROOF
<1> DEFINE n == Len(traces)
           p == Cardinality(ToSet(log))
<1>1. n \in Nat /\ DOMAIN traces = 1..n /\ MaxTraces \in Nat /\ MaxCalls \in Nat
  BY FeedAssumption DEF TypeOK
<1>2. /\ IsFiniteSet(ToSet(log)) /\ p \in Nat
      /\ IsFiniteSet(Ids(traces)) /\ Cardinality(Ids(traces)) = n
  BY CallsAreFinite
<1>3. p <= MaxTraces /\ p <= MaxCalls
  BY DEF FewCalls
<1>4. Ids(traces) \subseteq ToSet(log)
  BY DEF RetainInv
<1>5. n <= p
  BY <1>2, <1>4, FS_Subset
<1>6. Ids(traces) = ToSet(log)
  <2>1. SUFFICES ASSUME NEW c \in ToSet(log), c \notin Ids(traces) PROVE FALSE
    BY <1>4
  <2>2. n = MaxCalls
    BY <2>1 DEF RetainInv
  <2>3. n < p
    <3>1. Ids(traces) # ToSet(log)
      BY <2>1
    <3>2. Cardinality(Ids(traces)) < Cardinality(ToSet(log))
      BY <1>2, <1>4, <3>1, FS_Subset
    <3> QED
      BY <1>2, <3>2
  <2> HIDE DEF n, p
  <2> QED
    BY <1>1, <1>2, <1>3, <2>2, <2>3
<1>7. \A i \in 1..n : i + MaxTraces > n
  <2> HIDE DEF n, p
  <2> QED
    BY <1>1, <1>2, <1>3, <1>5
<1>8. Recent(MaxTraces) = {traces[i] : i \in DOMAIN traces}
  BY <1>1, <1>7 DEF Recent
<1> QED
  BY <1>6, <1>8

LEMMA StepBatchInv ==
  ASSUME TypeOK, LogInv, RetainInv, BatchInv, [Next]_vars
  PROVE  BatchInv'
PROOF
<1>1. ASSUME NEW c \in CallIds, Record(c) PROVE BatchInv'
  <2>1. feed' = feed /\ ToSet(log) \subseteq ToSet(log)' /\ (FewCalls' => FewCalls)
    BY <1>1, CallsOnlyGrow DEF Record
  <2> QED
    BY <2>1 DEF BatchInv
<1>2. CASE Accept
  BY <1>2 DEF Accept, BatchInv, TypeOK
<1>3. CASE PollKnown
  <2>1. feed'.pc = "reading" /\ feed'.current = Ids(traces) /\ log' = log
    BY <1>3 DEF PollKnown, TypeOK
  <2> QED
    BY <2>1 DEF BatchInv, RetainInv
<1>4. CASE ReadRecent
  <2>1. /\ log' = log /\ traces' = traces
        /\ feed'.current = feed.current /\ feed'.seen = feed.seen
        /\ feed'.batch = {t \in Recent(MaxTraces) : t.id \in feed.current \ feed.seen}
    BY <1>4 DEF ReadRecent, TypeOK
  <2>2. ASSUME FewCalls, NEW c \in feed.current \ feed.seen
        PROVE  \E t \in feed'.batch : t.id = c
    <3>1. c \in Ids(traces)
      BY <2>2, FewCallsAreRead DEF BatchInv
    <3>2. PICK i \in DOMAIN traces : traces[i].id = c
      BY <3>1 DEF Ids
    <3>3. traces[i] \in Recent(MaxTraces)
      BY <2>2, FewCallsAreRead
    <3> QED
      BY <2>1, <3>2, <3>3
  <2>3. FewCalls' => FewCalls
    BY <2>1 DEF FewCalls
  <2> QED
    BY <2>1, <2>2, <2>3 DEF BatchInv
<1>5. CASE Send
  BY <1>5 DEF Send, BatchInv, TypeOK
<1>6. CASE Disconnect
  BY <1>6 DEF Disconnect, BatchInv, TypeOK
<1>7. CASE UNCHANGED vars
  BY <1>7 DEF vars, BatchInv, FewCalls
<1> QED
  BY <1>1, <1>2, <1>3, <1>4, <1>5, <1>6, <1>7 DEF Next, Feed

\* A call counts as seen only when its trace is sent, whatever was recorded between the
\* two reads of the poll and while it was sent, for any number of calls that a poll can
\* read and the recorder can hold (ws_events).
THEOREM SeenCallsAreSent == Spec => SeenIsSent
PROOF
<1> DEFINE Inv == TypeOK /\ PushInv /\ LogInv /\ RetainInv /\ BatchInv
<1>1. Init => Inv
  BY InitTypeOK, InitPushInv, InitRetainInv, InitBatchInv
<1>2. Inv /\ [Next]_vars => Inv'
  BY StepTypeOK, StepPushInv, StepRetainInv, StepBatchInv
<1>3. Inv /\ [Next]_vars =>
        [feed.pc = "sending" /\ FewCalls =>
           \A c \in feed'.seen \ feed.seen : \E t \in pushed' \ pushed : t.id = c]_vars
  <2> SUFFICES ASSUME Inv, Next, feed.pc = "sending", FewCalls, NEW c \in feed'.seen \ feed.seen
               PROVE  \E t \in pushed' \ pushed : t.id = c
    OBVIOUS
  <2>1. Send
    BY DEF Next, Feed, Record, Accept, PollKnown, ReadRecent, Disconnect, TypeOK
  <2>2. c \in feed.current \ feed.seen /\ pushed' = pushed \cup feed.batch
    BY <2>1 DEF Send, TypeOK
  <2>3. PICK t \in feed.batch : t.id = c
    BY <2>2 DEF BatchInv
  <2>4. t \notin pushed
    BY DEF PushInv, PushedOnce
  <2> QED
    BY <2>2, <2>3, <2>4
<1> QED
  BY <1>1, <1>2, <1>3, PTL DEF Spec, SeenIsSent
=============================================================================
