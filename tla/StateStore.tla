------------------------------ MODULE StateStore ------------------------------
(***************************************************************************)
(* What a state store promises (the protocol StateStore, state_store.py):  *)
(* every call takes effect at one instant between its beginning and its    *)
(* end; the keys are ordered by their last use; a trim drops the least     *)
(* recently used keys of its family above its limit, and no others.        *)
(***************************************************************************)
EXTENDS Naturals, FiniteSets

CONSTANTS
  Callers,   \* the threads that use the store
  Keys,      \* the keys of the records
  Values,    \* the records, opaque to the store
  Prefixes,  \* the prefixes given to trim
  Family,    \* the keys that carry a prefix
  Limits,    \* the limits given to trim
  None       \* Python's None

Calls == [op : {"read"}, key : Keys]
    \cup [op : {"write"}, key : Keys, value : Values]
    \cup [op : {"trim"}, key : Prefixes, limit : Limits]

VARIABLES
  records,  \* the record of each key
  newer,    \* <<j, k>>: k was used after j
  calls     \* what each caller does

vars == <<records, newer, calls>>

Idle == [pc |-> "idle"]
Stored == {k \in Keys : records[k] # None}

Init ==
  /\ records = [k \in Keys |-> None]
  /\ newer = {}
  /\ calls = [c \in Callers |-> Idle]

Begin(c, request) ==
  /\ calls[c] = Idle
  /\ calls' = [calls EXCEPT ![c] = [pc |-> "pending", req |-> request]]
  /\ UNCHANGED <<records, newer>>

\* The pairs of newer once key has become the most recently used.
UsedLast(key) ==
  {pair \in newer : key \notin {pair[1], pair[2]}} \cup {<<j, key>> : j \in Stored \ {key}}

Answer(c, result) == calls' = [calls EXCEPT ![c] = [pc |-> "done", result |-> result]]

Read(c) ==
  LET key == calls[c].req.key IN
  /\ newer' = IF records[key] = None THEN newer ELSE UsedLast(key)
  /\ Answer(c, records[key])
  /\ UNCHANGED records

Write(c) ==
  LET key == calls[c].req.key IN
  /\ records' = [records EXCEPT ![key] = calls[c].req.value]
  /\ newer' = UsedLast(key)
  /\ Answer(c, None)

\* dropped is what must go: a family within its limit keeps every key, and no
\* key that is kept is older than one that is dropped.
Excess(family, limit, dropped) ==
  /\ dropped \subseteq family
  /\ IF Cardinality(family) <= limit THEN dropped = {}
                                     ELSE Cardinality(family \ dropped) = limit
  /\ \A k \in dropped, j \in family \ dropped : <<k, j>> \in newer

Trim(c) ==
  \E dropped \in SUBSET Keys :
    /\ Excess(Stored \cap Family[calls[c].req.key], calls[c].req.limit, dropped)
    /\ records' = [k \in Keys |-> IF k \in dropped THEN None ELSE records[k]]
    /\ newer' = {pair \in newer : pair[1] \notin dropped /\ pair[2] \notin dropped}
    /\ Answer(c, None)

TakeEffect(c) ==
  /\ calls[c].pc = "pending"
  /\ \/ calls[c].req.op = "read" /\ Read(c)
     \/ calls[c].req.op = "write" /\ Write(c)
     \/ calls[c].req.op = "trim" /\ Trim(c)

End(c) ==
  /\ calls[c].pc = "done"
  /\ calls' = [calls EXCEPT ![c] = Idle]
  /\ UNCHANGED <<records, newer>>

Next ==
  \E c \in Callers :
    \/ \E request \in Calls : Begin(c, request)
    \/ TakeEffect(c)
    \/ End(c)

Spec == Init /\ [][Next]_vars
=============================================================================
