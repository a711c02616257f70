-------------------------- MODULE InMemoryStateStore --------------------------
(***************************************************************************)
(* The in-memory state store: InMemoryStateStore (state_store.py), an      *)
(* OrderedDict behind one lock, used by several threads.  The body of a    *)
(* method is several dictionary operations, and each of them is a step; it *)
(* is the lock that makes the method one step for everybody else.  No      *)
(* fairness is assumed: that no state is a deadlock shows that every path  *)
(* through a method gives the lock back.                                   *)
(***************************************************************************)
EXTENDS Naturals, FiniteSets

CONSTANTS Callers, Keys, Values, Prefixes, Family, Limits, None  \* as in StateStore

ASSUME StoreAssumption ==
  /\ Family \in [Prefixes -> SUBSET Keys]
  /\ Limits \subseteq Nat
  /\ None \notin Values \cup Callers

Calls == [op : {"read"}, key : Keys]
    \cup [op : {"write"}, key : Keys, value : Values]
    \cup [op : {"trim"}, key : Prefixes, limit : Limits]

VARIABLES
  records,  \* self._entries: the record of each key, or None
  order,    \* self._entries: <<j, k>> when k comes after j
  lock,     \* the caller that holds the lock, or None
  calls,    \* where each caller is in its method
  settled   \* the dictionary when the lock was last given back (history)

vars == <<records, order, lock, calls, settled>>

Idle == [pc |-> "idle"]

Init ==
  /\ records = [k \in Keys |-> None]
  /\ order = {}
  /\ lock = None
  /\ calls = [c \in Callers |-> Idle]
  /\ settled = [records |-> records, order |-> order]

-----------------------------------------------------------------------------
(* The OrderedDict.                                                          *)

\* The keys that are there.
Held == {k \in Keys : records[k] # None}

AfterAll(key) == {<<j, key>> : j \in Held \ {key}}
OrderWithout(key) == {pair \in order : pair[1] # key /\ pair[2] # key}

\* Mutant: a key is put at the end and kept at its place as well.
MoveToEndAndStay(key) == order' = order \cup AfterAll(key)

\* move_to_end(key), for a key that is there.
MoveToEnd(key) == order' = OrderWithout(key) \cup AfterAll(key)

\* d[key] = value: in its place when the key is there, else at the end.
Assign(key, value) ==
  /\ records' = [records EXCEPT ![key] = value]
  /\ order' = IF key \in Held THEN order ELSE order \cup AfterAll(key)

\* del d[key]
Delete(key) ==
  /\ records' = [records EXCEPT ![key] = None]
  /\ order' = OrderWithout(key)

-----------------------------------------------------------------------------
Begin(c, request) ==
  /\ calls[c] = Idle
  /\ calls' = [calls EXCEPT ![c] = [pc |-> "waiting", req |-> request]]
  /\ UNCHANGED <<records, order, lock, settled>>

\* Mutant: the methods do not take the lock.
EnterAnyway(c) ==
  /\ calls[c].pc = "waiting"
  /\ lock' = c
  /\ calls' = [calls EXCEPT ![c].pc = "entered"]
  /\ UNCHANGED <<records, order, settled>>

\* with self._lock
Enter(c) ==
  /\ calls[c].pc = "waiting"
  /\ lock = None
  /\ lock' = c
  /\ calls' = [calls EXCEPT ![c].pc = "entered"]
  /\ UNCHANGED <<records, order, settled>>

\* The end of the with statement: the lock is released on every path.
Leave(c, result) ==
  /\ lock' = None
  /\ calls' = [calls EXCEPT ![c] = [pc |-> "done", result |-> result]]
  /\ settled' = [records |-> records', order |-> order']

Inside(c, op, pc) ==
  /\ calls[c].pc = pc
  /\ calls[c].req.op = op

ReadMisses(c) ==
  /\ Inside(c, "read", "entered")
  /\ calls[c].req.key \notin Held
  /\ UNCHANGED <<records, order>>
  /\ Leave(c, None)

ReadMoves(c) ==
  /\ Inside(c, "read", "entered")
  /\ calls[c].req.key \in Held
  /\ MoveToEnd(calls[c].req.key)
  /\ calls' = [calls EXCEPT ![c].pc = "moved"]
  /\ UNCHANGED <<records, lock, settled>>

ReadReturns(c) ==
  /\ Inside(c, "read", "moved")
  /\ UNCHANGED <<records, order>>
  /\ Leave(c, records[calls[c].req.key])

WriteAssigns(c) ==
  /\ Inside(c, "write", "entered")
  /\ Assign(calls[c].req.key, calls[c].req.value)
  /\ calls' = [calls EXCEPT ![c].pc = "moved"]
  /\ UNCHANGED <<lock, settled>>

WriteMoves(c) ==
  /\ Inside(c, "write", "moved")
  /\ MoveToEnd(calls[c].req.key)
  /\ UNCHANGED records
  /\ Leave(c, None)

\* The keys of the family, as they are now; their order is that of the dictionary.
TrimLists(c) ==
  /\ Inside(c, "trim", "entered")
  /\ calls' = [calls EXCEPT ![c] =
       [pc |-> "listed", req |-> @.req, family |-> Held \cap Family[@.req.key]]]
  /\ UNCHANGED <<records, order, lock, settled>>

\* The oldest key of those left in the list.
TrimEvicts(c) ==
  /\ Inside(c, "trim", "listed")
  /\ Cardinality(calls[c].family) > calls[c].req.limit
  /\ \E key \in calls[c].family :
       /\ \A k \in calls[c].family \ {key} : <<key, k>> \in order
       /\ Delete(key)
       /\ calls' = [calls EXCEPT ![c].family = @ \ {key}]
  /\ UNCHANGED <<lock, settled>>

TrimReturns(c) ==
  /\ Inside(c, "trim", "listed")
  /\ Cardinality(calls[c].family) <= calls[c].req.limit
  /\ UNCHANGED <<records, order>>
  /\ Leave(c, None)

End(c) ==
  /\ calls[c].pc = "done"
  /\ calls' = [calls EXCEPT ![c] = Idle]
  /\ UNCHANGED <<records, order, lock, settled>>

-----------------------------------------------------------------------------
Body(c) ==
  \/ ReadMisses(c)
  \/ ReadMoves(c)
  \/ ReadReturns(c)
  \/ WriteAssigns(c)
  \/ WriteMoves(c)
  \/ TrimLists(c)
  \/ TrimEvicts(c)
  \/ TrimReturns(c)

Next ==
  \E c \in Callers :
    \/ \E request \in Calls : Begin(c, request)
    \/ Enter(c)
    \/ Body(c)
    \/ End(c)

Spec == Init /\ [][Next]_vars

-----------------------------------------------------------------------------
CallStates == {Idle}
    \cup [pc : {"waiting", "entered", "moved"}, req : Calls]
    \cup [pc : {"listed"}, req : Calls, family : SUBSET Keys]
    \cup [pc : {"done"}, result : Values \cup {None}]

\* Every variable has its type, and the keys held are in one line.
TypeOK ==
  /\ records \in [Keys -> Values \cup {None}]
  /\ order \subseteq Held \X Held
  /\ \A j, k \in Held : <<j, k>> \in order <=> j # k /\ <<k, j>> \notin order
  /\ \A i, j, k \in Held : <<i, j>> \in order /\ <<j, k>> \in order => <<i, k>> \in order
  /\ lock \in Callers \cup {None}
  /\ calls \in [Callers -> CallStates]
  /\ settled \in [records : [Keys -> Values \cup {None}], order : SUBSET (Keys \X Keys)]

\* A method takes effect when it gives the lock back: until then the store is, for
\* everybody else, what it was when the lock was taken.
CallInEffect(c) ==
  IF calls[c].pc \in {"waiting", "entered", "moved", "listed"}
  THEN [pc |-> "pending", req |-> calls[c].req]
  ELSE calls[c]

Store == INSTANCE StateStore WITH
  records <- settled.records,
  newer <- settled.order,
  calls <- [c \in Callers |-> CallInEffect(c)]

\* The store keeps the promises of the protocol: calls of any number of threads
\* take effect one at a time, and trim drops the least recently used keys of its
\* family and nothing else (StateStore.read, write, trim).
ImplementsStateStore == Store!Spec
=============================================================================
