----------------------- MODULE InMemoryStateStore_proofs -----------------------
(***************************************************************************)
(* Proofs about InMemoryStateStore: it implements StateStore for any       *)
(* number of threads and keys.                                             *)
(***************************************************************************)
EXTENDS InMemoryStateStore, FiniteSetTheorems, TLAPS

-----------------------------------------------------------------------------
(* Keys in one line, and what the operations of the dictionary do to them.   *)

InLine(held, after) ==
  /\ after \subseteq held \X held
  /\ \A j, k \in held : <<j, k>> \in after <=> j # k /\ <<k, j>> \notin after
  /\ \A i, j, k \in held : <<i, j>> \in after /\ <<j, k>> \in after => <<i, k>> \in after

PairsWithout(after, key) == {pair \in after : pair[1] # key /\ pair[2] # key}
PairsTo(held, key) == {<<j, key>> : j \in held \ {key}}

LEMMA PairsOfMove ==
  ASSUME NEW held, NEW after, after \subseteq held \X held, NEW key, NEW i, NEW j
  PROVE  /\ <<i, j>> \in PairsWithout(after, key) <=> i # key /\ j # key /\ <<i, j>> \in after
         /\ <<i, j>> \in PairsTo(held, key) <=> j = key /\ i \in held \ {key}
PROOF
<1>1. <<i, j>>[1] = i /\ <<i, j>>[2] = j
  OBVIOUS
<1> QED
  BY <1>1 DEF PairsWithout, PairsTo

LEMMA MovedInLine ==
  ASSUME NEW held, NEW after, InLine(held, after), NEW key
  PROVE  InLine(held \cup {key}, PairsWithout(after, key) \cup PairsTo(held, key))
PROOF
<1> DEFINE moved == PairsWithout(after, key) \cup PairsTo(held, key)
<1>1. \A i, j : <<i, j>> \in moved <=> \/ i # key /\ j # key /\ <<i, j>> \in after
                                       \/ j = key /\ i \in held \ {key}
  <2>1. after \subseteq held \X held
    BY DEF InLine
  <2> TAKE i, j
  <2> QED
    BY <2>1, PairsOfMove
<1>2. moved \subseteq (held \cup {key}) \X (held \cup {key})
  BY DEF PairsWithout, PairsTo, InLine
<1> HIDE DEF moved
<1>3. \A i, j : <<i, j>> \in after => i \in held /\ j \in held
  BY DEF InLine
<1>4. ASSUME NEW j \in held \cup {key}, NEW k \in held \cup {key}
      PROVE  <<j, k>> \in moved <=> j # k /\ <<k, j>> \notin moved
  BY <1>1, <1>3, <1>4 DEF InLine
<1>5. ASSUME NEW i \in held \cup {key}, NEW j \in held \cup {key}, NEW k \in held \cup {key},
             <<i, j>> \in moved, <<j, k>> \in moved
      PROVE  <<i, k>> \in moved
  BY <1>1, <1>3, <1>5 DEF InLine
<1>6. InLine(held \cup {key}, moved)
  BY <1>2, <1>4, <1>5 DEF InLine
<1> QED
  BY <1>6 DEF moved

LEMMA DeletedInLine ==
  ASSUME NEW held, NEW after, InLine(held, after), NEW key
  PROVE  InLine(held \ {key}, PairsWithout(after, key))
PROOF
<1> DEFINE left == PairsWithout(after, key)
<1>1. \A i, j : <<i, j>> \in left <=> i # key /\ j # key /\ <<i, j>> \in after
  BY PairsOfMove DEF InLine
<1>2. left \subseteq (held \ {key}) \X (held \ {key})
  BY DEF PairsWithout, InLine
<1> HIDE DEF left
<1>3. InLine(held \ {key}, left)
  BY <1>1, <1>2 DEF InLine
<1> QED
  BY <1>3 DEF left

LEMMA AddedInLine ==
  ASSUME NEW held, NEW after, InLine(held, after), NEW key, key \notin held
  PROVE  InLine(held \cup {key}, after \cup PairsTo(held, key))
PROOF
<1>1. PairsWithout(after, key) = after
  BY DEF PairsWithout, InLine
<1> QED
  BY <1>1, MovedInLine

-----------------------------------------------------------------------------
(* Types.                                                                    *)

LEMMA CallForms ==
  ASSUME TypeOK, NEW c \in Callers
  PROVE  /\ calls[c].pc \in {"idle", "waiting", "entered", "moved", "listed", "done"}
         /\ calls[c].pc \in {"waiting", "entered", "moved"} =>
              /\ calls[c].req \in Calls
              /\ calls[c] = [pc |-> calls[c].pc, req |-> calls[c].req]
         /\ calls[c].pc = "listed" =>
              /\ calls[c].req \in Calls /\ calls[c].family \subseteq Keys
              /\ calls[c] = [pc |-> "listed", req |-> calls[c].req, family |-> calls[c].family]
         /\ calls[c].pc = "done" =>
              /\ calls[c].result \in Values \cup {None}
              /\ calls[c] = [pc |-> "done", result |-> calls[c].result]
         /\ calls[c].pc = "idle" => calls[c] = Idle
PROOF
<1>1. calls[c] \in CallStates
  BY DEF TypeOK
<1>2. CASE calls[c] = Idle
  BY <1>2 DEF Idle
<1>3. CASE calls[c] \in [pc : {"waiting", "entered", "moved"}, req : Calls]
  BY <1>3
<1>4. CASE calls[c] \in [pc : {"listed"}, req : Calls, family : SUBSET Keys]
  BY <1>4
<1>5. CASE calls[c] \in [pc : {"done"}, result : Values \cup {None}]
  BY <1>5
<1> QED
  BY <1>1, <1>2, <1>3, <1>4, <1>5 DEF CallStates

LEMMA RequestForms ==
  ASSUME NEW r \in Calls
  PROVE  /\ r.op \in {"read", "write", "trim"}
         /\ r.op = "read" => r.key \in Keys
         /\ r.op = "write" => r.key \in Keys /\ r.value \in Values
         /\ r.op = "trim" => r.key \in Prefixes /\ r.limit \in Limits
PROOF
  BY DEF Calls

\* Where a method is while it holds the lock, and what it has done to the dictionary
\* since it took it.
InBody(c) == calls[c].pc \in {"entered", "moved", "listed"}

SettledKeys == {k \in Keys : settled.records[k] # None}

Untouched == settled = [records |-> records, order |-> order]

ReadMoved(key) ==
  /\ key \in SettledKeys
  /\ records = settled.records
  /\ order = PairsWithout(settled.order, key) \cup PairsTo(SettledKeys, key)

WriteAssigned(key, value) ==
  /\ records = [settled.records EXCEPT ![key] = value]
  /\ order = IF key \in SettledKeys THEN settled.order
             ELSE settled.order \cup PairsTo(SettledKeys, key)

\* What the trim has deleted of its family is older than what is left.
Trimmed(prefix, limit, family) ==
  LET gone == (SettledKeys \cap Family[prefix]) \ family IN
  /\ family \subseteq SettledKeys \cap Family[prefix]
  /\ records = [k \in Keys |-> IF k \in gone THEN None ELSE settled.records[k]]
  /\ order = {pair \in settled.order : pair[1] \notin gone /\ pair[2] \notin gone}
  /\ \A k \in gone, j \in family : <<k, j>> \in settled.order
  /\ gone # {} => Cardinality(family) >= limit

Work(c) ==
  LET r == calls[c].req IN
  /\ calls[c].pc = "entered" => Untouched
  /\ calls[c].pc = "moved" =>
       \/ r.op = "read" /\ ReadMoved(r.key)
       \/ r.op = "write" /\ WriteAssigned(r.key, r.value)
  /\ calls[c].pc = "listed" => r.op = "trim" /\ Trimmed(r.key, r.limit, calls[c].family)

\* One method at a time is in its body, and the store as the others see it is what
\* the dictionary was when that method took the lock.
Inv ==
  /\ TypeOK
  /\ IsFiniteSet(Held)
  /\ IsFiniteSet(SettledKeys)
  /\ \A c \in Callers : InBody(c) <=> lock = c
  /\ lock = None => Untouched
  /\ \A c \in Callers : Work(c)

\* The dictionary keeps its type under each of its operations.
DictionaryOK ==
  /\ records \in [Keys -> Values \cup {None}]
  /\ InLine(Held, order)
  /\ IsFiniteSet(Held)

LEMMA TypeParts ==
  /\ TypeOK <=> /\ records \in [Keys -> Values \cup {None}]
                /\ InLine(Held, order)
                /\ lock \in Callers \cup {None}
                /\ calls \in [Callers -> CallStates]
                /\ settled \in [records : [Keys -> Values \cup {None}], order : SUBSET (Keys \X Keys)]
PROOF
  BY DEF TypeOK, InLine

LEMMA MoveKeepsType ==
  ASSUME DictionaryOK, NEW key \in Held, MoveToEnd(key), records' = records
  PROVE  DictionaryOK'
PROOF
<1>1. Held' = Held
  BY DEF Held
<1>2. order' = PairsWithout(order, key) \cup PairsTo(Held, key)
  BY DEF MoveToEnd, OrderWithout, AfterAll, PairsWithout, PairsTo
<1>3. InLine(Held \cup {key}, order')
  BY <1>2, MovedInLine DEF DictionaryOK
<1>4. Held \cup {key} = Held
  OBVIOUS
<1> QED
  BY <1>1, <1>3, <1>4 DEF DictionaryOK

LEMMA AssignKeepsType ==
  ASSUME DictionaryOK, NEW key \in Keys, NEW value \in Values, Assign(key, value)
  PROVE  DictionaryOK' /\ Held' = Held \cup {key}
PROOF
<1>1. value # None
  BY StoreAssumption
<1>2. records' \in [Keys -> Values \cup {None}] /\ Held' = Held \cup {key}
  BY <1>1 DEF Assign, DictionaryOK, Held
<1>3. InLine(Held', order')
  <2>1. CASE key \in Held
    <3>1. order' = order /\ Held' = Held
      BY <1>2, <2>1 DEF Assign
    <3> QED
      BY <3>1 DEF DictionaryOK
  <2>2. CASE key \notin Held
    <3>1. order' = order \cup PairsTo(Held, key)
      BY <2>2 DEF Assign, AfterAll, PairsTo
    <3> QED
      BY <1>2, <2>2, <3>1, AddedInLine DEF DictionaryOK
  <2> QED
    BY <2>1, <2>2
<1>4. IsFiniteSet(Held')
  BY <1>2, FS_AddElement DEF DictionaryOK
<1> QED
  BY <1>2, <1>3, <1>4 DEF DictionaryOK

LEMMA DeleteKeepsType ==
  ASSUME DictionaryOK, NEW key \in Keys, Delete(key)
  PROVE  DictionaryOK' /\ Held' = Held \ {key}
PROOF
<1>1. records' \in [Keys -> Values \cup {None}] /\ Held' = Held \ {key}
  BY DEF Delete, DictionaryOK, Held
<1>2. order' = PairsWithout(order, key)
  BY DEF Delete, OrderWithout, PairsWithout
<1>3. InLine(Held', order')
  BY <1>1, <1>2, DeletedInLine DEF DictionaryOK
<1>4. IsFiniteSet(Held')
  BY <1>1, FS_RemoveElement DEF DictionaryOK
<1> QED
  BY <1>1, <1>3, <1>4 DEF DictionaryOK

-----------------------------------------------------------------------------
(* What a step of one caller leaves of the invariant, by the kind of step.   *)

LEMMA OneCallChanges ==
  ASSUME TypeOK, NEW c \in Callers, NEW x \in CallStates, calls' = [calls EXCEPT ![c] = x]
  PROVE  /\ calls' \in [Callers -> CallStates]
         /\ calls'[c] = x
         /\ \A d \in Callers \ {c} : calls'[d] = calls[d]
PROOF
  BY DEF TypeOK

LEMMA InvDictionary ==
  ASSUME Inv
  PROVE  DictionaryOK
PROOF
  BY TypeParts DEF Inv, DictionaryOK

\* A step outside the body of a method.
LEMMA OutsideStep ==
  ASSUME Inv, NEW c \in Callers, NEW x \in CallStates, calls' = [calls EXCEPT ![c] = x],
         ~InBody(c), x.pc \in {"idle", "waiting", "done"},
         UNCHANGED <<records, order, lock, settled>>
  PROVE  Inv'
PROOF
<1>1. TypeOK
  BY DEF Inv
<1>2. /\ calls' \in [Callers -> CallStates] /\ calls'[c] = x
      /\ \A d \in Callers \ {c} : calls'[d] = calls[d]
  BY <1>1, OneCallChanges
<1>3. TypeOK'
  BY <1>1, <1>2 DEF TypeOK, Held
<1>4. Held' = Held /\ SettledKeys' = SettledKeys /\ (Untouched' <=> Untouched)
  BY DEF Held, SettledKeys, Untouched
<1>5. \A d \in Callers : InBody(d)' <=> InBody(d)
  BY <1>2 DEF InBody
<1>6. ASSUME NEW d \in Callers PROVE Work(d)'
  <2>1. CASE d = c
    BY <1>2, <2>1 DEF Work
  <2>2. CASE d # c
    <3>1. Work(d) /\ calls'[d] = calls[d]
      BY <1>2, <2>2 DEF Inv
    <3> QED
      BY <1>4, <3>1 DEF Work, ReadMoved, WriteAssigned, Trimmed
  <2> QED
    BY <2>1, <2>2
<1> QED
  BY <1>3, <1>4, <1>5, <1>6 DEF Inv

\* The step that takes the lock.
LEMMA EnterStep ==
  ASSUME Inv, NEW c \in Callers, Enter(c)
  PROVE  Inv'
PROOF
<1> DEFINE x == [pc |-> "entered", req |-> calls[c].req]
<1>1. TypeOK /\ lock = None /\ c # None
  BY StoreAssumption DEF Inv, Enter
<1>2. x \in CallStates /\ calls' = [calls EXCEPT ![c] = x]
  <2>1. calls[c].req \in Calls /\ calls[c] = [pc |-> "waiting", req |-> calls[c].req]
    BY <1>1, CallForms DEF Enter
  <2>2. [calls[c] EXCEPT !.pc = "entered"] = x
    BY <2>1
  <2>3. calls' = [calls EXCEPT ![c] = [calls[c] EXCEPT !.pc = "entered"]]
    BY DEF Enter
  <2>4. x \in CallStates
    BY <2>1 DEF CallStates
  <2> QED
    BY <2>2, <2>3, <2>4
<1>3. /\ calls' \in [Callers -> CallStates] /\ calls'[c] = x
      /\ \A d \in Callers \ {c} : calls'[d] = calls[d]
  BY <1>1, <1>2, OneCallChanges
<1>4. UNCHANGED <<records, order, settled>> /\ lock' = c
  BY DEF Enter
<1>5. TypeOK'
  BY <1>1, <1>3, <1>4 DEF TypeOK, Held
<1>6. Held' = Held /\ SettledKeys' = SettledKeys /\ Untouched'
  BY <1>1, <1>4 DEF Inv, Held, SettledKeys, Untouched
<1>7. \A d \in Callers : ~InBody(d)
  BY <1>1, StoreAssumption DEF Inv
<1>8. \A d \in Callers : InBody(d)' <=> lock' = d
  BY <1>3, <1>4, <1>7 DEF InBody
<1>9. \A d \in Callers : Work(d)'
  BY <1>3, <1>6, <1>7 DEF Work, InBody
<1> QED
  BY <1>1, <1>4, <1>5, <1>6, <1>8, <1>9 DEF Inv

\* A step inside the body.
LEMMA InsideStep ==
  ASSUME Inv, NEW c \in Callers, NEW x \in CallStates, calls' = [calls EXCEPT ![c] = x],
         InBody(c), x.pc \in {"entered", "moved", "listed"},
         UNCHANGED <<lock, settled>>, DictionaryOK', Work(c)'
  PROVE  Inv'
PROOF
<1>1. TypeOK /\ lock = c /\ c # None
  BY StoreAssumption DEF Inv
<1>2. /\ calls' \in [Callers -> CallStates] /\ calls'[c] = x
      /\ \A d \in Callers \ {c} : calls'[d] = calls[d]
  BY <1>1, OneCallChanges
<1>3. TypeOK'
  <2>1. TypeOK' <=> /\ records' \in [Keys -> Values \cup {None}]
                    /\ InLine(Held', order')
                    /\ lock' \in Callers \cup {None}
                    /\ calls' \in [Callers -> CallStates]
                    /\ settled' \in [records : [Keys -> Values \cup {None}],
                                     order : SUBSET (Keys \X Keys)]
    BY DEF TypeOK, InLine
  <2> QED
    BY <1>1, <1>2, <2>1, TypeParts DEF DictionaryOK
<1>4. SettledKeys' = SettledKeys /\ IsFiniteSet(Held)'
  BY DEF SettledKeys, DictionaryOK
<1>5. \A d \in Callers \ {c} : ~InBody(d)
  BY <1>1 DEF Inv
<1>6. \A d \in Callers : InBody(d)' <=> lock' = d
  BY <1>1, <1>2, <1>5 DEF InBody
<1>7. \A d \in Callers : Work(d)'
  BY <1>2, <1>5 DEF Work, InBody
<1> QED
  BY <1>1, <1>3, <1>4, <1>6, <1>7 DEF Inv

\* The step that gives the lock back.
LEMMA LeaveStep ==
  ASSUME Inv, NEW c \in Callers, NEW result \in Values \cup {None}, Leave(c, result),
         InBody(c), DictionaryOK'
  PROVE  Inv'
PROOF
<1> DEFINE x == [pc |-> "done", result |-> result]
<1>1. TypeOK /\ lock = c /\ c # None
  BY StoreAssumption DEF Inv
<1>2. x \in CallStates /\ calls' = [calls EXCEPT ![c] = x]
  BY DEF Leave, CallStates
<1>3. /\ calls' \in [Callers -> CallStates] /\ calls'[c] = x
      /\ \A d \in Callers \ {c} : calls'[d] = calls[d]
  BY <1>1, <1>2, OneCallChanges
<1>4. /\ lock' = None /\ settled' = [records |-> records', order |-> order']
      /\ SettledKeys' = Held' /\ Untouched'
  BY DEF Leave, SettledKeys, Held, Untouched
<1>5. TypeOK'
  <2>1. TypeOK' <=> /\ records' \in [Keys -> Values \cup {None}]
                    /\ InLine(Held', order')
                    /\ lock' \in Callers \cup {None}
                    /\ calls' \in [Callers -> CallStates]
                    /\ settled' \in [records : [Keys -> Values \cup {None}],
                                     order : SUBSET (Keys \X Keys)]
    BY DEF TypeOK, InLine
  <2>2. order' \subseteq Keys \X Keys
    BY DEF DictionaryOK, InLine, Held
  <2> QED
    BY <1>3, <1>4, <2>1, <2>2 DEF DictionaryOK
<1>6. \A d \in Callers \ {c} : ~InBody(d)
  BY <1>1 DEF Inv
<1>7. \A d \in Callers : ~InBody(d)' /\ Work(d)'
  BY <1>3, <1>6 DEF InBody, Work
<1>8. \A d \in Callers : d # None
  BY StoreAssumption
<1>9. IsFiniteSet(Held)' /\ IsFiniteSet(SettledKeys)'
  BY <1>4 DEF DictionaryOK
<1> QED
  BY <1>4, <1>5, <1>7, <1>8, <1>9 DEF Inv

-----------------------------------------------------------------------------
(* What a step of one caller is for StateStore.                              *)

Pending == {"waiting", "entered", "moved", "listed"}

\* Inside a method nothing happens for the others.
LEMMA StutterStep ==
  ASSUME TypeOK, NEW c \in Callers, NEW x \in CallStates, calls' = [calls EXCEPT ![c] = x],
         settled' = settled, calls[c].pc \in Pending, x.pc \in Pending, x.req = calls[c].req
  PROVE  UNCHANGED Store!vars
PROOF
<1>1. /\ calls'[c] = x
      /\ \A d \in Callers \ {c} : calls'[d] = calls[d]
  BY OneCallChanges
<1>2. \A d \in Callers : CallInEffect(d)' = CallInEffect(d)
  BY <1>1 DEF CallInEffect, Pending
<1> QED
  BY <1>2 DEF Store!vars

\* The call that changes is the call that changes there.
LEMMA CallInEffectChanges ==
  ASSUME TypeOK, NEW c \in Callers, NEW x \in CallStates, calls' = [calls EXCEPT ![c] = x],
         NEW y, y = IF x.pc \in Pending THEN [pc |-> "pending", req |-> x.req] ELSE x
  PROVE  [d \in Callers |-> CallInEffect(d)]'
           = [[d \in Callers |-> CallInEffect(d)] EXCEPT ![c] = y]
PROOF
<1>1. /\ calls'[c] = x
      /\ \A d \in Callers \ {c} : calls'[d] = calls[d]
  BY OneCallChanges
<1>2. CallInEffect(c)' = y /\ \A d \in Callers \ {c} : CallInEffect(d)' = CallInEffect(d)
  BY <1>1 DEF CallInEffect, Pending
<1> QED
  BY <1>2

\* The step that gives the lock back is the one at which the call takes effect.
LEMMA LeaveAnswers ==
  ASSUME Inv, NEW c \in Callers, NEW result \in Values \cup {None}, Leave(c, result), InBody(c)
  PROVE  /\ Store!Answer(c, result)
         /\ [d \in Callers |-> CallInEffect(d)][c] = [pc |-> "pending", req |-> calls[c].req]
         /\ settled'.records = records' /\ settled'.order = order'
PROOF
<1> DEFINE x == [pc |-> "done", result |-> result]
<1>1. x \in CallStates /\ calls' = [calls EXCEPT ![c] = x]
  BY DEF Leave, CallStates
<1>2. x = IF x.pc \in Pending THEN [pc |-> "pending", req |-> x.req] ELSE x
  BY DEF Pending
<1>3. [d \in Callers |-> CallInEffect(d)]' = [[d \in Callers |-> CallInEffect(d)] EXCEPT ![c] = x]
  BY <1>1, <1>2, CallInEffectChanges DEF Inv
<1>4. CallInEffect(c) = [pc |-> "pending", req |-> calls[c].req]
  BY DEF CallInEffect, InBody
<1> QED
  BY <1>3, <1>4 DEF Store!Answer, Leave

-----------------------------------------------------------------------------
(* The steps.                                                                *)

LEMMA BeginStep ==
  ASSUME Inv, NEW c \in Callers, NEW request \in Calls, Begin(c, request)
  PROVE  Inv' /\ Store!Next
PROOF
<1> DEFINE x == [pc |-> "waiting", req |-> request]
           y == [pc |-> "pending", req |-> request]
<1>1. x \in CallStates /\ calls' = [calls EXCEPT ![c] = x] /\ calls[c] = Idle
  BY DEF Begin, CallStates
<1>2. Inv'
  <2>1. ~InBody(c) /\ x.pc = "waiting" /\ UNCHANGED <<records, order, lock, settled>>
    BY <1>1 DEF Begin, InBody, Idle
  <2> HIDE DEF x
  <2> QED
    BY <1>1, <2>1, OutsideStep
<1>3. y = IF x.pc \in Pending THEN [pc |-> "pending", req |-> x.req] ELSE x
  BY DEF Pending
<1>4. [d \in Callers |-> CallInEffect(d)]' = [[d \in Callers |-> CallInEffect(d)] EXCEPT ![c] = y]
  BY <1>1, <1>3, CallInEffectChanges DEF Inv
<1>5. CallInEffect(c) = Store!Idle
  BY <1>1 DEF CallInEffect, Idle, Store!Idle
<1>6. Store!Begin(c, request)
  BY <1>4, <1>5 DEF Store!Begin, Begin
<1>7. request \in Store!Calls
  BY DEF Calls, Store!Calls
<1> QED
  BY <1>2, <1>6, <1>7 DEF Store!Next

LEMMA EndStep ==
  ASSUME Inv, NEW c \in Callers, End(c)
  PROVE  Inv' /\ Store!Next
PROOF
<1>1. Idle \in CallStates /\ calls' = [calls EXCEPT ![c] = Idle] /\ calls[c].pc = "done"
  BY DEF End, CallStates
<1>2. Inv'
  BY <1>1, OutsideStep DEF End, InBody, Idle
<1>3. Idle = IF Idle.pc \in Pending THEN [pc |-> "pending", req |-> Idle.req] ELSE Idle
  BY DEF Pending, Idle
<1>4. [d \in Callers |-> CallInEffect(d)]' = [[d \in Callers |-> CallInEffect(d)] EXCEPT ![c] = Idle]
  BY <1>1, <1>3, CallInEffectChanges DEF Inv
<1>5. CallInEffect(c).pc = "done" /\ Idle = Store!Idle
  BY <1>1 DEF CallInEffect, Idle, Store!Idle
<1>6. Store!End(c)
  BY <1>4, <1>5 DEF Store!End, End
<1> QED
  BY <1>2, <1>6 DEF Store!Next

LEMMA EnterStutters ==
  ASSUME Inv, NEW c \in Callers, Enter(c)
  PROVE  UNCHANGED Store!vars
PROOF
<1> DEFINE x == [pc |-> "entered", req |-> calls[c].req]
<1>1. TypeOK
  BY DEF Inv
<1>2. calls[c].req \in Calls /\ calls[c] = [pc |-> "waiting", req |-> calls[c].req]
  BY <1>1, CallForms DEF Enter
<1>3. [calls[c] EXCEPT !.pc = "entered"] = x
  BY <1>2
<1>4. calls' = [calls EXCEPT ![c] = [calls[c] EXCEPT !.pc = "entered"]]
  BY DEF Enter
<1>5. calls' = [calls EXCEPT ![c] = x]
  BY <1>3, <1>4
<1>6. x \in CallStates
  BY <1>2 DEF CallStates
<1>7. calls[c].pc \in Pending /\ x.pc \in Pending /\ x.req = calls[c].req
  BY <1>2 DEF Pending
<1>8. settled' = settled
  BY DEF Enter
<1> HIDE DEF x
<1> QED
  BY <1>1, <1>5, <1>6, <1>7, <1>8, StutterStep

\* A step inside the body: the invariant is kept, and nothing happens for the others.
LEMMA BodyStep ==
  ASSUME Inv, NEW c \in Callers, NEW x \in CallStates, calls' = [calls EXCEPT ![c] = x],
         InBody(c), x.pc \in {"entered", "moved", "listed"}, x.req = calls[c].req,
         UNCHANGED <<lock, settled>>, DictionaryOK', Work(c)'
  PROVE  Inv' /\ UNCHANGED Store!vars
PROOF
<1>1. Inv'
  BY InsideStep
<1>2. TypeOK /\ calls[c].pc \in Pending /\ x.pc \in Pending
  BY DEF Inv, InBody, Pending
<1>3. settled' = settled
  OBVIOUS
<1>4. UNCHANGED Store!vars
  BY <1>2, <1>3, StutterStep
<1> QED
  BY <1>1, <1>4

\* The request of a caller that has taken the lock.
LEMMA EnteredRequest ==
  ASSUME Inv, NEW c \in Callers, calls[c].pc = "entered"
  PROVE  /\ calls[c] = [pc |-> "entered", req |-> calls[c].req]
         /\ calls[c].req \in Calls
         /\ InBody(c) /\ Untouched /\ SettledKeys = Held /\ lock = c
PROOF
<1>1. calls[c] = [pc |-> "entered", req |-> calls[c].req] /\ calls[c].req \in Calls
  BY CallForms DEF Inv
<1>2. InBody(c) /\ Untouched /\ lock = c
  BY DEF Inv, InBody, Work
<1>3. SettledKeys = Held
  BY <1>2 DEF Untouched, SettledKeys, Held
<1> QED
  BY <1>1, <1>2, <1>3

LEMMA MovedCall ==
  ASSUME NEW r, NEW d, d = [pc |-> "entered", req |-> r]
  PROVE  [d EXCEPT !.pc = "moved"] = [pc |-> "moved", req |-> r]
PROOF
  OBVIOUS

LEMMA ReadMovesStep ==
  ASSUME Inv, NEW c \in Callers, ReadMoves(c)
  PROVE  Inv' /\ UNCHANGED Store!vars
PROOF
<1> DEFINE r == calls[c].req
           x == [pc |-> "moved", req |-> r]
<1>1. /\ calls[c].pc = "entered" /\ r.op = "read" /\ r.key \in Held /\ MoveToEnd(r.key)
      /\ UNCHANGED <<records, lock, settled>>
      /\ calls' = [calls EXCEPT ![c] = [calls[c] EXCEPT !.pc = "moved"]]
  BY DEF ReadMoves, Inside
<1>2. /\ calls[c] = [pc |-> "entered", req |-> r] /\ r \in Calls
      /\ InBody(c) /\ Untouched /\ SettledKeys = Held
  BY <1>1, EnteredRequest
<1>3. calls' = [calls EXCEPT ![c] = x] /\ x \in CallStates
  BY <1>1, <1>2, MovedCall DEF CallStates
<1>4. calls'[c] = x
  BY <1>3 DEF Inv, TypeOK
<1>5. DictionaryOK'
  BY <1>1, InvDictionary, MoveKeepsType
<1>6. order' = PairsWithout(settled.order, r.key) \cup PairsTo(SettledKeys, r.key)
  BY <1>1, <1>2 DEF MoveToEnd, OrderWithout, AfterAll, PairsWithout, PairsTo, Untouched
<1>7. settled' = settled /\ SettledKeys' = SettledKeys /\ records' = settled.records
  BY <1>1, <1>2 DEF SettledKeys, Untouched
<1>8. ReadMoved(r.key)'
  <2>1. /\ calls'[c].req.key \in SettledKeys'
        /\ records' = settled'.records
        /\ order' = PairsWithout(settled'.order, calls'[c].req.key)
                    \cup PairsTo(SettledKeys', calls'[c].req.key)
    BY <1>1, <1>2, <1>4, <1>6, <1>7
  <2> QED
    BY <2>1 DEF ReadMoved
<1>9. Work(c)'
  BY <1>1, <1>4, <1>8 DEF Work
<1> HIDE DEF x
<1>10. x.pc = "moved" /\ x.req = calls[c].req
  BY DEF x
<1> QED
  BY <1>1, <1>2, <1>3, <1>5, <1>9, <1>10, BodyStep

LEMMA WriteAssignsStep ==
  ASSUME Inv, NEW c \in Callers, WriteAssigns(c)
  PROVE  Inv' /\ UNCHANGED Store!vars
PROOF
<1> DEFINE r == calls[c].req
           x == [pc |-> "moved", req |-> r]
<1>1. /\ calls[c].pc = "entered" /\ r.op = "write" /\ Assign(r.key, r.value)
      /\ UNCHANGED <<lock, settled>>
      /\ calls' = [calls EXCEPT ![c] = [calls[c] EXCEPT !.pc = "moved"]]
  BY DEF WriteAssigns, Inside
<1>2. /\ calls[c] = [pc |-> "entered", req |-> r] /\ r \in Calls
      /\ InBody(c) /\ Untouched /\ SettledKeys = Held
  BY <1>1, EnteredRequest
<1>3. calls' = [calls EXCEPT ![c] = x] /\ x \in CallStates
  BY <1>1, <1>2, MovedCall DEF CallStates
<1>4. calls'[c] = x
  BY <1>3 DEF Inv, TypeOK
<1>5. DictionaryOK'
  BY <1>1, <1>2, RequestForms, InvDictionary, AssignKeepsType
<1>6. settled' = settled /\ SettledKeys' = SettledKeys
  BY <1>1 DEF SettledKeys
<1>7. /\ records' = [settled.records EXCEPT ![r.key] = r.value]
      /\ order' = IF r.key \in SettledKeys THEN settled.order
                  ELSE settled.order \cup PairsTo(SettledKeys, r.key)
  BY <1>1, <1>2 DEF Assign, AfterAll, PairsTo, Untouched
<1>8. WriteAssigned(r.key, r.value)'
  <2>1. /\ records' = [settled'.records EXCEPT ![calls'[c].req.key] = calls'[c].req.value]
        /\ order' = IF calls'[c].req.key \in SettledKeys' THEN settled'.order
                    ELSE settled'.order \cup PairsTo(SettledKeys', calls'[c].req.key)
    BY <1>4, <1>6, <1>7
  <2> QED
    BY <2>1 DEF WriteAssigned
<1>9. Work(c)'
  BY <1>1, <1>4, <1>8 DEF Work
<1> HIDE DEF x
<1>10. x.pc = "moved" /\ x.req = calls[c].req
  BY DEF x
<1> QED
  BY <1>1, <1>2, <1>3, <1>5, <1>9, <1>10, BodyStep

LEMMA TrimListsStep ==
  ASSUME Inv, NEW c \in Callers, TrimLists(c)
  PROVE  Inv' /\ UNCHANGED Store!vars
PROOF
<1> DEFINE r == calls[c].req
           all == Held \cap Family[r.key]
           x == [pc |-> "listed", req |-> r, family |-> all]
<1>1. /\ calls[c].pc = "entered" /\ r.op = "trim"
      /\ UNCHANGED <<records, order, lock, settled>>
      /\ calls' = [calls EXCEPT ![c] = x]
  BY DEF TrimLists, Inside
<1>2. /\ calls[c] = [pc |-> "entered", req |-> r] /\ r \in Calls
      /\ InBody(c) /\ Untouched /\ SettledKeys = Held
  BY <1>1, EnteredRequest
<1>3. x \in CallStates
  BY <1>2 DEF CallStates, Held
<1>4. calls'[c] = x
  BY <1>1 DEF Inv, TypeOK
<1>5. DictionaryOK'
  BY <1>1, InvDictionary DEF DictionaryOK, Held
<1>6. settled' = settled /\ SettledKeys' = SettledKeys
  BY <1>1 DEF SettledKeys
<1>7. records = [k \in Keys |-> records[k]]
  BY DEF Inv, TypeOK
<1>8. /\ all = SettledKeys' \cap Family[r.key]
      /\ records' = [k \in Keys |-> settled'.records[k]] /\ order' = settled'.order
  BY <1>1, <1>2, <1>6, <1>7 DEF Untouched
<1>9. Trimmed(r.key, r.limit, calls[c].family)'
  <2>1. calls'[c].req = r /\ calls'[c].family = all
    BY <1>4
  <2> DEFINE gone == (SettledKeys' \cap Family[r.key]) \ all
  <2>2. all \subseteq SettledKeys' \cap Family[r.key] /\ gone = {}
    BY <1>8
  <2> HIDE DEF all, gone
  <2>3. /\ records' = [k \in Keys |-> IF k \in gone THEN None ELSE settled'.records[k]]
        /\ order' = {pair \in settled'.order : pair[1] \notin gone /\ pair[2] \notin gone}
    BY <1>8, <2>2
  <2> QED
    BY <2>1, <2>2, <2>3 DEF Trimmed, gone
<1>10. Work(c)'
  BY <1>1, <1>4, <1>9 DEF Work
<1> HIDE DEF x
<1>11. x.pc = "listed" /\ x.req = calls[c].req
  BY DEF x
<1> QED
  BY <1>1, <1>2, <1>3, <1>5, <1>10, <1>11, BodyStep

LEMMA TrimEvictsStep ==
  ASSUME Inv, NEW c \in Callers, TrimEvicts(c)
  PROVE  Inv' /\ UNCHANGED Store!vars
PROOF
<1> DEFINE r == calls[c].req
           all == SettledKeys \cap Family[r.key]
           family == calls[c].family
           gone == all \ family
<1>1. /\ calls[c].pc = "listed" /\ r.op = "trim" /\ Cardinality(family) > r.limit
      /\ UNCHANGED <<lock, settled>>
  BY DEF TrimEvicts, Inside
<1>2. PICK key \in family :
        /\ \A k \in family \ {key} : <<key, k>> \in order
        /\ Delete(key)
        /\ calls' = [calls EXCEPT ![c] = [calls[c] EXCEPT !.family = family \ {key}]]
  BY DEF TrimEvicts
<1> DEFINE x == [pc |-> "listed", req |-> r, family |-> family \ {key}]
           more == all \ (family \ {key})
<1>3. /\ r \in Calls /\ family \subseteq Keys /\ r.limit \in Nat
      /\ calls[c] = [pc |-> "listed", req |-> r, family |-> family]
      /\ InBody(c) /\ Trimmed(r.key, r.limit, family)
  <2>1. /\ r \in Calls /\ family \subseteq Keys
        /\ calls[c] = [pc |-> "listed", req |-> r, family |-> family]
    BY <1>1, CallForms DEF Inv
  <2>2. r.limit \in Nat
    BY <1>1, <2>1, RequestForms, StoreAssumption
  <2>3. InBody(c) /\ Trimmed(r.key, r.limit, family)
    BY <1>1 DEF InBody, Inv, Work
  <2> QED
    BY <2>1, <2>2, <2>3
<1>4. calls' = [calls EXCEPT ![c] = x] /\ x \in CallStates
  <2>1. [calls[c] EXCEPT !.family = family \ {key}] = x
    BY <1>3
  <2>2. x \in CallStates
    BY <1>3 DEF CallStates
  <2> QED
    BY <1>2, <2>1, <2>2
<1>5. calls'[c] = x
  BY <1>4 DEF Inv, TypeOK
<1>6. DictionaryOK'
  BY <1>2, <1>3, InvDictionary, DeleteKeepsType
<1>7. settled' = settled /\ SettledKeys' = SettledKeys
  BY <1>1 DEF SettledKeys
<1>8. /\ family \subseteq all
      /\ records = [k \in Keys |-> IF k \in gone THEN None ELSE settled.records[k]]
      /\ order = {pair \in settled.order : pair[1] \notin gone /\ pair[2] \notin gone}
      /\ \A k \in gone, j \in family : <<k, j>> \in settled.order
  BY <1>3 DEF Trimmed
<1>9. more = gone \cup {key} /\ key \in Keys
  BY <1>2, <1>3, <1>8
<1>10. records' = [k \in Keys |-> IF k \in more THEN None ELSE settled.records[k]]
  <2>1. records' = [records EXCEPT ![key] = None]
    BY <1>2 DEF Delete
  <2> HIDE DEF gone, more
  <2> QED
    BY <1>8, <1>9, <2>1
<1>11. order' = {pair \in settled.order : pair[1] \notin more /\ pair[2] \notin more}
  <2>1. order' = {pair \in order : pair[1] # key /\ pair[2] # key}
    BY <1>2 DEF Delete, OrderWithout
  <2> HIDE DEF gone, more
  <2> QED
    BY <1>8, <1>9, <2>1
<1>12. \A k \in more, j \in family \ {key} : <<k, j>> \in settled.order
  <2> HIDE DEF gone, more
  <2>1. \A j \in family \ {key} : <<key, j>> \in settled.order
    BY <1>2, <1>8
  <2> QED
    BY <1>8, <1>9, <2>1
<1>13. Cardinality(family \ {key}) >= r.limit
  <2>1. IsFiniteSet(family)
    BY <1>8, FS_Subset DEF Inv
  <2>2. Cardinality(family \ {key}) = Cardinality(family) - 1
    BY <1>2, <2>1, FS_RemoveElement
  <2>3. Cardinality(family) \in Nat
    BY <2>1, FS_CardinalityType
  <2> QED
    BY <1>1, <1>3, <2>2, <2>3
<1>14. Trimmed(r.key, r.limit, family)'
  <2>1. /\ calls'[c].req = r /\ calls'[c].family = family \ {key}
    BY <1>5
  <2>2. family \ {key} \subseteq all
    BY <1>8
  <2> QED
    BY <1>7, <1>10, <1>11, <1>12, <1>13, <2>1, <2>2 DEF Trimmed
<1>15. Work(c)'
  BY <1>1, <1>5, <1>14 DEF Work
<1> HIDE DEF x
<1>16. x.pc = "listed" /\ x.req = calls[c].req
  BY DEF x
<1> QED
  BY <1>1, <1>3, <1>4, <1>6, <1>15, <1>16, BodyStep

-----------------------------------------------------------------------------
(* The steps at which a call takes effect.                                   *)

LEMMA ReadMissesStep ==
  ASSUME Inv, NEW c \in Callers, ReadMisses(c)
  PROVE  Inv' /\ Store!Next
PROOF
<1> DEFINE r == calls[c].req
           ca == [d \in Callers |-> CallInEffect(d)]
<1>1. /\ calls[c].pc = "entered" /\ r.op = "read" /\ r.key \notin Held
      /\ Leave(c, None) /\ UNCHANGED <<records, order>>
  BY DEF ReadMisses, Inside
<1>2. r \in Calls /\ InBody(c) /\ Untouched /\ SettledKeys = Held
  BY <1>1, EnteredRequest
<1>3. Inv'
  <2>1. DictionaryOK'
    BY <1>1, InvDictionary DEF DictionaryOK, Held
  <2> QED
    BY <1>1, <1>2, <2>1, LeaveStep
<1>4. /\ Store!Answer(c, None) /\ ca[c] = [pc |-> "pending", req |-> r]
      /\ settled'.records = records' /\ settled'.order = order'
  BY <1>1, <1>2, LeaveAnswers
<1>5. settled.records[r.key] = None
  BY <1>1, <1>2, RequestForms DEF Held, Untouched
<1> HIDE DEF ca
<1>6. Store!Read(c)
  BY <1>1, <1>2, <1>4, <1>5 DEF Store!Read, Untouched, ca
<1>7. Store!TakeEffect(c)
  BY <1>1, <1>4, <1>6 DEF Store!TakeEffect, ca
<1> QED
  BY <1>3, <1>7 DEF Store!Next

LEMMA MovedForms ==
  ASSUME Inv, NEW c \in Callers, calls[c].pc = "moved"
  PROVE  /\ calls[c].req \in Calls /\ InBody(c)
         /\ calls[c].req.op = "read" => ReadMoved(calls[c].req.key)
         /\ calls[c].req.op = "write" => WriteAssigned(calls[c].req.key, calls[c].req.value)
PROOF
  BY CallForms DEF Inv, InBody, Work

LEMMA ReadReturnsStep ==
  ASSUME Inv, NEW c \in Callers, ReadReturns(c)
  PROVE  Inv' /\ Store!Next
PROOF
<1> DEFINE r == calls[c].req
           ca == [d \in Callers |-> CallInEffect(d)]
<1>1. /\ calls[c].pc = "moved" /\ r.op = "read"
      /\ Leave(c, records[r.key]) /\ UNCHANGED <<records, order>>
  BY DEF ReadReturns, Inside
<1>2. r \in Calls /\ InBody(c) /\ ReadMoved(r.key)
  BY <1>1, MovedForms
<1>3. r.key \in Keys /\ records[r.key] \in Values \cup {None}
  BY <1>1, <1>2, RequestForms DEF Inv, TypeOK
<1>4. Inv'
  <2>1. DictionaryOK'
    BY <1>1, InvDictionary DEF DictionaryOK, Held
  <2> QED
    BY <1>1, <1>2, <1>3, <2>1, LeaveStep
<1>5. /\ Store!Answer(c, records[r.key]) /\ ca[c] = [pc |-> "pending", req |-> r]
      /\ settled'.records = records' /\ settled'.order = order'
  BY <1>1, <1>2, <1>3, LeaveAnswers
<1>6. /\ settled'.records = settled.records /\ records[r.key] = settled.records[r.key]
      /\ settled.records[r.key] # None
      /\ settled'.order = Store!UsedLast(r.key)
  BY <1>1, <1>2, <1>5 DEF ReadMoved, SettledKeys, PairsWithout, PairsTo, Store!UsedLast, Store!Stored
<1> HIDE DEF ca
<1>7. Store!Read(c)
  BY <1>5, <1>6 DEF Store!Read, ca
<1>8. Store!TakeEffect(c)
  BY <1>1, <1>5, <1>7 DEF Store!TakeEffect, ca
<1> QED
  BY <1>4, <1>8 DEF Store!Next

LEMMA WriteMovesStep ==
  ASSUME Inv, NEW c \in Callers, WriteMoves(c)
  PROVE  Inv' /\ Store!Next
PROOF
<1> DEFINE r == calls[c].req
           ca == [d \in Callers |-> CallInEffect(d)]
<1>1. /\ calls[c].pc = "moved" /\ r.op = "write"
      /\ Leave(c, None) /\ MoveToEnd(r.key) /\ UNCHANGED records
  BY DEF WriteMoves, Inside
<1>2. r \in Calls /\ InBody(c) /\ WriteAssigned(r.key, r.value)
  BY <1>1, MovedForms
<1>3. r.key \in Keys /\ r.value \in Values /\ r.value # None
  BY <1>1, <1>2, RequestForms, StoreAssumption
<1>4. settled.records \in [Keys -> Values \cup {None}]
  BY DEF Inv, TypeOK
<1>5. r.key \in Held /\ Held = SettledKeys \cup {r.key}
  BY <1>2, <1>3, <1>4 DEF WriteAssigned, Held, SettledKeys
<1>6. Inv'
  <2>1. DictionaryOK'
    BY <1>1, <1>5, InvDictionary, MoveKeepsType
  <2> QED
    BY <1>1, <1>2, <2>1, LeaveStep
<1>7. /\ Store!Answer(c, None) /\ ca[c] = [pc |-> "pending", req |-> r]
      /\ settled'.records = records' /\ settled'.order = order'
  BY <1>1, <1>2, LeaveAnswers
<1>8. settled'.records = [settled.records EXCEPT ![r.key] = r.value]
  BY <1>1, <1>2, <1>7 DEF WriteAssigned
<1>9. settled'.order = Store!UsedLast(r.key)
  <2>1. order' = PairsWithout(order, r.key) \cup PairsTo(Held, r.key)
    BY <1>1 DEF MoveToEnd, OrderWithout, AfterAll, PairsWithout, PairsTo
  <2>2. PairsTo(Held, r.key) = PairsTo(SettledKeys, r.key)
    BY <1>5 DEF PairsTo
  <2>3. PairsWithout(order, r.key) = PairsWithout(settled.order, r.key)
    BY <1>2 DEF WriteAssigned, PairsWithout, PairsTo
  <2>4. Store!UsedLast(r.key) = PairsWithout(settled.order, r.key) \cup PairsTo(SettledKeys, r.key)
    BY DEF Store!UsedLast, Store!Stored, SettledKeys, PairsWithout, PairsTo
  <2> QED
    BY <1>7, <2>1, <2>2, <2>3, <2>4
<1> HIDE DEF ca
<1>10. Store!Write(c)
  BY <1>7, <1>8, <1>9 DEF Store!Write, ca
<1>11. Store!TakeEffect(c)
  BY <1>1, <1>7, <1>10 DEF Store!TakeEffect, ca
<1> QED
  BY <1>6, <1>11 DEF Store!Next

\* The cardinality StateStore speaks of is the one known here.
LEMMA SameCardinality ==
  \A S : Store!Cardinality(S) = Cardinality(S)
PROOF
  BY DEF Cardinality, Store!Cardinality

\* What a trim has deleted when it returns is the excess of its family, oldest first.
LEMMA TrimReturnsStep ==
  ASSUME Inv, NEW c \in Callers, TrimReturns(c)
  PROVE  Inv' /\ Store!Next
PROOF
<1> DEFINE r == calls[c].req
           all == SettledKeys \cap Family[r.key]
           family == calls[c].family
           gone == all \ family
           ca == [d \in Callers |-> CallInEffect(d)]
<1>1. /\ calls[c].pc = "listed" /\ r.op = "trim" /\ Cardinality(family) <= r.limit
      /\ Leave(c, None) /\ UNCHANGED <<records, order>>
  BY DEF TrimReturns, Inside
<1>2. r \in Calls /\ r.limit \in Nat /\ InBody(c) /\ Trimmed(r.key, r.limit, family)
  BY <1>1, CallForms, RequestForms, StoreAssumption DEF Inv, InBody, Work
<1>3. Inv'
  <2>1. DictionaryOK'
    BY <1>1, InvDictionary DEF DictionaryOK, Held
  <2> QED
    BY <1>1, <1>2, <2>1, LeaveStep
<1>4. /\ Store!Answer(c, None) /\ ca[c] = [pc |-> "pending", req |-> r]
      /\ settled'.records = records' /\ settled'.order = order'
  BY <1>1, <1>2, LeaveAnswers
<1>5. /\ family \subseteq all
      /\ records = [k \in Keys |-> IF k \in gone THEN None ELSE settled.records[k]]
      /\ order = {pair \in settled.order : pair[1] \notin gone /\ pair[2] \notin gone}
      /\ \A k \in gone, j \in family : <<k, j>> \in settled.order
      /\ gone # {} => Cardinality(family) >= r.limit
  BY <1>2 DEF Trimmed
<1>6. all \ gone = family /\ gone \subseteq all /\ gone \in SUBSET Keys
  BY <1>5 DEF SettledKeys
<1>7. /\ IsFiniteSet(all) /\ IsFiniteSet(family)
      /\ Cardinality(all) \in Nat /\ Cardinality(family) \in Nat
      /\ Cardinality(family) <= Cardinality(all)
      /\ Cardinality(family) = Cardinality(all) => family = all
  <2>1. IsFiniteSet(all)
    BY FS_Subset DEF Inv
  <2> HIDE DEF all, family
  <2>2. /\ IsFiniteSet(family) /\ Cardinality(family) <= Cardinality(all)
        /\ Cardinality(all) = Cardinality(family) => all = family
    BY <1>5, <2>1, FS_Subset
  <2> QED
    BY <2>1, <2>2, FS_CardinalityType
<1> HIDE DEF all, family, gone
<1>8. IF Cardinality(all) <= r.limit THEN gone = {} ELSE Cardinality(all \ gone) = r.limit
  <2>1. CASE gone = {}
    <3>1. Cardinality(all) <= r.limit
      BY <1>1, <1>6, <2>1
    <3> QED
      BY <2>1, <3>1
  <2>2. CASE gone # {}
    <3>1. Cardinality(family) = r.limit
      BY <1>1, <1>2, <1>5, <1>7, <2>2
    <3>2. family # all
      BY <1>6, <2>2
    <3>3. Cardinality(all) > r.limit
      BY <1>2, <1>7, <3>1, <3>2
    <3> QED
      BY <1>2, <1>6, <1>7, <3>1, <3>3
  <2> QED
    BY <2>1, <2>2
<1>9. Store!Excess(all, r.limit, gone)
  BY <1>5, <1>6, <1>8, SameCardinality DEF Store!Excess
<1>10. all = Store!Stored \cap Family[ca[c].req.key] /\ ca[c].req.limit = r.limit
  BY <1>4 DEF all, SettledKeys, Store!Stored
<1> HIDE DEF ca
<1>11. /\ settled'.records = [k \in Keys |-> IF k \in gone THEN None ELSE settled.records[k]]
       /\ settled'.order = {pair \in settled.order : pair[1] \notin gone /\ pair[2] \notin gone}
  BY <1>1, <1>4, <1>5
<1>12. Store!Trim(c)
  BY <1>4, <1>6, <1>9, <1>10, <1>11 DEF Store!Trim, ca
<1>13. Store!TakeEffect(c)
  BY <1>1, <1>4, <1>12 DEF Store!TakeEffect, ca
<1> QED
  BY <1>3, <1>13 DEF Store!Next

-----------------------------------------------------------------------------
LEMMA InitInv ==
  ASSUME Init
  PROVE  Inv /\ Store!Init
PROOF
<1>1. Held = {} /\ SettledKeys = {}
  BY DEF Init, Held, SettledKeys
<1>2. TypeOK
  BY <1>1 DEF Init, TypeOK, CallStates, Idle
<1>3. \A c \in Callers : ~InBody(c) /\ lock # c /\ Work(c)
  BY StoreAssumption DEF Init, InBody, Idle, Work
<1>4. Inv
  BY <1>1, <1>2, <1>3, FS_EmptySet DEF Init, Inv, Untouched
<1>5. \A c \in Callers : CallInEffect(c) = Idle
  BY DEF Init, CallInEffect, Idle
<1>6. Store!Init
  BY <1>5 DEF Init, Store!Init, Store!Idle, Idle
<1> QED
  BY <1>4, <1>6

LEMMA StepInv ==
  ASSUME Inv, [Next]_vars
  PROVE  Inv' /\ [Store!Next]_Store!vars
PROOF
<1>1. ASSUME NEW c \in Callers, Body(c) PROVE Inv' /\ [Store!Next]_Store!vars
  BY <1>1, ReadMissesStep, ReadMovesStep, ReadReturnsStep, WriteAssignsStep, WriteMovesStep,
     TrimListsStep, TrimEvictsStep, TrimReturnsStep DEF Body
<1>2. ASSUME NEW c \in Callers, Enter(c) PROVE Inv' /\ [Store!Next]_Store!vars
  BY <1>2, EnterStep, EnterStutters
<1>3. ASSUME NEW c \in Callers, (\E request \in Calls : Begin(c, request)) \/ End(c)
      PROVE  Inv' /\ [Store!Next]_Store!vars
  BY <1>3, BeginStep, EndStep
<1>4. CASE UNCHANGED vars
  <2>1. Inv'
    <3>1. /\ Held' = Held /\ SettledKeys' = SettledKeys /\ (Untouched' <=> Untouched)
          /\ UNCHANGED <<records, order, lock, calls, settled>>
      BY <1>4 DEF vars, Held, SettledKeys, Untouched
    <3>2. TypeOK'
      BY <3>1 DEF Inv, TypeOK
    <3>3. \A c \in Callers : (InBody(c)' <=> InBody(c)) /\ (Work(c)' <=> Work(c))
      BY <3>1 DEF InBody, Work, ReadMoved, WriteAssigned, Trimmed
    <3> QED
      BY <3>1, <3>2, <3>3 DEF Inv
  <2>2. UNCHANGED Store!vars
    BY <1>4 DEF vars, Store!vars, CallInEffect
  <2> QED
    BY <2>1, <2>2
<1> QED
  BY <1>1, <1>2, <1>3, <1>4 DEF Next

\* In every state the keys of the dictionary stand in one line, and what the callers
\* hold is what their methods make them hold.
THEOREM MemoryTypeCorrect == Spec => []TypeOK
PROOF
<1>1. Init => Inv
  BY InitInv
<1>2. Inv /\ [Next]_vars => Inv'
  BY StepInv
<1>3. Inv => TypeOK
  BY DEF Inv
<1> QED
  BY <1>1, <1>2, <1>3, PTL DEF Spec

\* With its lock the in-memory store is linearizable for any number of threads, keys and
\* families: each read, write and trim is one step of the protocol's store.
THEOREM MemoryStoreImplements == Spec => ImplementsStateStore
PROOF
<1>1. Init => Inv /\ Store!Init
  BY InitInv
<1>2. Inv /\ [Next]_vars => Inv' /\ [Store!Next]_Store!vars
  BY StepInv
<1> QED
  BY <1>1, <1>2, PTL DEF Spec, ImplementsStateStore, Store!Spec

-----------------------------------------------------------------------------
(* What the promise of StateStore about a trim comes to: the keys it drops   *)
(* are decided by the order in which they were used.                         *)

SettledLine == InLine(SettledKeys, settled.order)

LEMMA SettledLineStep ==
  ASSUME Inv, SettledLine, Inv', [Next]_vars
  PROVE  SettledLine'
PROOF
<1>1. settled' = settled \/ Untouched'
  BY DEF Next, Begin, Enter, Body, End, ReadMisses, ReadMoves, ReadReturns, WriteAssigns,
         WriteMoves, TrimLists, TrimEvicts, TrimReturns, Leave, Untouched, vars
<1>2. CASE settled' = settled
  BY <1>2 DEF SettledLine, InLine, SettledKeys
<1>3. CASE Untouched'
  <2>1. SettledKeys' = Held' /\ (settled.order)' = order'
    BY <1>3 DEF Untouched, SettledKeys, Held
  <2>2. InLine(Held, order)'
    BY DEF Inv, TypeOK, InLine
  <2> QED
    BY <2>1, <2>2 DEF SettledLine
<1> QED
  BY <1>1, <1>2, <1>3

\* Of two parts of a finite set that are of one size neither is a proper part of the other.
LEMMA NoProperPart ==
  ASSUME NEW S, NEW A, NEW B, IsFiniteSet(S), A \subseteq S, B \subseteq S,
         Cardinality(A) = Cardinality(B), A \subseteq B
  PROVE  A = B
PROOF
<1>1. IsFiniteSet(B)
  BY FS_Subset
<1> QED
  BY <1>1, FS_Subset

\* Two ways of taking the excess from a family that stands in line are the same.
LEMMA ExcessIsUnique ==
  ASSUME NEW held, InLine(held, settled.order), IsFiniteSet(held),
         NEW family, family \subseteq held, NEW limit \in Nat,
         NEW d, NEW e,
         Store!Excess(family, limit, d), Store!Excess(family, limit, e)
  PROVE  d = e
PROOF
<1>1. IsFiniteSet(family)
  BY FS_Subset
<1>2. /\ d \subseteq family /\ e \subseteq family
      /\ \A k \in d, j \in family \ d : <<k, j>> \in settled.order
      /\ \A k \in e, j \in family \ e : <<k, j>> \in settled.order
  BY DEF Store!Excess
<1>3. CASE Cardinality(family) <= limit
  BY <1>3, SameCardinality DEF Store!Excess
<1>4. CASE ~(Cardinality(family) <= limit)
  <2>1. Cardinality(family \ d) = limit /\ Cardinality(family \ e) = limit
    BY <1>4, SameCardinality DEF Store!Excess
  <2>2. \A k \in d \ e, j \in e \ d : FALSE
    <3> SUFFICES ASSUME NEW k \in d \ e, NEW j \in e \ d PROVE FALSE
      OBVIOUS
    <3>1. <<k, j>> \in settled.order /\ <<j, k>> \in settled.order
      BY <1>2
    <3>2. k \in held /\ j \in held
      BY <1>2
    <3> QED
      BY <3>1, <3>2 DEF InLine
  <2>3. d \subseteq e \/ e \subseteq d
    BY <2>2
  <2>4. family \ d \subseteq family \ e \/ family \ e \subseteq family \ d
    BY <2>3
  <2>5. family \ d = family \ e
    BY <1>1, <2>1, <2>4, NoProperPart
  <2> QED
    BY <1>2, <2>5
<1> QED
  BY <1>3, <1>4

\* The key of a family that was used last is not in its excess.
LEMMA ExcessSparesLast ==
  ASSUME NEW held, InLine(held, settled.order), IsFiniteSet(held),
         NEW family, family \subseteq held, NEW limit \in Nat, limit # 0,
         NEW d, Store!Excess(family, limit, d),
         NEW k \in family, \A j \in family \ {k} : <<j, k>> \in settled.order
  PROVE  k \notin d
PROOF
<1> SUFFICES ASSUME k \in d PROVE FALSE
  OBVIOUS
<1>1. d # {} /\ Cardinality(family \ d) = limit
  BY SameCardinality DEF Store!Excess
<1>2. family \ d # {}
  BY <1>1, FS_EmptySet
<1>3. PICK j \in family \ d : TRUE
  BY <1>2
<1>4. <<k, j>> \in settled.order /\ <<j, k>> \in settled.order
  BY <1>3 DEF Store!Excess
<1> QED
  BY <1>3, <1>4 DEF InLine

\* Two trims of a family at one moment drop the same, and not the key used last.
TrimsDecided(family, limit) ==
  /\ \A d, e \in SUBSET Keys :
       Store!Excess(family, limit, d) /\ Store!Excess(family, limit, e) => d = e
  /\ \A d \in SUBSET Keys, k \in family :
       /\ limit # 0 /\ Store!Excess(family, limit, d)
       /\ \A j \in family \ {k} : <<j, k>> \in settled.order
       => k \notin d

\* Which keys a trim drops is decided by the order of their use, whatever the family and
\* the limit; and with a limit that is not zero the key that was used last, by whatever
\* thread, is not among them (trim: "least recently used").
THEOREM TrimIsDecidedByUse ==
  Spec => [](\A p \in Prefixes, limit \in Limits :
               TrimsDecided(SettledKeys \cap Family[p], limit))
PROOF
<1> DEFINE Decided == \A p \in Prefixes, limit \in Limits :
                        TrimsDecided(SettledKeys \cap Family[p], limit)
<1>1. Init => Inv /\ SettledLine
  <2> SUFFICES ASSUME Init PROVE Inv /\ SettledLine
    OBVIOUS
  <2>1. SettledKeys = {} /\ settled.order = {}
    BY DEF Init, SettledKeys
  <2> QED
    BY <2>1, InitInv DEF SettledLine, InLine
<1>2. Inv /\ SettledLine /\ [Next]_vars => (Inv /\ SettledLine)'
  BY StepInv, SettledLineStep
<1>3. Inv /\ SettledLine => Decided
  <2> SUFFICES ASSUME Inv, SettledLine, NEW p \in Prefixes, NEW limit \in Limits
               PROVE  TrimsDecided(SettledKeys \cap Family[p], limit)
    OBVIOUS
  <2>1. limit \in Nat /\ IsFiniteSet(SettledKeys) /\ InLine(SettledKeys, settled.order)
    BY StoreAssumption DEF Inv, SettledLine
  <2> QED
    BY <2>1, ExcessIsUnique, ExcessSparesLast DEF TrimsDecided
<1> QED
  BY <1>1, <1>2, <1>3, PTL DEF Spec

=============================================================================
