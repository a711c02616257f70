------------------------- MODULE CapacityDriver_proofs -------------------------
(***************************************************************************)
(* Proofs about CapacityDriver, for any list of levels: the types, and the *)
(* three safety properties of its results.  What a worker and its call may *)
(* do by the phase of the main thread is Phases; the counters are tied to  *)
(* the workers that have counted by CountInv, and the results to the       *)
(* counters by ResultInv.                                                  *)
(***************************************************************************)
EXTENDS CapacityDriver, FiniteSetTheorems, TLAPS

WorkerStates == {"new", "started", "barrier", "released", "waiting",
                 "finished", "timed_out", "counted", "died"}
CallStates == {"none", "running", "returned", "raised"}
Before == {"new", "started", "barrier"}
InCall == {"waiting", "finished", "timed_out", "counted"}
Over == {"counted", "died"}

Types ==
  /\ main \in [pc : {"starting", "barrier", "joining", "returned", "raised"},
               level : Nat, at : Nat]
  /\ main.pc # "returned" => main.level \in DOMAIN Levels /\ Current \in Workers
  /\ worker \in [Workers -> WorkerStates]
  /\ call \in [Workers -> CallStates]
  /\ counts \in [DOMAIN Levels -> Counters]
  /\ results \in Seq(Counters)
  /\ late \subseteq Workers

\* The levels that have not been released, and the workers main has joined.
Gathering(l) ==
  \/ main.pc # "returned" /\ l > main.level
  \/ main.pc \in {"starting", "barrier", "raised"} /\ l = main.level

Joined(w) ==
  \/ main.pc = "returned"
  \/ LevelOf(w) < main.level
  \/ main.pc = "joining" /\ LevelOf(w) = main.level /\ w[2] < main.at

Phases ==
  /\ \A w \in Workers : IF Gathering(LevelOf(w)) THEN worker[w] \in Before
                                                 ELSE worker[w] \notin Before
  /\ \A w \in Workers : call[w] # "none" <=> worker[w] \in InCall
  /\ \A w \in Workers : worker[w] = "finished" => Done(w)
  /\ \A w \in Workers : Joined(w) /\ w \notin late => worker[w] \in Over
  /\ Len(results) = IF main.pc = "returned" THEN Len(Levels) ELSE main.level - 1

In(l, states) == {w \in Crew(l) : worker[w] \in states}
DoneCrew(l) == {w \in Crew(l) : Done(w)}

\* The calls of a level that were counted, or are about to be, as completed.
Settled(l) == {w \in Crew(l) : Done(w) /\ worker[w] \in {"finished", "counted"}}

CountInv ==
  \A l \in DOMAIN Levels :
    /\ Total(counts[l]) = Cardinality(In(l, {"counted"}))
    /\ counts[l].completed + Cardinality(In(l, {"finished"})) <= Cardinality(Settled(l))

ResultInv ==
  \A l \in DOMAIN results :
    /\ results[l].completed <= counts[l].completed
    /\ Crew(l) \cap late = {} => results[l] = counts[l]

Inv == Types /\ Phases /\ CountInv /\ ResultInv

-----------------------------------------------------------------------------
(* The crew of a level.                                                      *)

LEMMA LevelType == ASSUME NEW l \in DOMAIN Levels PROVE Levels[l] \in Nat /\ Levels[l] # 0
  BY LevelsAssumption

LEMMA WorkerShape ==
  ASSUME NEW w \in Workers
  PROVE  /\ LevelOf(w) \in DOMAIN Levels
         /\ w[2] \in 1..Levels[LevelOf(w)]
         /\ w = <<LevelOf(w), w[2]>>
  BY DEF Workers, LevelOf

LEMMA WorkerOf ==
  ASSUME NEW l \in DOMAIN Levels, NEW i \in 1..Levels[l]
  PROVE  <<l, i>> \in Workers /\ LevelOf(<<l, i>>) = l
  BY DEF Workers, LevelOf

LEMMA CrewSize ==
  ASSUME NEW l \in DOMAIN Levels
  PROVE  IsFiniteSet(Crew(l)) /\ Cardinality(Crew(l)) = Levels[l]
<1> DEFINE f == [i \in 1..Levels[l] |-> <<l, i>>]
<1>1. Levels[l] \in Nat
  BY LevelType
<1>2. f \in [1..Levels[l] -> Crew(l)]
  BY WorkerOf DEF Crew
<1>3. \A w \in Crew(l) : \E i \in 1..Levels[l] : f[i] = w
  <2> SUFFICES ASSUME NEW w \in Crew(l) PROVE \E i \in 1..Levels[l] : f[i] = w
    OBVIOUS
  <2>1. w \in Workers /\ LevelOf(w) = l
    BY DEF Crew
  <2>2. w[2] \in 1..Levels[l] /\ w = <<l, w[2]>>
    BY <2>1, WorkerShape
  <2> QED
    BY <2>2
<1>4. \A i, j \in 1..Levels[l] : f[i] = f[j] => i = j
  OBVIOUS
<1>5. ExistsBijection(1..Levels[l], Crew(l))
  BY <1>2, <1>3, <1>4 DEF ExistsBijection, Bijection, Injection, IsInjective, Surjection
<1>6. IsFiniteSet(1..Levels[l]) /\ Cardinality(1..Levels[l]) = Levels[l]
  BY <1>1, FS_Interval
<1> QED
  BY <1>1, <1>5, <1>6, FS_Bijection, FS_CountingElements

\* A part of a crew is finite and no larger than the crew.
LEMMA PartOfCrew ==
  ASSUME NEW l \in DOMAIN Levels, NEW S \in SUBSET Crew(l)
  PROVE  /\ IsFiniteSet(S)
         /\ Cardinality(S) \in Nat
         /\ Cardinality(S) <= Levels[l]
         /\ Cardinality(S) = Levels[l] => S = Crew(l)
  BY CrewSize, FS_Subset, FS_CardinalityType

-----------------------------------------------------------------------------
(* The counters and the results, by what a step leaves alone.                *)

LEMMA CountFrame ==
  ASSUME CountInv, counts' = counts,
         \A w \in Workers :
           /\ worker'[w] = "counted" <=> worker[w] = "counted"
           /\ worker'[w] = "finished" <=> worker[w] = "finished"
           /\ worker[w] \in {"finished", "counted"} => call'[w] = call[w]
  PROVE  CountInv'
<1> SUFFICES ASSUME NEW l \in DOMAIN Levels
             PROVE  /\ In(l, {"counted"})' = In(l, {"counted"})
                    /\ In(l, {"finished"})' = In(l, {"finished"})
                    /\ Settled(l)' = Settled(l)
  BY DEF CountInv
<1>1. Crew(l)' = Crew(l) /\ Crew(l) \subseteq Workers
  BY DEF Crew
<1>2. In(l, {"counted"})' = In(l, {"counted"})
  BY <1>1 DEF In
<1>3. In(l, {"finished"})' = In(l, {"finished"})
  BY <1>1 DEF In
<1>4. Settled(l)' = Settled(l)
  BY <1>1 DEF Settled, Done
<1> QED
  BY <1>2, <1>3, <1>4

LEMMA ResultFrame ==
  ASSUME ResultInv, UNCHANGED <<counts, results, late>>
  PROVE  ResultInv'
  BY DEF ResultInv, Crew

-----------------------------------------------------------------------------
(* Initially.                                                                *)

LEMMA InvInit == Init => Inv
<1> SUFFICES ASSUME Init PROVE Inv
  OBVIOUS
<1>1. DOMAIN Levels = 1..Len(Levels) /\ Len(Levels) \in Nat /\ (Len(Levels) = 0 <=> Levels = <<>>)
  BY LevelsAssumption
<1>2. Types
  <2>1. Levels # <<>> => 1 \in DOMAIN Levels /\ 1 \in 1..Levels[1]
    BY <1>1, LevelType
  <2>2. main.pc # "returned" => main.level \in DOMAIN Levels /\ Current \in Workers
    BY <2>1, WorkerOf DEF Init, Current
  <2> QED
    BY <2>2 DEF Init, Types, WorkerStates, CallStates, Counters
<1>3. Phases
  <2>1. \A w \in Workers : Gathering(LevelOf(w))
    BY <1>1, WorkerShape DEF Init, Gathering
  <2>2. \A w \in Workers : ~Joined(w)
    BY <1>1, WorkerShape DEF Init, Joined
  <2>3. Len(results) = IF main.pc = "returned" THEN Len(Levels) ELSE main.level - 1
    BY <1>1 DEF Init
  <2> QED
    BY <2>1, <2>2, <2>3 DEF Init, Phases, Before, InCall
<1>4. CountInv
  <2> SUFFICES ASSUME NEW l \in DOMAIN Levels
               PROVE  /\ Total(counts[l]) = Cardinality(In(l, {"counted"}))
                      /\ counts[l].completed + Cardinality(In(l, {"finished"}))
                           <= Cardinality(Settled(l))
    BY DEF CountInv
  <2>1. In(l, {"counted"}) = {} /\ In(l, {"finished"}) = {} /\ Settled(l) = {}
    BY DEF Init, In, Settled, Crew
  <2>2. Cardinality({}) = 0
    BY FS_EmptySet
  <2>3. counts[l] = [completed |-> 0, timed_out |-> 0]
    BY DEF Init
  <2> QED
    BY <2>1, <2>2, <2>3 DEF Total
<1>5. ResultInv
  BY DEF Init, ResultInv
<1> QED
  BY <1>2, <1>3, <1>4, <1>5 DEF Inv

-----------------------------------------------------------------------------
(* The steps of the main thread.                                             *)

LEMMA MainShape ==
  ASSUME Inv, main.pc # "returned"
  PROVE  /\ DOMAIN Levels = 1..Len(Levels) /\ Len(Levels) \in Nat
         /\ main.level \in DOMAIN Levels /\ main.level \in Nat /\ main.at \in Nat
         /\ main.at \in 1..Levels[main.level] /\ Levels[main.level] \in Nat
         /\ Current \in Workers /\ LevelOf(Current) = main.level
         /\ Current[2] = main.at
<1>1. Current \in Workers /\ main.level \in DOMAIN Levels
  BY DEF Inv, Types
<1>2. LevelOf(Current) = main.level /\ Current[2] = main.at
  BY DEF Current, LevelOf
<1> QED
  BY <1>1, <1>2, WorkerShape, LevelType, LevelsAssumption DEF Inv, Types

LEMMA StepStartWorker == Inv /\ StartWorker => Inv'
<1> SUFFICES ASSUME Inv, StartWorker PROVE Inv'
  OBVIOUS
<1>1. main.pc = "starting" /\ main \in [pc : {"starting", "barrier", "joining", "returned", "raised"},
                                       level : Nat, at : Nat]
  BY DEF StartWorker, Inv, Types
<1>2. /\ main'.pc \in {"starting", "barrier"} /\ main'.level = main.level
      /\ main'.at \in 1..Levels[main.level]
      /\ main' \in [pc : {"starting", "barrier", "joining", "returned", "raised"},
                    level : Nat, at : Nat]
  BY <1>1, MainShape DEF StartWorker
<1>3. UNCHANGED <<call, counts, results, late>>
  BY DEF StartWorker
<1>4. worker' = [worker EXCEPT ![Current] = "started"]
  BY DEF StartWorker
<1>5. /\ worker' \in [Workers -> WorkerStates] /\ worker'[Current] = "started"
      /\ \A w \in Workers \ {Current} : worker'[w] = worker[w]
  BY <1>1, <1>4, MainShape DEF Inv, Types, WorkerStates
<1>6. Gathering(main.level) /\ worker[Current] \in Before
  BY <1>1, MainShape DEF Gathering, Inv, Phases
<1>7. Types'
  BY <1>1, <1>2, <1>3, <1>5, MainShape, WorkerOf DEF Inv, Types, Current
<1>8. Phases'
  <2>1. \A l : Gathering(l)' <=> Gathering(l)
    BY <1>1, <1>2 DEF Gathering
  <2>2. \A w \in Workers : Joined(w)' <=> Joined(w)
    BY <1>1, <1>2 DEF Joined
  <2>3. \A w \in Workers : IF Gathering(LevelOf(w))' THEN worker'[w] \in Before
                                                     ELSE worker'[w] \notin Before
    BY <1>1, <1>5, <1>6, <2>1, MainShape DEF Inv, Phases, Before
  <2>4. \A w \in Workers : call'[w] # "none" <=> worker'[w] \in InCall
    BY <1>3, <1>5, <1>6 DEF Inv, Phases, Before, InCall
  <2>5. \A w \in Workers : worker'[w] = "finished" => Done(w)'
    BY <1>3, <1>5 DEF Inv, Phases, Done
  <2>6. \A w \in Workers : Joined(w)' /\ w \notin late' => worker'[w] \in Over
    BY <1>3, <1>5, <1>6, <2>2 DEF Inv, Phases, Before, Over
  <2>7. Len(results') = IF main'.pc = "returned" THEN Len(Levels) ELSE main'.level - 1
    BY <1>1, <1>2, <1>3 DEF Inv, Phases
  <2> QED
    BY <2>3, <2>4, <2>5, <2>6, <2>7 DEF Phases
<1>9. CountInv'
  BY <1>3, <1>5, <1>6, CountFrame DEF Inv, Before
<1>10. ResultInv'
  BY <1>3, ResultFrame DEF Inv
<1> QED
  BY <1>7, <1>8, <1>9, <1>10 DEF Inv

LEMMA StepStartWorkerFails == Inv /\ StartWorkerFails => Inv'
<1> SUFFICES ASSUME Inv, StartWorkerFails PROVE Inv'
  OBVIOUS
<1>1. /\ main.pc = "starting"
      /\ main \in [pc : {"starting", "barrier", "joining", "returned", "raised"},
                   level : Nat, at : Nat]
      /\ main'.pc = "raised" /\ main'.level = main.level /\ main'.at = main.at
      /\ main' \in [pc : {"starting", "barrier", "joining", "returned", "raised"},
                    level : Nat, at : Nat]
      /\ UNCHANGED <<worker, call, counts, results, late>>
  BY DEF StartWorkerFails, Inv, Types
<1>2. Types'
  BY <1>1 DEF Inv, Types, Current
<1>3. Phases'
  <2>1. \A l : Gathering(l)' <=> Gathering(l)
    BY <1>1 DEF Gathering
  <2>2. \A w \in Workers : Joined(w)' <=> Joined(w)
    BY <1>1 DEF Joined
  <2> QED
    BY <1>1, <2>1, <2>2 DEF Inv, Phases, Done
<1>4. CountInv'
  BY <1>1, CountFrame DEF Inv
<1>5. ResultInv'
  BY <1>1, ResultFrame DEF Inv
<1> QED
  BY <1>2, <1>3, <1>4, <1>5 DEF Inv

LEMMA StepBarrierTrips == Inv /\ BarrierTrips => Inv'
<1> SUFFICES ASSUME Inv, BarrierTrips PROVE Inv'
  OBVIOUS
<1>1. /\ main.pc = "barrier"
      /\ main \in [pc : {"starting", "barrier", "joining", "returned", "raised"},
                   level : Nat, at : Nat]
      /\ main'.pc = "joining" /\ main'.level = main.level /\ main'.at = 1
      /\ main' \in [pc : {"starting", "barrier", "joining", "returned", "raised"},
                    level : Nat, at : Nat]
      /\ UNCHANGED <<call, counts, results, late>>
  BY DEF BarrierTrips, Released, Inv, Types
<1>2. AtBarrier = Crew(main.level)
  <2>1. AtBarrier \in SUBSET Crew(main.level)
    BY DEF AtBarrier
  <2>2. Cardinality(AtBarrier) + 1 = Levels[main.level] + 1
    BY DEF BarrierTrips
  <2>3. Cardinality(AtBarrier) = Levels[main.level]
    BY <1>1, <2>1, <2>2, MainShape, PartOfCrew
  <2> QED
    BY <1>1, <2>1, <2>3, MainShape, PartOfCrew
<1>3. \A w \in Crew(main.level) : worker[w] = "barrier"
  BY <1>2 DEF AtBarrier
<1>4. worker' = [w \in Workers |-> IF w \in Crew(main.level) THEN "released" ELSE worker[w]]
  BY <1>2 DEF BarrierTrips, Released
<1>5. \A w \in Workers : worker'[w] = IF LevelOf(w) = main.level THEN "released" ELSE worker[w]
  BY <1>4 DEF Crew
<1>6. \A w \in Workers : LevelOf(w) = main.level => worker[w] = "barrier"
  BY <1>3 DEF Crew
<1>7. Types'
  <2>1. worker' \in [Workers -> WorkerStates]
    BY <1>4 DEF Inv, Types, WorkerStates
  <2>2. <<main.level, 1>> \in Workers
    BY <1>1, MainShape, WorkerOf
  <2> QED
    BY <1>1, <2>1, <2>2 DEF Inv, Types, Current
<1>8. Phases'
  <2>1. \A w \in Workers : Gathering(LevelOf(w))' <=> Gathering(LevelOf(w)) /\ LevelOf(w) # main.level
    BY <1>1, MainShape, WorkerShape DEF Gathering
  <2>2. \A w \in Workers : Joined(w)' <=> Joined(w)
    BY <1>1, MainShape, WorkerShape DEF Joined
  <2>3. \A w \in Workers : Joined(w) => LevelOf(w) # main.level
    BY <1>1, MainShape DEF Joined
  <2>4. \A w \in Workers : IF Gathering(LevelOf(w))' THEN worker'[w] \in Before
                                                     ELSE worker'[w] \notin Before
    BY <1>5, <2>1 DEF Inv, Phases, Before
  <2>5. \A w \in Workers : call'[w] # "none" <=> worker'[w] \in InCall
    BY <1>1, <1>5, <1>6 DEF Inv, Phases, InCall
  <2>6. \A w \in Workers : worker'[w] = "finished" => Done(w)'
    BY <1>1, <1>5 DEF Inv, Phases, Done
  <2>7. \A w \in Workers : Joined(w)' /\ w \notin late' => worker'[w] \in Over
    BY <1>1, <1>5, <2>2, <2>3 DEF Inv, Phases
  <2>8. Len(results') = IF main'.pc = "returned" THEN Len(Levels) ELSE main'.level - 1
    BY <1>1 DEF Inv, Phases
  <2> QED
    BY <2>4, <2>5, <2>6, <2>7, <2>8 DEF Phases
<1>9. CountInv'
  BY <1>1, <1>5, <1>6, CountFrame DEF Inv
<1>10. ResultInv'
  BY <1>1, ResultFrame DEF Inv
<1> QED
  BY <1>7, <1>8, <1>9, <1>10 DEF Inv

LEMMA StepJoin == Inv /\ Join => Inv'
<1> SUFFICES ASSUME Inv, Join PROVE Inv'
  OBVIOUS
<1>1. /\ main.pc = "joining"
      /\ main \in [pc : {"starting", "barrier", "joining", "returned", "raised"},
                   level : Nat, at : Nat]
      /\ UNCHANGED <<worker, call, counts>>
      /\ counts \in [DOMAIN Levels -> Counters]
  BY DEF Join, Inv, Types
<1>2. /\ late \subseteq late' /\ late' \subseteq Workers
      /\ Current \in late' \/ worker[Current] \in Over
  BY <1>1, MainShape DEF Join, Inv, Types, Over
<1>3. CountInv'
  BY <1>1, CountFrame DEF Inv
<1>4. results \in Seq(Counters) /\ Len(results) = main.level - 1
  BY <1>1 DEF Inv, Types, Phases
<1>5. CASE main.at < Levels[main.level]
  <2>1. /\ main'.pc = "joining" /\ main'.level = main.level /\ main'.at = main.at + 1
        /\ main' \in [pc : {"starting", "barrier", "joining", "returned", "raised"},
                      level : Nat, at : Nat]
        /\ results' = results
    BY <1>1, <1>5 DEF Join
  <2>2. Types'
    <3>1. <<main.level, main.at + 1>> \in Workers
      BY <1>1, <1>5, MainShape, WorkerOf
    <3> QED
      BY <1>1, <1>2, <2>1, <3>1 DEF Inv, Types, Current
  <2>3. Phases'
    <3>1. \A l : Gathering(l)' <=> Gathering(l)
      BY <1>1, <2>1 DEF Gathering
    <3>2. \A w \in Workers : Joined(w)' => Joined(w) \/ w = Current
      BY <1>1, <2>1, MainShape, WorkerShape DEF Joined, Current
    <3> QED
      BY <1>1, <1>2, <2>1, <3>1, <3>2 DEF Inv, Phases, Done
  <2>4. ResultInv'
    <3>1. \A l : Crew(l)' = Crew(l) /\ (Crew(l) \cap late' = {} => Crew(l) \cap late = {})
      BY <1>2 DEF Crew
    <3> QED
      BY <1>1, <2>1, <3>1 DEF Inv, ResultInv
  <2> QED
    BY <1>3, <2>2, <2>3, <2>4 DEF Inv
<1>6. CASE ~(main.at < Levels[main.level])
  <2>1. results' = Append(results, counts[main.level])
    BY <1>6 DEF Join
  <2>2. /\ main'.pc = IF main.level = Len(Levels) THEN "returned" ELSE "starting"
        /\ main'.level = IF main.level = Len(Levels) THEN main.level ELSE main.level + 1
        /\ main' \in [pc : {"starting", "barrier", "joining", "returned", "raised"},
                      level : Nat, at : Nat]
        /\ main.level # Len(Levels) => main'.at = 1
    BY <1>1, <1>6 DEF Join
  <2>3. counts[main.level] \in Counters
    BY <1>1, MainShape
  <2>4. /\ results' \in Seq(Counters) /\ Len(results') = main.level
        /\ results'[main.level] = counts[main.level]
        /\ \A l \in 1..main.level - 1 : results'[l] = results[l]
    BY <1>1, <1>4, <2>1, <2>3, MainShape
  <2>5. Types'
    <3>1. ASSUME main.level # Len(Levels)
          PROVE  main.level + 1 \in DOMAIN Levels /\ <<main.level + 1, 1>> \in Workers
      <4>1. main.level + 1 \in DOMAIN Levels
        BY <1>1, <3>1, MainShape
      <4> QED
        BY <4>1, LevelType, WorkerOf
    <3> QED
      BY <1>1, <1>2, <2>2, <2>4, <3>1 DEF Inv, Types, Current
  <2>6. Phases'
    <3>1. \A w \in Workers : Gathering(LevelOf(w))' <=> Gathering(LevelOf(w))
      BY <1>1, <2>2, MainShape, WorkerShape DEF Gathering
    <3>2. \A w \in Workers : Joined(w)' => Joined(w) \/ w = Current
          \/ (main'.pc = "starting" /\ LevelOf(w) > main.level)
          \/ (main'.pc = "returned" /\ LevelOf(w) > main.level)
      BY <1>1, <1>6, <2>2, MainShape, WorkerShape DEF Joined, Current
    <3>3. \A w \in Workers : Joined(w)' => Joined(w) \/ w = Current
      BY <1>1, <2>2, <3>2, MainShape, WorkerShape DEF Joined
    <3>4. Len(results') = IF main'.pc = "returned" THEN Len(Levels) ELSE main'.level - 1
      BY <1>1, <2>2, <2>4, MainShape
    <3> QED
      BY <1>1, <1>2, <3>1, <3>3, <3>4 DEF Inv, Phases, Done
  <2>7. ResultInv'
    <3> SUFFICES ASSUME NEW l \in DOMAIN results'
                 PROVE  /\ results'[l].completed <= counts[l].completed
                        /\ Crew(l) \cap late' = {} => results'[l] = counts[l]
      BY <1>1 DEF ResultInv, Crew
    <3>1. l \in 1..main.level
      BY <2>4
    <3>2. CASE l = main.level
      BY <2>3, <2>4, <3>2 DEF Counters
    <3>3. CASE l # main.level
      <4>1. l \in DOMAIN results /\ results'[l] = results[l]
        BY <1>1, <1>4, <2>4, <3>1, <3>3, MainShape
      <4>2. Crew(l) \cap late' = {} => Crew(l) \cap late = {}
        BY <1>2
      <4> QED
        BY <4>1, <4>2 DEF Inv, ResultInv
    <3> QED
      BY <3>2, <3>3
  <2> QED
    BY <1>3, <2>5, <2>6, <2>7 DEF Inv
<1> QED
  BY <1>5, <1>6

-----------------------------------------------------------------------------
(* The steps of a worker and of its call.                                    *)

LEMMA WorkerFrame ==
  ASSUME Inv, NEW w \in Workers, NEW s \in WorkerStates,
         UNCHANGED <<main, results, late>>,
         worker' = [worker EXCEPT ![w] = s],
         call' \in [Workers -> CallStates],
         \A v \in Workers \ {w} : call'[v] = call[v],
         s \in Before <=> worker[w] \in Before,
         call'[w] # "none" <=> s \in InCall,
         s = "finished" => Done(w)',
         worker[w] \notin Over
  PROVE  /\ Phases'
         /\ worker' \in [Workers -> WorkerStates]
         /\ worker'[w] = s /\ \A v \in Workers \ {w} : worker'[v] = worker[v]
<1>1. /\ worker' \in [Workers -> WorkerStates]
      /\ worker'[w] = s /\ \A v \in Workers \ {w} : worker'[v] = worker[v]
  BY DEF Inv, Types
<1>2. /\ \A l : Gathering(l)' <=> Gathering(l)
      /\ \A v \in Workers : Joined(v)' <=> Joined(v)
  BY DEF Gathering, Joined
<1>3. \A v \in Workers : IF Gathering(LevelOf(v))' THEN worker'[v] \in Before
                                                   ELSE worker'[v] \notin Before
  BY <1>1, <1>2 DEF Inv, Phases
<1>4. \A v \in Workers : call'[v] # "none" <=> worker'[v] \in InCall
  BY <1>1 DEF Inv, Phases
<1>5. \A v \in Workers : worker'[v] = "finished" => Done(v)'
  BY <1>1 DEF Inv, Phases, Done
<1>6. \A v \in Workers : Joined(v)' /\ v \notin late' => worker'[v] \in Over
  BY <1>1, <1>2 DEF Inv, Phases
<1>7. Len(results') = IF main'.pc = "returned" THEN Len(Levels) ELSE main'.level - 1
  BY DEF Inv, Phases
<1> QED
  BY <1>1, <1>3, <1>4, <1>5, <1>6, <1>7 DEF Phases

LEMMA TypesFrame ==
  ASSUME Inv, UNCHANGED <<main, results, late>>,
         worker' \in [Workers -> WorkerStates], call' \in [Workers -> CallStates],
         counts' \in [DOMAIN Levels -> Counters]
  PROVE  Types'
  BY DEF Inv, Types, Current

\* The steps of a worker that leave the counters and the outcome of its call alone.
LEMMA StepWorkerQuiet ==
  ASSUME Inv, NEW w \in Workers,
         ReachBarrier(w) \/ StartCall(w) \/ StartCallFails(w) \/ CallTimesOut(w)
  PROVE  Inv'
<1>1. PICK s \in {"barrier", "waiting", "died", "timed_out"} :
        /\ worker' = [worker EXCEPT ![w] = s]
        /\ call' = IF s = "waiting" THEN [call EXCEPT ![w] = "running"] ELSE call
        /\ worker[w] = CASE s = "barrier" -> "started" [] s = "waiting" -> "released"
                        [] s = "died" -> "released" [] s = "timed_out" -> "waiting"
        /\ UNCHANGED <<main, counts, results, late>>
  BY DEF ReachBarrier, StartCall, StartCallFails, CallTimesOut
<1>2. /\ call' \in [Workers -> CallStates]
      /\ \A v \in Workers \ {w} : call'[v] = call[v]
      /\ call'[w] = IF s = "waiting" THEN "running" ELSE call[w]
  BY <1>1 DEF Inv, Types, CallStates
<1>3. call[w] # "none" <=> worker[w] \in InCall
  BY DEF Inv, Phases
<1>4. /\ s \in WorkerStates
      /\ s \in Before <=> worker[w] \in Before
      /\ worker[w] \notin Over /\ s # "finished"
      /\ worker[w] \notin {"finished", "counted"} /\ s \notin {"finished", "counted"}
  BY <1>1 DEF WorkerStates, Before, Over
<1>5. call'[w] # "none" <=> s \in InCall
  BY <1>1, <1>2, <1>3 DEF InCall
<1>6. /\ Phases'
      /\ worker' \in [Workers -> WorkerStates]
      /\ worker'[w] = s /\ \A v \in Workers \ {w} : worker'[v] = worker[v]
  BY <1>1, <1>2, <1>4, <1>5, WorkerFrame
<1>7. Types'
  BY <1>1, <1>2, <1>6, TypesFrame DEF Inv, Types
<1>8. CountInv'
  BY <1>1, <1>2, <1>4, <1>6, CountFrame DEF Inv
<1>9. ResultInv'
  BY <1>1, ResultFrame DEF Inv
<1> QED
  BY <1>6, <1>7, <1>8, <1>9 DEF Inv

\* Joining the set of a crew's workers by one, and growing it.
LEMMA OneMore ==
  ASSUME NEW l \in DOMAIN Levels, NEW S \in SUBSET Crew(l), NEW w \in Crew(l), w \notin S
  PROVE  Cardinality(S \cup {w}) = Cardinality(S) + 1
  BY PartOfCrew, FS_AddElement

LEMMA OneLess ==
  ASSUME NEW l \in DOMAIN Levels, NEW S \in SUBSET Crew(l), NEW w \in S
  PROVE  Cardinality(S \ {w}) = Cardinality(S) - 1
  BY PartOfCrew, FS_RemoveElement

LEMMA NoFewer ==
  ASSUME NEW l \in DOMAIN Levels, NEW S \in SUBSET Crew(l), NEW T \in SUBSET S
  PROVE  Cardinality(T) <= Cardinality(S)
  BY PartOfCrew, FS_Subset

LEMMA CallFinishedCounts ==
  ASSUME Inv, NEW w \in Workers, CallFinished(w)
  PROVE  CountInv'
<1>1. /\ worker[w] = "waiting" /\ Done(w)
      /\ UNCHANGED <<main, call, counts, results, late>>
  BY DEF CallFinished
<1>2. /\ worker'[w] = "finished" /\ \A v \in Workers \ {w} : worker'[v] = worker[v]
  BY DEF CallFinished, Inv, Types
<1> SUFFICES ASSUME NEW l \in DOMAIN Levels
             PROVE  /\ Total(counts[l]) = Cardinality(In(l, {"counted"})')
                    /\ counts[l].completed + Cardinality(In(l, {"finished"})')
                          <= Cardinality(Settled(l)')
  BY <1>1 DEF CountInv
<1>3. /\ In(l, {"finished"}) \in SUBSET Crew(l) /\ Settled(l) \in SUBSET Crew(l)
      /\ counts[l] \in Counters
      /\ Total(counts[l]) = Cardinality(In(l, {"counted"}))
      /\ counts[l].completed + Cardinality(In(l, {"finished"})) <= Cardinality(Settled(l))
  BY DEF In, Settled, Inv, Types, CountInv
<1>4. In(l, {"counted"})' = In(l, {"counted"})
  BY <1>1, <1>2 DEF In, Crew
<1>5. CASE LevelOf(w) = l
  <2>1. w \in Crew(l) /\ w \notin In(l, {"finished"}) /\ w \notin Settled(l)
    BY <1>1, <1>5 DEF Crew, In, Settled
  <2>2. In(l, {"finished"})' = In(l, {"finished"}) \cup {w}
    BY <1>2, <2>1 DEF In, Crew
  <2>3. Settled(l)' = Settled(l) \cup {w}
    BY <1>1, <1>2, <2>1 DEF Settled, Crew, Done
  <2>4. /\ Cardinality(In(l, {"finished"})') = Cardinality(In(l, {"finished"})) + 1
        /\ Cardinality(Settled(l)') = Cardinality(Settled(l)) + 1
    BY <1>3, <2>1, <2>2, <2>3, OneMore
  <2>5. Cardinality(In(l, {"finished"})) \in Nat /\ Cardinality(Settled(l)) \in Nat
    BY <1>3, PartOfCrew
  <2> QED
    BY <1>3, <1>4, <2>4, <2>5 DEF Counters
<1>6. CASE LevelOf(w) # l
  <2>1. In(l, {"finished"})' = In(l, {"finished"})
    BY <1>2, <1>6 DEF In, Crew
  <2>2. Settled(l)' = Settled(l)
    BY <1>1, <1>2, <1>6 DEF Settled, Crew, Done
  <2> QED
    BY <1>3, <1>4, <2>1, <2>2
<1> QED
  BY <1>5, <1>6

LEMMA StepCallFinished ==
  ASSUME Inv, NEW w \in Workers, CallFinished(w)
  PROVE  Inv'
<1>1. /\ worker' = [worker EXCEPT ![w] = "finished"] /\ worker[w] = "waiting" /\ Done(w)
      /\ UNCHANGED <<main, call, counts, results, late>>
  BY DEF CallFinished
<1>2. call' \in [Workers -> CallStates] /\ call[w] # "none" /\ Done(w)'
  BY <1>1 DEF Inv, Types, Phases, InCall, Done
<1>3. Phases' /\ worker' \in [Workers -> WorkerStates]
  BY <1>1, <1>2, WorkerFrame DEF WorkerStates, Before, InCall, Over
<1>4. Types'
  BY <1>1, <1>2, <1>3, TypesFrame DEF Inv, Types
<1>5. ResultInv'
  BY <1>1, ResultFrame DEF Inv
<1> QED
  BY <1>3, <1>4, <1>5, CallFinishedCounts DEF Inv

LEMMA CountCounts ==
  ASSUME Inv, NEW w \in Workers, Count(w)
  PROVE  CountInv'
<1>1. /\ worker[w] \in {"finished", "timed_out"}
      /\ counts' = Counted(counts, LevelOf(w), worker[w])
      /\ UNCHANGED <<main, call, results, late>>
  BY DEF Count
<1>2. /\ worker'[w] = "counted" /\ \A v \in Workers \ {w} : worker'[v] = worker[v]
  BY DEF Count, Inv, Types
<1>3. LevelOf(w) \in DOMAIN Levels
  BY WorkerShape
<1> SUFFICES ASSUME NEW l \in DOMAIN Levels
             PROVE  /\ Total(counts'[l]) = Cardinality(In(l, {"counted"})')
                    /\ counts'[l].completed + Cardinality(In(l, {"finished"})')
                          <= Cardinality(Settled(l)')
  BY <1>1 DEF CountInv, Total
<1>4. /\ In(l, {"finished"}) \in SUBSET Crew(l) /\ Settled(l) \in SUBSET Crew(l)
      /\ In(l, {"counted"}) \in SUBSET Crew(l) /\ Settled(l)' \in SUBSET Crew(l)
      /\ counts[l] \in Counters
      /\ Total(counts[l]) = Cardinality(In(l, {"counted"}))
      /\ counts[l].completed + Cardinality(In(l, {"finished"})) <= Cardinality(Settled(l))
  BY DEF In, Settled, Crew, Inv, Types, CountInv
<1>5. /\ Cardinality(In(l, {"finished"})) \in Nat /\ Cardinality(Settled(l)) \in Nat
      /\ Cardinality(In(l, {"counted"})) \in Nat /\ Cardinality(Settled(l)') \in Nat
  BY <1>4, PartOfCrew
<1>6. CASE LevelOf(w) = l
  <2>1. w \in Crew(l) /\ w \notin In(l, {"counted"})
    BY <1>1, <1>6 DEF Crew, In
  <2>2. In(l, {"counted"})' = In(l, {"counted"}) \cup {w}
    BY <1>2, <2>1 DEF In, Crew
  <2>3. Cardinality(In(l, {"counted"})') = Cardinality(In(l, {"counted"})) + 1
    BY <1>4, <2>1, <2>2, OneMore
  <2>4. Settled(l) \subseteq Settled(l)'
    BY <1>1, <1>2 DEF Settled, Crew, Done
  <2>5. Cardinality(Settled(l)) <= Cardinality(Settled(l)')
    BY <1>4, <2>4, NoFewer
  <2>6. CASE worker[w] = "finished"
    <3>1. counts'[l] = [counts[l] EXCEPT !.completed = @ + 1]
      BY <1>1, <1>3, <1>6, <2>6 DEF Counted, Inv, Types
    <3>2. In(l, {"finished"})' = In(l, {"finished"}) \ {w} /\ w \in In(l, {"finished"})
      BY <1>2, <2>1, <2>6 DEF In, Crew
    <3>3. Cardinality(In(l, {"finished"})') = Cardinality(In(l, {"finished"})) - 1
      BY <1>4, <3>2, OneLess
    <3> QED
      BY <1>4, <1>5, <2>3, <2>5, <3>1, <3>3 DEF Counters, Total
  <2>7. CASE worker[w] = "timed_out"
    <3>1. counts'[l] = [counts[l] EXCEPT !.timed_out = @ + 1]
      BY <1>1, <1>3, <1>6, <2>7 DEF Counted, Inv, Types
    <3>2. In(l, {"finished"})' = In(l, {"finished"})
      BY <1>2, <2>1, <2>7 DEF In, Crew
    <3> QED
      BY <1>4, <1>5, <2>3, <2>5, <3>1, <3>2 DEF Counters, Total
  <2> QED
    BY <1>1, <2>6, <2>7
<1>7. CASE LevelOf(w) # l
  <2>1. counts'[l] = counts[l]
    BY <1>1, <1>3, <1>7 DEF Counted, Inv, Types
  <2>2. In(l, {"finished"})' = In(l, {"finished"}) /\ In(l, {"counted"})' = In(l, {"counted"})
    BY <1>2, <1>7 DEF In, Crew
  <2>3. Settled(l)' = Settled(l)
    BY <1>1, <1>2, <1>7 DEF Settled, Crew, Done
  <2> QED
    BY <1>4, <2>1, <2>2, <2>3
<1> QED
  BY <1>6, <1>7

LEMMA StepCount ==
  ASSUME Inv, NEW w \in Workers, Count(w)
  PROVE  Inv'
<1>1. /\ worker' = [worker EXCEPT ![w] = "counted"] /\ worker[w] \in {"finished", "timed_out"}
      /\ counts' = Counted(counts, LevelOf(w), worker[w])
      /\ UNCHANGED <<main, call, results, late>>
  BY DEF Count
<1>2. call' \in [Workers -> CallStates] /\ call[w] # "none"
  BY <1>1 DEF Inv, Types, Phases, InCall
<1>3. Phases' /\ worker' \in [Workers -> WorkerStates]
  BY <1>1, <1>2, WorkerFrame DEF WorkerStates, Before, InCall, Over
<1>4. /\ counts \in [DOMAIN Levels -> Counters] /\ LevelOf(w) \in DOMAIN Levels
  BY WorkerShape DEF Inv, Types
<1>5. /\ counts' \in [DOMAIN Levels -> Counters]
      /\ \A l \in DOMAIN Levels : counts[l].completed <= counts'[l].completed
      /\ \A l \in DOMAIN Levels : l # LevelOf(w) => counts'[l] = counts[l]
  BY <1>1, <1>4 DEF Counted, Counters
<1>6. Types'
  BY <1>1, <1>2, <1>3, <1>5, TypesFrame
<1>7. ResultInv'
  <2>1. \A l \in DOMAIN results : l \in DOMAIN Levels /\ results[l] \in Counters
    <3>1. /\ Len(results) <= Len(Levels) /\ Len(results) \in Nat
          /\ results \in Seq(Counters) /\ DOMAIN Levels = 1..Len(Levels)
      BY MainShape, LevelsAssumption DEF Inv, Types, Phases
    <3> QED
      BY <3>1, LevelsAssumption
  <2>2. LevelOf(w) \in DOMAIN results => w \in Crew(LevelOf(w)) \cap late
    <3>1. w \in Crew(LevelOf(w))
      BY DEF Crew
    <3>2. LevelOf(w) \in DOMAIN results => Joined(w)
      BY <1>4, LevelsAssumption DEF Inv, Types, Phases, Joined
    <3> QED
      BY <1>1, <3>1, <3>2 DEF Inv, Phases, Over
  <2>3. SUFFICES ASSUME NEW l \in DOMAIN results
                 PROVE  /\ results[l].completed <= counts'[l].completed
                        /\ Crew(l) \cap late = {} => results[l] = counts'[l]
    BY <1>1 DEF ResultInv, Crew
  <2>4. /\ results[l].completed <= counts[l].completed
        /\ Crew(l) \cap late = {} => results[l] = counts[l]
    BY DEF Inv, ResultInv
  <2> QED
    BY <1>4, <1>5, <2>1, <2>2, <2>4 DEF Counters
<1> QED
  BY <1>3, <1>6, <1>7, CountCounts DEF Inv

LEMMA StepCallEnds ==
  ASSUME Inv, NEW w \in Workers, CallEnds(w)
  PROVE  Inv'
<1>1. PICK outcome \in {"returned", "raised"} : call' = [call EXCEPT ![w] = outcome]
  BY DEF CallEnds
<1>2. call[w] = "running" /\ UNCHANGED <<main, worker, counts, results, late>>
  BY DEF CallEnds
<1>3. /\ call' \in [Workers -> CallStates] /\ call'[w] \in {"returned", "raised"}
      /\ \A v \in Workers \ {w} : call'[v] = call[v]
  BY <1>1 DEF Inv, Types, CallStates
<1>4. Types'
  BY <1>2, <1>3, TypesFrame DEF Inv, Types
<1>5. Phases'
  <2>1. /\ \A l : Gathering(l)' <=> Gathering(l)
        /\ \A v \in Workers : Joined(v)' <=> Joined(v)
        /\ \A v \in Workers : Done(v) => Done(v)'
        /\ \A v \in Workers : call'[v] = "none" <=> call[v] = "none"
    BY <1>2, <1>3 DEF Gathering, Joined, Done
  <2> QED
    BY <1>2, <2>1 DEF Inv, Phases
<1>6. CountInv'
  <2> SUFFICES ASSUME NEW l \in DOMAIN Levels
               PROVE  /\ Total(counts[l]) = Cardinality(In(l, {"counted"})')
                      /\ counts[l].completed + Cardinality(In(l, {"finished"})')
                            <= Cardinality(Settled(l)')
    BY <1>2 DEF CountInv
  <2>1. In(l, {"counted"})' = In(l, {"counted"}) /\ In(l, {"finished"})' = In(l, {"finished"})
    BY <1>2 DEF In, Crew
  <2>2. Settled(l) \in SUBSET Settled(l)' /\ Settled(l)' \in SUBSET Crew(l)
    BY <1>2, <1>3 DEF Settled, Crew, Done
  <2>3. Cardinality(Settled(l)) <= Cardinality(Settled(l)')
    BY <2>2, NoFewer
  <2>4. /\ In(l, {"finished"}) \in SUBSET Crew(l) /\ Settled(l) \in SUBSET Crew(l)
        /\ counts[l] \in Counters
        /\ Total(counts[l]) = Cardinality(In(l, {"counted"}))
        /\ counts[l].completed + Cardinality(In(l, {"finished"})) <= Cardinality(Settled(l))
    BY DEF In, Settled, Inv, Types, CountInv
  <2>5. /\ Cardinality(In(l, {"finished"})) \in Nat /\ Cardinality(Settled(l)) \in Nat
        /\ Cardinality(Settled(l)') \in Nat
    BY <2>2, <2>4, PartOfCrew
  <2> QED
    BY <2>1, <2>3, <2>4, <2>5 DEF Counters
<1>7. ResultInv'
  BY <1>2, ResultFrame DEF Inv
<1> QED
  BY <1>4, <1>5, <1>6, <1>7 DEF Inv

-----------------------------------------------------------------------------
(* The invariant of the specification.                                       *)

LEMMA InvStep == Inv /\ [Next]_vars => Inv'
<1> SUFFICES ASSUME Inv, [Next]_vars PROVE Inv'
  OBVIOUS
<1>1. CASE Main
  BY <1>1, StepStartWorker, StepStartWorkerFails, StepBarrierTrips, StepJoin DEF Main
<1>2. ASSUME NEW w \in Workers, Worker(w) \/ CallEnds(w)
      PROVE  Inv'
  BY <1>2, StepWorkerQuiet, StepCallFinished, StepCount, StepCallEnds DEF Worker
<1>3. CASE UNCHANGED vars
  <2>1. /\ \A l : Crew(l)' = Crew(l) /\ In(l, {"counted"})' = In(l, {"counted"})
        /\ \A l : In(l, {"finished"})' = In(l, {"finished"}) /\ Settled(l)' = Settled(l)
        /\ \A l : Gathering(l)' <=> Gathering(l)
        /\ \A w : (Joined(w)' <=> Joined(w)) /\ (Done(w)' <=> Done(w))
    BY <1>3 DEF vars, Crew, In, Settled, Done, Gathering, Joined
  <2> QED
    BY <1>3, <2>1 DEF vars, Inv, Types, Current, Phases, CountInv, ResultInv
<1> QED
  BY <1>1, <1>2, <1>3 DEF Next

\* Inv holds in every reachable state (_run_level).
THEOREM InvHolds == Spec => []Inv
  BY InvInit, InvStep, PTL DEF Spec

LEMMA InvTypes == Inv => TypeOK
<1> SUFFICES ASSUME Inv PROVE TypeOK
  OBVIOUS
<1>1. \A l \in DOMAIN Levels : Total(counts[l]) <= Levels[l]
  <2> SUFFICES ASSUME NEW l \in DOMAIN Levels PROVE Total(counts[l]) <= Levels[l]
    OBVIOUS
  <2>1. In(l, {"counted"}) \in SUBSET Crew(l) /\ Total(counts[l]) = Cardinality(In(l, {"counted"}))
    BY DEF In, Inv, CountInv
  <2> QED
    BY <2>1, PartOfCrew
<1>2. Len(results) <= Len(Levels)
  BY MainShape, LevelsAssumption DEF Inv, Types, Phases
<1> QED
  BY <1>1, <1>2 DEF Inv, Types, TypeOK, WorkerStates, CallStates

LEMMA InvTogether == Inv => CallsStartTogether
  BY DEF Inv, Phases, CallsStartTogether, Before, InCall

\* The workers of a level that has a result and was not left early are over.
LEMMA InvAddsUp == Inv => LevelAddsUp
<1> SUFFICES ASSUME Inv, NEW l \in DOMAIN results, Crew(l) \cap late = {}
             PROVE  Total(results[l]) + Cardinality(In(l, {"died"})) = Levels[l]
  BY DEF LevelAddsUp, In
<1>1. l \in DOMAIN Levels /\ l \in Nat
  BY MainShape, LevelsAssumption DEF Inv, Types, Phases
<1>2. \A w \in Crew(l) : worker[w] \in Over
  <2>1. \A w \in Crew(l) : w \in Workers /\ LevelOf(w) = l /\ w \notin late
    BY DEF Crew
  <2>2. \A w \in Crew(l) : Joined(w)
    BY <1>1, <2>1 DEF Joined, Inv, Types, Phases
  <2> QED
    BY <2>1, <2>2 DEF Inv, Phases
<1>3. /\ In(l, {"counted"}) \in SUBSET Crew(l) /\ In(l, {"died"}) \in SUBSET Crew(l)
      /\ In(l, {"counted"}) \cap In(l, {"died"}) = {}
      /\ In(l, {"counted"}) \cup In(l, {"died"}) = Crew(l)
  BY <1>2 DEF In, Over
<1>4. Cardinality(In(l, {"counted"}) \cup In(l, {"died"}))
        = Cardinality(In(l, {"counted"})) + Cardinality(In(l, {"died"}))
  <2>1. /\ IsFiniteSet(In(l, {"counted"})) /\ IsFiniteSet(In(l, {"died"}))
        /\ Cardinality(In(l, {"counted"})) \in Nat /\ Cardinality(In(l, {"died"})) \in Nat
    BY <1>1, <1>3, PartOfCrew
  <2>2. Cardinality(In(l, {"counted"}) \cap In(l, {"died"})) = 0
    BY <1>3, FS_EmptySet
  <2>3. Cardinality(In(l, {"counted"}) \cup In(l, {"died"}))
          = Cardinality(In(l, {"counted"})) + Cardinality(In(l, {"died"}))
              - Cardinality(In(l, {"counted"}) \cap In(l, {"died"}))
    BY <2>1, FS_Union
  <2> QED
    BY <2>1, <2>2, <2>3
<1>5. Total(results[l]) = Cardinality(In(l, {"counted"}))
  BY <1>1 DEF Inv, CountInv, ResultInv
<1> QED
  BY <1>1, <1>3, <1>4, <1>5, CrewSize

LEMMA InvCompleted == Inv => CompletedCallsEnded
<1> SUFFICES ASSUME Inv, NEW l \in DOMAIN results
             PROVE  results[l].completed <= Cardinality(DoneCrew(l))
  BY DEF CompletedCallsEnded, DoneCrew
<1>1. l \in DOMAIN Levels /\ results[l] \in Counters /\ counts[l] \in Counters
  BY MainShape, LevelsAssumption DEF Inv, Types, Phases
<1>2. /\ In(l, {"finished"}) \in SUBSET Crew(l) /\ DoneCrew(l) \in SUBSET Crew(l)
      /\ Settled(l) \in SUBSET DoneCrew(l) /\ Settled(l) \in SUBSET Crew(l)
  BY DEF In, DoneCrew, Settled
<1>3. /\ Cardinality(In(l, {"finished"})) \in Nat /\ Cardinality(DoneCrew(l)) \in Nat
      /\ Cardinality(Settled(l)) \in Nat /\ Cardinality(Settled(l)) <= Cardinality(DoneCrew(l))
  BY <1>1, <1>2, PartOfCrew, NoFewer
<1>4. /\ results[l].completed <= counts[l].completed
      /\ counts[l].completed + Cardinality(In(l, {"finished"})) <= Cardinality(Settled(l))
  BY <1>1 DEF Inv, CountInv, ResultInv
<1> QED
  BY <1>1, <1>3, <1>4 DEF Counters

\* The variables have their types, and no level counts more calls than it has
\* (CapacityDriver.run, results_lock).
THEOREM CapacityTypeCorrect == Spec => []TypeOK
  BY InvHolds, InvTypes, PTL

\* The barrier holds back every call of a level until all its workers are there.
THEOREM CallsAreTogether == Spec => []CallsStartTogether
  BY InvHolds, InvTogether, PTL

\* A result accounts for every call that was made, unless a join expired (_run_level).
THEOREM LevelsAddUp == Spec => []LevelAddsUp
  BY InvHolds, InvAddsUp, PTL

\* A result names no more calls completed than ended (done, results_lock).
THEOREM CompletionsAreReal == Spec => []CompletedCallsEnded
  BY InvHolds, InvCompleted, PTL

-----------------------------------------------------------------------------
(* What RunReturns needs besides the scheduling: the barrier gets its        *)
(* parties, and no thread goes in circles.                                   *)

GatherInv ==
  /\ main.pc = "starting" =>
       \A w \in Crew(main.level) : w[2] < main.at => worker[w] # "new"
  /\ main.pc = "barrier" => \A w \in Crew(main.level) : worker[w] # "new"

LEMMA GatherInit == Init => GatherInv
<1> SUFFICES ASSUME Init PROVE GatherInv
  OBVIOUS
<1>1. main.pc # "barrier" /\ main.at = 1
  BY DEF Init
<1>2. \A w \in Crew(main.level) : ~(w[2] < 1)
  <2> SUFFICES ASSUME NEW w \in Workers PROVE ~(w[2] < 1)
    BY DEF Crew
  <2>1. w[2] \in 1..Levels[LevelOf(w)] /\ Levels[LevelOf(w)] \in Nat
    BY WorkerShape, LevelType
  <2> QED
    BY <2>1
<1> QED
  BY <1>1, <1>2 DEF GatherInv

LEMMA GatherStep == Inv /\ GatherInv /\ [Next]_vars => GatherInv'
<1> SUFFICES ASSUME Inv, GatherInv, [Next]_vars PROVE GatherInv'
  OBVIOUS
<1>1. CASE StartWorker
  <2>1. /\ main.pc = "starting" /\ Current \in Workers /\ Current = <<main.level, main.at>>
        /\ main.at \in 1..Levels[main.level] /\ Levels[main.level] \in Nat
        /\ main \in [pc : {"starting", "barrier", "joining", "returned", "raised"},
                     level : Nat, at : Nat]
        /\ worker \in [Workers -> WorkerStates]
    BY <1>1, MainShape DEF StartWorker, Current, Inv, Types
  <2>2. /\ main'.level = main.level
        /\ IF main.at = Levels[main.level] THEN main'.pc = "barrier"
           ELSE main'.pc = "starting" /\ main'.at = main.at + 1
    BY <1>1, <2>1 DEF StartWorker
  <2>3. /\ worker'[Current] = "started"
        /\ \A w \in Workers \ {Current} : worker'[w] = worker[w]
    BY <1>1, <2>1 DEF StartWorker
  <2>4. ASSUME NEW w \in Crew(main.level), w[2] <= main.at PROVE worker'[w] # "new"
    <3>1. w \in Workers /\ w = <<main.level, w[2]>> /\ w[2] \in Nat
      BY <2>1, WorkerShape DEF Crew
    <3>2. CASE w[2] = main.at
      BY <2>1, <2>3, <3>1, <3>2
    <3>3. CASE w[2] < main.at
      BY <2>1, <2>3, <3>1, <3>3 DEF GatherInv
    <3> QED
      BY <2>1, <2>4, <3>1, <3>2, <3>3
  <2>5. \A w \in Crew(main.level) :
          w[2] \in Nat /\ w[2] <= Levels[main.level]
    BY <2>1, WorkerShape DEF Crew
  <2> QED
    BY <2>1, <2>2, <2>4, <2>5 DEF GatherInv, Crew
<1>2. CASE Join
  <2>1. /\ main.pc = "joining"
        /\ main \in [pc : {"starting", "barrier", "joining", "returned", "raised"},
                     level : Nat, at : Nat]
    BY <1>2 DEF Join, Inv, Types
  <2>2. main'.pc # "barrier" /\ (main'.pc = "starting" => main'.at = 1)
    BY <1>2, <2>1 DEF Join
  <2>3. \A w \in Workers : ~(w[2] < 1)
    <3> SUFFICES ASSUME NEW w \in Workers PROVE ~(w[2] < 1)
      OBVIOUS
    <3>1. w[2] \in 1..Levels[LevelOf(w)] /\ Levels[LevelOf(w)] \in Nat
      BY WorkerShape, LevelType
    <3> QED
      BY <3>1
  <2> QED
    BY <2>2, <2>3 DEF GatherInv, Crew
<1>3. CASE StartWorkerFails \/ BarrierTrips
  BY <1>3 DEF StartWorkerFails, BarrierTrips, Released, GatherInv, Inv, Types
<1>4. CASE \/ \E w \in Workers : Worker(w) \/ CallEnds(w)
           \/ UNCHANGED vars
  <2>1. main' = main
    BY <1>4 DEF Worker, ReachBarrier, StartCall, StartCallFails, CallFinished, CallTimesOut,
                Count, CallEnds, vars
  <2>2. \A v \in Workers : worker[v] # "new" => worker'[v] # "new"
    BY <1>4 DEF Worker, ReachBarrier, StartCall, StartCallFails, CallFinished, CallTimesOut,
                Count, CallEnds, vars, Inv, Types
  <2> QED
    BY <2>1, <2>2 DEF GatherInv, Crew
<1> QED
  BY <1>1, <1>2, <1>3, <1>4 DEF Next, Main

\* The main thread never waits at the barrier for a worker that cannot come: either all
\* of them are there and it trips, or one has been started and is on its way
\* (_run_level: Barrier(level + 1)).
THEOREM BarrierGetsItsParties ==
  Spec => [](main.pc = "barrier" =>
               \/ Cardinality(AtBarrier) + 1 = Levels[main.level] + 1
               \/ \E w \in Crew(main.level) : worker[w] = "started")
<1>1. Inv /\ GatherInv => (main.pc = "barrier" =>
                            \/ Cardinality(AtBarrier) + 1 = Levels[main.level] + 1
                            \/ \E w \in Crew(main.level) : worker[w] = "started")
  <2> SUFFICES ASSUME Inv, GatherInv, main.pc = "barrier",
                      \A w \in Crew(main.level) : worker[w] # "started"
               PROVE  Cardinality(AtBarrier) = Levels[main.level]
    OBVIOUS
  <2>1. main.level \in DOMAIN Levels /\ Gathering(main.level)
    BY MainShape DEF Gathering
  <2>2. \A w \in Crew(main.level) : worker[w] = "barrier"
    BY <2>1 DEF Inv, Phases, Before, GatherInv, Crew
  <2>3. AtBarrier = Crew(main.level)
    BY <2>2 DEF AtBarrier
  <2> QED
    BY <2>1, <2>3, CrewSize
<1> QED
  BY <1>1, GatherInit, GatherStep, InvHolds, PTL DEF Spec

\* The workers main has yet to start.
Unstarted(w) ==
  \/ main.pc # "returned" /\ LevelOf(w) > main.level
  \/ main.pc = "starting" /\ LevelOf(w) = main.level /\ w[2] >= main.at

FreshInv == \A w \in Workers : Unstarted(w) => worker[w] = "new"

LEMMA FreshInit == Init => FreshInv
  BY DEF Init, FreshInv

LEMMA FreshStep == Inv /\ FreshInv /\ [Next]_vars => FreshInv'
<1> SUFFICES ASSUME Inv, FreshInv, [Next]_vars,
                    NEW w \in Workers, Unstarted(w)'
             PROVE  worker'[w] = "new"
  BY DEF FreshInv
<1>1. /\ main \in [pc : {"starting", "barrier", "joining", "returned", "raised"},
                   level : Nat, at : Nat]
      /\ worker \in [Workers -> WorkerStates]
      /\ LevelOf(w) \in Nat /\ w[2] \in Nat /\ w = <<LevelOf(w), w[2]>> /\ w[2] >= 1
  <2>1. LevelOf(w) \in DOMAIN Levels /\ w[2] \in 1..Levels[LevelOf(w)] /\ w = <<LevelOf(w), w[2]>>
    BY WorkerShape
  <2> QED
    BY <2>1, LevelType, LevelsAssumption DEF Inv, Types
<1>2. CASE StartWorker
  <2>1. /\ main.pc = "starting" /\ Current \in Workers /\ Current = <<main.level, main.at>>
        /\ main'.level = main.level
        /\ IF main.at = Levels[main.level] THEN main'.pc = "barrier" /\ main'.at = main.at
           ELSE main'.pc = "starting" /\ main'.at = main.at + 1
        /\ \A v \in Workers \ {Current} : worker'[v] = worker[v]
    BY <1>1, <1>2, MainShape DEF StartWorker, Current
  <2>2. main.level \in Nat /\ main.at \in Nat
    BY <1>1
  <2>3. Unstarted(w) /\ w # Current
    <3>1. CASE LevelOf(w) > main.level
      <4>1. LevelOf(w) # main.level
        BY <1>1, <2>2, <3>1
      <4>2. LevelOf(Current) = main.level
        BY <2>1 DEF LevelOf
      <4> QED
        BY <2>1, <3>1, <4>1, <4>2 DEF Unstarted
    <3>2. CASE LevelOf(w) = main.level /\ main'.pc = "starting" /\ w[2] >= main.at + 1
      <4>1. w[2] >= main.at /\ w[2] # main.at
        BY <1>1, <2>2, <3>2
      <4>2. Current[2] = main.at
        BY <2>1
      <4> QED
        BY <2>1, <3>2, <4>1, <4>2 DEF Unstarted
    <3> QED
      BY <2>1, <3>1, <3>2 DEF Unstarted
  <2> QED
    BY <2>1, <2>3 DEF FreshInv
<1>3. CASE Join
  <2>1. /\ main.pc = "joining" /\ worker' = worker
        /\ \/ main'.pc = "joining" /\ main'.level = main.level
           \/ main'.pc = "returned"
           \/ main'.pc = "starting" /\ main'.level = main.level + 1
    BY <1>1, <1>3 DEF Join
  <2>2. Unstarted(w)
    BY <1>1, <2>1 DEF Unstarted
  <2> QED
    BY <2>1, <2>2 DEF FreshInv
<1>4. CASE StartWorkerFails
  BY <1>1, <1>4 DEF StartWorkerFails, FreshInv, Unstarted
<1>5. CASE BarrierTrips
  <2>1. Unstarted(w)
    BY <1>1, <1>5 DEF BarrierTrips, Released, Unstarted
  <2>2. worker[w] = "new"
    BY <2>1 DEF FreshInv
  <2> QED
    BY <1>5, <2>2 DEF BarrierTrips, Released, AtBarrier
<1>6. CASE \/ \E v \in Workers : Worker(v) \/ CallEnds(v)
           \/ UNCHANGED vars
  <2>1. main' = main
    BY <1>6 DEF Worker, ReachBarrier, StartCall, StartCallFails, CallFinished, CallTimesOut,
                Count, CallEnds, vars
  <2>2. worker[w] = "new"
    BY <2>1 DEF FreshInv, Unstarted
  <2> QED
    BY <1>1, <1>6, <2>2
    DEF Worker, ReachBarrier, StartCall, StartCallFails, CallFinished, CallTimesOut,
        Count, CallEnds, vars
<1> QED
  BY <1>2, <1>3, <1>4, <1>5, <1>6 DEF Next, Main

\* How far a worker, a call and the main thread are.
WorkerRank(state) ==
  CASE state = "new" -> 0
    [] state = "started" -> 1
    [] state = "barrier" -> 2
    [] state = "released" -> 3
    [] state = "waiting" -> 4
    [] state \in {"finished", "timed_out"} -> 5
    [] OTHER -> 6

CallRank(state) ==
  CASE state = "none" -> 0
    [] state = "running" -> 1
    [] OTHER -> 2

Terminal == {"returned", "raised"}

PhaseRank(pc) ==
  CASE pc = "starting" -> 0
    [] pc = "barrier" -> 1
    [] OTHER -> 2

MainMoves ==
  /\ main.pc \notin Terminal
  /\ \/ main'.pc \in Terminal
     \/ main'.level > main.level
     \/ main'.level = main.level /\ PhaseRank(main'.pc) > PhaseRank(main.pc)
     \/ main'.level = main.level /\ main'.pc = main.pc /\ main'.at > main.at

WorkerMoves(w) == WorkerRank(worker'[w]) > WorkerRank(worker[w])
CallMoves(w) == CallRank(call'[w]) > CallRank(call[w])

\* Nothing goes back, and something goes on.
StepForward ==
  /\ MainMoves \/ main' = main
  /\ \A w \in Workers : WorkerMoves(w) \/ worker'[w] = worker[w]
  /\ \A w \in Workers : CallMoves(w) \/ call'[w] = call[w]
  /\ MainMoves \/ \E w \in Workers : WorkerMoves(w) \/ CallMoves(w)

LEMMA MainStepForward == Inv /\ FreshInv /\ Main => StepForward
<1> SUFFICES ASSUME Inv, FreshInv, Main PROVE StepForward
  OBVIOUS
<1>1. /\ main \in [pc : {"starting", "barrier", "joining", "returned", "raised"},
                   level : Nat, at : Nat]
      /\ worker \in [Workers -> WorkerStates]
      /\ call' = call
  BY DEF Inv, Types, Main, StartWorker, StartWorkerFails, BarrierTrips, Released, Join
<1>2. MainMoves
  <2>1. CASE StartWorker
    BY <1>1, <2>1 DEF StartWorker, MainMoves, Terminal, PhaseRank
  <2>2. CASE StartWorkerFails
    BY <1>1, <2>2 DEF StartWorkerFails, MainMoves, Terminal
  <2>3. CASE BarrierTrips
    BY <1>1, <2>3 DEF BarrierTrips, Released, MainMoves, Terminal, PhaseRank
  <2>4. CASE Join
    BY <1>1, <2>4 DEF Join, MainMoves, Terminal
  <2> QED
    BY <2>1, <2>2, <2>3, <2>4 DEF Main
<1>3. \A w \in Workers : WorkerMoves(w) \/ worker'[w] = worker[w]
  <2>1. CASE StartWorker
    <3>1. Current \in Workers /\ Unstarted(Current)
      BY <1>1, <2>1, MainShape DEF StartWorker, Unstarted
    <3>2. worker[Current] = "new"
      BY <3>1 DEF FreshInv
    <3> QED
      BY <1>1, <2>1, <3>1, <3>2 DEF StartWorker, WorkerMoves, WorkerRank
  <2>2. CASE BarrierTrips
    BY <1>1, <2>2 DEF BarrierTrips, Released, AtBarrier, WorkerMoves, WorkerRank
  <2>3. CASE StartWorkerFails \/ Join
    BY <2>3 DEF StartWorkerFails, Join
  <2> QED
    BY <2>1, <2>2, <2>3 DEF Main
<1> QED
  BY <1>1, <1>2, <1>3 DEF StepForward

LEMMA WorkerStepForward ==
  ASSUME Inv, NEW w \in Workers, Worker(w) \/ CallEnds(w)
  PROVE  StepForward
<1>1. /\ worker \in [Workers -> WorkerStates] /\ call \in [Workers -> CallStates]
      /\ call[w] # "none" <=> worker[w] \in InCall
      /\ main' = main
  BY DEF Inv, Types, Phases, Worker, ReachBarrier, StartCall, StartCallFails, CallFinished,
         CallTimesOut, Count, CallEnds
<1>2. \A v \in Workers \ {w} : worker'[v] = worker[v] /\ call'[v] = call[v]
  BY <1>1 DEF Worker, ReachBarrier, StartCall, StartCallFails, CallFinished, CallTimesOut,
              Count, CallEnds
<1>3. CASE Worker(w)
  <2>1. WorkerMoves(w)
    BY <1>1, <1>3 DEF Worker, ReachBarrier, StartCall, StartCallFails, CallFinished,
                      CallTimesOut, Count, WorkerMoves, WorkerRank
  <2>2. CallMoves(w) \/ call'[w] = call[w]
    <3>1. CASE StartCall(w)
      <4>1. call[w] = "none" /\ call'[w] = "running"
        BY <1>1, <3>1 DEF StartCall, InCall
      <4> QED
        BY <4>1 DEF CallMoves, CallRank
    <3>2. CASE ~StartCall(w)
      BY <1>3, <3>2 DEF Worker, ReachBarrier, StartCallFails, CallFinished, CallTimesOut, Count
    <3> QED
      BY <3>1, <3>2
  <2> QED
    BY <1>1, <1>2, <2>1, <2>2 DEF StepForward
<1>4. CASE CallEnds(w)
  <2>1. CallMoves(w) /\ worker'[w] = worker[w]
    BY <1>1, <1>4 DEF CallEnds, CallMoves, CallRank
  <2> QED
    BY <1>1, <1>2, <2>1 DEF StepForward
<1> QED
  BY <1>3, <1>4

\* No thread ever goes back and every step takes one on: a run over finitely many levels,
\* each thread of which has seven places at most, is finite, so that with
\* BarrierGetsItsParties only the scheduling decides that it returns (_run_level, _worker).
THEOREM EveryStepIsForward == Spec => [][StepForward]_vars
<1>1. Inv /\ FreshInv /\ [Next]_vars => [StepForward]_vars
  BY MainStepForward, WorkerStepForward DEF Next
<1> QED
  BY <1>1, FreshInit, FreshStep, InvHolds, PTL DEF Spec

=============================================================================
