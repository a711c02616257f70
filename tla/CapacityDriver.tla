----------------------------- MODULE CapacityDriver -----------------------------
(***************************************************************************)
(* The capacity harness: CapacityDriver.run (capacity_harness.py).         *)
(*                                                                         *)
(* For each level the main thread starts one worker thread per call, a     *)
(* barrier releases all of them, and each worker runs the call factory in  *)
(* a thread of its own and waits for it for a limited time.  The factory   *)
(* may return, raise, or never end: its thread then outlives the level,    *)
(* and so does a worker that is starved until the main thread's join       *)
(* expires.                                                                *)
(***************************************************************************)
EXTENDS Naturals, Sequences, FiniteSets

CONSTANT Levels    \* the offered levels, in the order they are given

ASSUME LevelsAssumption == Levels \in Seq(Nat \ {0})

Workers == UNION {{<<l, i>> : i \in 1..Levels[l]} : l \in DOMAIN Levels}

VARIABLES
  main,     \* the main thread: where it is, its level, the worker it is at
  worker,   \* the worker threads
  call,     \* the threads of the calls
  counts,   \* completed and timed_out of each level
  results,  \* the results returned, in order
  late      \* the workers whose join expired (history)

vars == <<main, worker, call, counts, results, late>>

LevelOf(w) == w[1]
Crew(l) == {w \in Workers : LevelOf(w) = l}
Current == <<main.level, main.at>>

Init ==
  /\ main = [pc |-> IF Levels = <<>> THEN "returned" ELSE "starting", level |-> 1, at |-> 1]
  /\ worker = [w \in Workers |-> "new"]
  /\ call = [w \in Workers |-> "none"]
  /\ counts = [l \in DOMAIN Levels |-> [completed |-> 0, timed_out |-> 0]]
  /\ results = <<>>
  /\ late = {}

-----------------------------------------------------------------------------
(* The start of a level.                                                     *)

StartWorker ==
  /\ main.pc = "starting"
  /\ worker' = [worker EXCEPT ![Current] = "started"]
  /\ main' = IF main.at = Levels[main.level]
             THEN [main EXCEPT !.pc = "barrier"] ELSE [main EXCEPT !.at = @ + 1]
  /\ UNCHANGED <<call, counts, results, late>>

\* The process has no thread left: run raises, and the workers stay at the barrier.
StartWorkerFails ==
  /\ main.pc = "starting"
  /\ main' = [main EXCEPT !.pc = "raised"]
  /\ UNCHANGED <<worker, call, counts, results, late>>

ReachBarrier(w) ==
  /\ worker[w] = "started"
  /\ worker' = [worker EXCEPT ![w] = "barrier"]
  /\ UNCHANGED <<main, call, counts, results, late>>

AtBarrier == {w \in Crew(main.level) : worker[w] = "barrier"}

Released ==
  /\ main.pc = "barrier"
  /\ worker' = [w \in Workers |-> IF w \in AtBarrier THEN "released" ELSE worker[w]]
  /\ main' = [main EXCEPT !.pc = "joining", !.at = 1]
  /\ UNCHANGED <<call, counts, results, late>>

\* Mutant: the main thread is not one of the parties, Barrier(level).
BarrierTripsEarly == Cardinality(AtBarrier) + 1 >= Levels[main.level] /\ Released

\* Mutant: a party too many, Barrier(level + 2).
BarrierTripsNever == Cardinality(AtBarrier) + 1 = Levels[main.level] + 2 /\ Released

\* Barrier(level + 1): every worker and the main thread.
BarrierTrips == Cardinality(AtBarrier) + 1 = Levels[main.level] + 1 /\ Released

-----------------------------------------------------------------------------
(* A worker and its call.                                                    *)

StartCall(w) ==
  /\ worker[w] = "released"
  /\ worker' = [worker EXCEPT ![w] = "waiting"]
  /\ call' = [call EXCEPT ![w] = "running"]
  /\ UNCHANGED <<main, counts, results, late>>

\* The thread of the call cannot be started: the worker ends, and counts nothing.
StartCallFails(w) ==
  /\ worker[w] = "released"
  /\ worker' = [worker EXCEPT ![w] = "died"]
  /\ UNCHANGED <<main, call, counts, results, late>>

\* The factory returns or raises; done is set in either case.
CallEnds(w) ==
  /\ call[w] = "running"
  /\ \E outcome \in {"returned", "raised"} : call' = [call EXCEPT ![w] = outcome]
  /\ UNCHANGED <<main, worker, counts, results, late>>

Done(w) == call[w] \in {"returned", "raised"}

\* Mutant: done is shared by the workers of a level.
CallFinishedForAll(w) ==
  /\ worker[w] = "waiting"
  /\ \E v \in Crew(LevelOf(w)) : Done(v)
  /\ worker' = [worker EXCEPT ![w] = "finished"]
  /\ UNCHANGED <<main, call, counts, results, late>>

\* done.wait returns True.
CallFinished(w) ==
  /\ worker[w] = "waiting"
  /\ Done(w)
  /\ worker' = [worker EXCEPT ![w] = "finished"]
  /\ UNCHANGED <<main, call, counts, results, late>>

\* Mutant: a worker whose call times out ends without counting it.
CallTimesOutUncounted(w) ==
  /\ worker[w] = "waiting"
  /\ ~Done(w)
  /\ worker' = [worker EXCEPT ![w] = "counted"]
  /\ UNCHANGED <<main, call, counts, results, late>>

\* done.wait returns False; the call goes on.
CallTimesOut(w) ==
  /\ worker[w] = "waiting"
  /\ ~Done(w)
  /\ worker' = [worker EXCEPT ![w] = "timed_out"]
  /\ UNCHANGED <<main, call, counts, results, late>>

\* The counter of a level that a worker adds to.
Counted(cs, l, outcome) ==
  IF outcome = "finished" THEN [cs EXCEPT ![l].completed = @ + 1]
  ELSE [cs EXCEPT ![l].timed_out = @ + 1]

\* Mutant: the counters belong to the driver, and a worker that is late adds to the
\* level under way.
CountInCurrentLevel(w) ==
  /\ worker[w] \in {"finished", "timed_out"}
  /\ worker' = [worker EXCEPT ![w] = "counted"]
  /\ counts' = Counted(counts, main.level, worker[w])
  /\ UNCHANGED <<main, call, results, late>>

\* Under results_lock, in the counters of the level the worker was started for.
Count(w) ==
  /\ worker[w] \in {"finished", "timed_out"}
  /\ worker' = [worker EXCEPT ![w] = "counted"]
  /\ counts' = Counted(counts, LevelOf(w), worker[w])
  /\ UNCHANGED <<main, call, results, late>>

-----------------------------------------------------------------------------
(* The end of a level.                                                       *)

\* The worker that is joined has ended, or the join expires: the worker was starved,
\* its own waits being shorter.  The last join is followed by the level's result.
Join ==
  /\ main.pc = "joining"
  /\ late' = IF worker[Current] \in {"counted", "died"} THEN late ELSE late \cup {Current}
  /\ IF main.at < Levels[main.level]
     THEN main' = [main EXCEPT !.at = @ + 1] /\ UNCHANGED results
     ELSE /\ results' = Append(results, counts[main.level])
          /\ main' = IF main.level = Len(Levels) THEN [main EXCEPT !.pc = "returned"]
                     ELSE [pc |-> "starting", level |-> main.level + 1, at |-> 1]
  /\ UNCHANGED <<worker, call, counts>>

-----------------------------------------------------------------------------
Main == StartWorker \/ StartWorkerFails \/ BarrierTrips \/ Join

Worker(w) ==
  \/ ReachBarrier(w)
  \/ StartCall(w)
  \/ StartCallFails(w)
  \/ CallFinished(w)
  \/ CallTimesOut(w)
  \/ Count(w)

Next ==
  \/ Main
  \/ \E w \in Workers : Worker(w) \/ CallEnds(w)

Spec == Init /\ [][Next]_vars

\* Threads that can run do, and waits expire; a call need not end.
FairSpec == Spec /\ WF_vars(Main) /\ \A w \in Workers : WF_vars(Worker(w))

-----------------------------------------------------------------------------
(* Properties.                                                               *)

Total(result) == result.completed + result.timed_out

Counters == [completed : Nat, timed_out : Nat]

\* Every variable has its type, and until it has returned the main thread is at a
\* worker of a level; no level counts more calls than it has.
TypeOK ==
  /\ main \in [pc : {"starting", "barrier", "joining", "returned", "raised"},
              level : Nat, at : Nat]
  /\ main.pc # "returned" => main.level \in DOMAIN Levels /\ Current \in Workers
  /\ worker \in [Workers -> {"new", "started", "barrier", "released", "waiting",
                             "finished", "timed_out", "counted", "died"}]
  /\ call \in [Workers -> {"none", "running", "returned", "raised"}]
  /\ counts \in [DOMAIN Levels -> Counters]
  /\ \A l \in DOMAIN Levels : Total(counts[l]) <= Levels[l]
  /\ results \in Seq(Counters)
  /\ Len(results) <= Len(Levels)
  /\ late \subseteq Workers

\* No call of a level is made before all its workers are there (barrier).
CallsStartTogether ==
  \A w, v \in Workers :
    call[w] # "none" /\ LevelOf(v) = LevelOf(w) => worker[v] \notin {"new", "started"}

\* A result accounts for every call of its level, completed or timed out, unless the
\* call was not made or the worker was starved (_run_level).
LevelAddsUp ==
  \A l \in DOMAIN results :
    LET lost == {w \in Crew(l) : worker[w] = "died"} IN
    Crew(l) \cap late = {} => Total(results[l]) + Cardinality(lost) = Levels[l]

\* A result names no more calls completed than ended, whatever other calls of the
\* level or of earlier levels do (done, results_lock).
CompletedCallsEnded ==
  \A l \in DOMAIN results : results[l].completed <= Cardinality({w \in Crew(l) : Done(w)})

\* run comes to an end, though no call ever does ("If the factory blocks indefinitely
\* for a call, that call is counted as timed out").
RunReturns == <>(main.pc \in {"returned", "raised"})
=============================================================================
