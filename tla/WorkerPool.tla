------------------------------ MODULE WorkerPool ------------------------------
(***************************************************************************)
(* fce_parallel_for (src/pipeline/worker_pool.c): one call, from entry to  *)
(* return, with the threads it creates.  Thread Main is the caller; the    *)
(* others are created by it and pull indices from one shared counter with  *)
(* atomic_fetch_add until it passes count.  Thread creation and the malloc *)
(* of the thread array may fail, at any point.                             *)
(*                                                                         *)
(* "visits" is a history variable: how often fn was entered for an index.  *)
(* The counter "next" is next_idx of run_pthreads; when no thread was      *)
(* created it is also the local i of run_serial, which the caller then     *)
(* counts alone.                                                           *)
(***************************************************************************)
EXTENDS Integers, FiniteSets

CONSTANTS
  Counts,          \* values of the parameter count
  WorkerOpts,      \* values of opts.max_workers
  DefaultWorkers,  \* fce_default_worker_count(true)
  MaxHelpers       \* bound on the threads one call may create

ASSUME CountsAssumption == Counts \subseteq Int
ASSUME WorkerOptsAssumption == WorkerOpts \subseteq Int
ASSUME DefaultWorkersAssumption == DefaultWorkers \in Int

Main == 0
Thread == 0 .. MaxHelpers

VARIABLES
  count,       \* parameter count
  maxWorkers,  \* parameter opts.max_workers
  pc,          \* pc[t] where thread t stands; Main is thread 0
  cur,         \* cur[t] index thread t has claimed last
  next,        \* the claim counter
  spawned,     \* threads 1..spawned have been created
  joined,      \* threads 1..joined have been joined
  visits       \* history: number of entries of fn per index

vars == <<count, maxWorkers, pc, cur, next, spawned, joined, visits>>

-------------------------------------------------------------------------------
(* nworkers after the defaulting and clamping at the top of                *)
(* fce_parallel_for; the caller itself is one of them.                     *)
NWorkers(opt) ==
  LET auto == IF opt <= 0 THEN DefaultWorkers ELSE opt
  IN  IF auto < 1 THEN 1 ELSE auto

(* Threads to create: the caller participates, so one fewer. *)
Helpers == NWorkers(maxWorkers) - 1

ASSUME MaxHelpersAssumption ==
  /\ MaxHelpers \in Nat
  /\ \A opt \in WorkerOpts : NWorkers(opt) <= MaxHelpers + 1

Indices == 0 .. count - 1

Init ==
  /\ count \in Counts
  /\ maxWorkers \in WorkerOpts
  /\ pc = [t \in Thread |-> IF t = Main THEN "call" ELSE "none"]
  /\ cur = [t \in Thread |-> 0]
  /\ next = 0
  /\ spawned = 0
  /\ joined = 0
  /\ visits = [i \in Indices |-> 0]

Goto(t, l) == pc' = [pc EXCEPT ![t] = l]

-------------------------------------------------------------------------------
(* Entry of fce_parallel_for: nothing to do; the serial fallback (a small  *)
(* call, or the malloc of the thread array failed), which is the claim     *)
(* loop of the caller alone; or the spawn loop.                            *)
Enter ==
  /\ pc[Main] = "call"
  /\ \/ count <= 0 /\ Goto(Main, "returned")
     \/ count > 0 /\ Goto(Main, "loop")
     \/ count > 1 /\ Helpers >= 1 /\ Goto(Main, "spawn")
  /\ UNCHANGED <<count, maxWorkers, cur, next, spawned, joined, visits>>

(* One fce_thread_create of the spawn loop succeeds. *)
Spawn ==
  /\ pc[Main] = "spawn" /\ spawned < Helpers
  /\ spawned' = spawned + 1
  /\ Goto(spawned + 1, "loop")
  /\ UNCHANGED <<count, maxWorkers, cur, next, joined, visits>>

SpawnEnd_GiveUp ==    \* mutant: after a failed creation the caller only joins
  /\ pc[Main] = "spawn"
  /\ Goto(Main, IF spawned < Helpers THEN "join" ELSE "loop")
  /\ UNCHANGED <<count, maxWorkers, cur, next, spawned, joined, visits>>

(* The loop ends, because every helper exists or because a creation        *)
(* failed; either way the caller works with the threads it has.            *)
SpawnEnd ==
  /\ pc[Main] = "spawn"
  /\ Goto(Main, "loop")
  /\ UNCHANGED <<count, maxWorkers, cur, next, spawned, joined, visits>>

(* Index i is claimed by thread t, which enters fn for it. *)
Visit(t, i) ==
  /\ cur' = [cur EXCEPT ![t] = i]
  /\ visits' = [visits EXCEPT ![i] = @ + 1]
  /\ Goto(t, "run")

Exhausted(t) ==
  /\ Goto(t, IF t = Main THEN "join" ELSE "exited")
  /\ UNCHANGED <<cur, visits>>

Claim_StaleCounter(t) ==   \* mutant: the increment is based on a stale read
  /\ pc[t] = "loop"
  /\ next' = cur[t] + 1
  /\ IF next < count THEN Visit(t, next) ELSE Exhausted(t)
  /\ UNCHANGED <<count, maxWorkers, spawned, joined>>

Claim_NoBreak(t) ==        \* mutant: a created thread retries past the end
  /\ pc[t] = "loop"
  /\ next' = next + 1
  /\ \/ next < count /\ Visit(t, next)
     \/ next >= count /\ Exhausted(t)
     \/ next >= count /\ next < count + 9 /\ UNCHANGED <<pc, cur, visits>>
  /\ UNCHANGED <<count, maxWorkers, spawned, joined>>

(* atomic_fetch_add on next_idx, and the test of the old value against     *)
(* count; when the counter is exhausted the caller goes on to join and a   *)
(* created thread returns.                                                 *)
Claim(t) ==
  /\ pc[t] = "loop"
  /\ next' = next + 1
  /\ IF next < count THEN Visit(t, next) ELSE Exhausted(t)
  /\ UNCHANGED <<count, maxWorkers, spawned, joined>>

(* fn returns in thread t. *)
FnReturn(t) ==
  /\ pc[t] = "run"
  /\ Goto(t, "loop")
  /\ UNCHANGED <<count, maxWorkers, cur, next, spawned, joined, visits>>

(* fce_thread_join of the next created thread waits for it to exit. *)
Join ==
  /\ pc[Main] = "join" /\ joined < spawned
  /\ pc[joined + 1] = "exited"
  /\ joined' = joined + 1
  /\ UNCHANGED <<count, maxWorkers, pc, cur, next, spawned, visits>>

Return_NoJoin ==      \* mutant: the call does not wait for its threads
  /\ pc[Main] = "join"
  /\ Goto(Main, "returned")
  /\ UNCHANGED <<count, maxWorkers, cur, next, spawned, joined, visits>>

(* Every created thread is joined: the call returns. *)
Return ==
  /\ pc[Main] = "join" /\ joined = spawned
  /\ Goto(Main, "returned")
  /\ UNCHANGED <<count, maxWorkers, cur, next, spawned, joined, visits>>

MainStep == Enter \/ Spawn \/ SpawnEnd \/ Join \/ Return
Step(t) == Claim(t) \/ FnReturn(t) \/ (t = Main /\ MainStep)

(* The call is over: the caller runs on with no pool thread left. *)
Done == pc[Main] = "returned" /\ UNCHANGED vars

Next == (\E t \in Thread : Step(t)) \/ Done

(* Threads are scheduled by the OS and callbacks are finite loops: each    *)
(* thread that can step eventually steps.                                  *)
Spec == Init /\ [][Next]_vars /\ \A t \in Thread : WF_vars(Step(t))

-------------------------------------------------------------------------------
TypeOK ==
  /\ count \in Counts /\ maxWorkers \in WorkerOpts
  /\ pc \in [Thread -> {"call", "none", "spawn", "loop", "run",
                        "exited", "join", "returned"}]
  /\ cur \in [Thread -> Nat]
  /\ next \in Nat
  /\ spawned \in 0 .. Helpers
  /\ joined \in 0 .. spawned
  /\ visits \in [Indices -> Nat]

InFn(t) == pc[t] = "run"

(* Each index is visited exactly once by the time the call returns, and    *)
(* no callback is still running in a created thread: worker_pool.h's       *)
(* "visited exactly once" and "blocks until all iterations complete",      *)
(* whatever thread creations failed.                                       *)
ReturnedMeansAllDone ==
  pc[Main] = "returned" =>
    /\ \A i \in Indices : visits[i] = 1
    /\ \A t \in Thread : ~ InFn(t)

(* No index is ever handed to two threads: callers give fn(i) slot i of a  *)
(* shared array (scratch, heaps, chunks) without any lock.                 *)
NoSharedSlot ==
  /\ \A i \in Indices : visits[i] <= 1
  /\ \A t, u \in Thread : InFn(t) /\ InFn(u) /\ t # u => cur[t] # cur[u]

(* The shared counter overruns count by at most one per participating      *)
(* thread, so the int cannot wrap (and hand out negative indices) unless   *)
(* count is within nworkers of INT_MAX.                                    *)
OverrunBounded == next <= 0 \/ next <= count + spawned + 1

(* The call implements the promise of worker_pool.h: every index visited   *)
(* exactly once, and the call returns, after every callback has; an index  *)
(* has ended once it was visited and no thread is inside fn for it.        *)
Ended == {i \in Indices : visits[i] > 0 /\ \A t \in Thread : InFn(t) => cur[t] # i}

Abstract == INSTANCE ParallelFor WITH
  visits <- visits,
  ended <- Ended,
  returned <- pc[Main] = "returned"

Implements == Abstract!Spec

-------------------------------------------------------------------------------
(* The inductive invariant behind the theorems of WorkerPool_proofs.       *)

(* An index below the counter has been handed out once, one at or above it *)
(* never; a running thread works on one it was handed, alone.              *)
ClaimInv ==
  /\ \A i \in Indices : visits[i] = IF i < next THEN 1 ELSE 0
  /\ \A t \in Thread : InFn(t) => cur[t] \in Indices /\ cur[t] < next
  /\ \A t, u \in Thread : InFn(t) /\ InFn(u) /\ t # u => cur[t] # cur[u]

(* Which threads exist, and what the caller has done by where it stands.   *)
ControlInv ==
  /\ pc[Main] \in {"call", "spawn", "loop", "run", "join", "returned"}
  /\ \A t \in Thread \ {Main} :
        pc[t] \in IF t <= spawned THEN {"loop", "run", "exited"} ELSE {"none"}
  /\ \A t \in 1 .. joined : pc[t] = "exited"
  /\ pc[Main] = "call" => spawned = 0 /\ next = 0
  /\ pc[Main] = "returned" => joined = spawned
  /\ pc[Main] \notin {"call", "returned"} \/ spawned > 0 => count > 0
  /\ \A t \in Thread : pc[t] = "exited" => next >= count
  /\ pc[Main] \in {"join", "returned"} => next >= count

(* Threads that have seen the counter exhausted: each of them pushed it    *)
(* past count once.                                                        *)
Finished == {t \in 0 .. spawned : pc[t] \in {"exited", "join", "returned"}}

CounterInv == next = 0 \/ next <= count + Cardinality(Finished)

IInv == TypeOK /\ ClaimInv /\ ControlInv /\ CounterInv

===============================================================================
