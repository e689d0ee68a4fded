--------------------------- MODULE WorkerPoolStatic ---------------------------
(***************************************************************************)
(* fce_parallel_for_static (src/pipeline/worker_pool.c): [0, count) is cut *)
(* into one contiguous chunk per worker, args[t] for thread t and the last *)
(* one for the caller, Main (the array counts from 0, args from 1).  When  *)
(* a thread cannot be created the caller runs the chunks of all the        *)
(* missing threads, its own included, before it joins the threads that     *)
(* exist.                                                                  *)
(***************************************************************************)
EXTENDS Integers, Sequences

CONSTANTS
  Counts,          \* values of the parameter count
  WorkerOpts,      \* values of opts.max_workers
  DefaultWorkers,  \* fce_default_worker_count(true)
  MaxHelpers       \* bound on the threads one call may create

ASSUME CountsAssumption == Counts \subseteq Int
ASSUME WorkerOptsAssumption == WorkerOpts \subseteq Int
ASSUME DefaultWorkersAssumption == DefaultWorkers \in Int

Main == 0
Thread == 0 .. MaxHelpers

VARIABLES
  count, maxWorkers,  \* the call's parameters
  pc,                 \* pc[t] where thread t stands
  args,               \* the chunks cut so far, <<start, end>> each
  range,              \* range[t] = <<k, end>>: next index and end of t's loop
  nthreads,           \* threads 1..nthreads have been created
  joined,             \* threads 1..joined have been joined
  visits              \* history: number of entries of fn per index

vars == <<count, maxWorkers, pc, args, range, nthreads, joined, visits>>

-------------------------------------------------------------------------------
(* nworkers after the defaulting and clamping at the top of the call.      *)
NWorkers(opt) ==
  LET auto == IF opt <= 0 THEN DefaultWorkers ELSE opt
  IN  IF auto < 1 THEN 1 ELSE auto

(* Threads to create, and chunks to cut. *)
Helpers == NWorkers(maxWorkers) - 1
Chunks == Helpers + 1

ASSUME MaxHelpersAssumption ==
  /\ MaxHelpers \in Nat
  /\ \A opt \in WorkerOpts : NWorkers(opt) <= MaxHelpers + 1

(* sz: the first count % total_workers chunks take one more. *)
ChunkSize(j) == count \div Chunks + IF j <= count % Chunks THEN 1 ELSE 0

Indices == 0 .. count - 1

Init ==
  /\ count \in Counts /\ maxWorkers \in WorkerOpts
  /\ pc = [t \in Thread |-> IF t = Main THEN "call" ELSE "none"]
  /\ args = <<>>
  /\ range = [t \in Thread |-> <<0, 0>>]
  /\ nthreads = 0 /\ joined = 0
  /\ visits = [i \in Indices |-> 0]

Goto(t, l) == pc' = [pc EXCEPT ![t] = l]

(* Thread t starts on chunks j to k, which are contiguous. *)
StartLoop(t, j, k) ==
  /\ Goto(t, "loop")
  /\ range' = [range EXCEPT ![t] = <<args[j][1], args[k][2]>>]

-------------------------------------------------------------------------------
(* Entry: nothing to do; run_serial (a small call, or a malloc failed);    *)
(* or run_pthreads_static.                                                 *)
Enter ==
  /\ pc[Main] = "call"
  /\ \/ count <= 0 /\ Goto(Main, "returned") /\ UNCHANGED range
     \/ /\ count > 0
        /\ Goto(Main, "loop")
        /\ range' = [range EXCEPT ![Main] = <<0, count>>]
     \/ count > 1 /\ Helpers >= 1 /\ Goto(Main, "cut") /\ UNCHANGED range
  /\ UNCHANGED <<count, maxWorkers, args, nthreads, joined, visits>>

(* The next chunk starts at offset, where the last one ends.               *)
Cut ==
  /\ pc[Main] = "cut"
  /\ LET j == Len(args) + 1
         offset == IF args = <<>> THEN 0 ELSE args[Len(args)][2]
     IN  /\ args' = Append(args, <<offset, offset + ChunkSize(j)>>)
         /\ IF j = Chunks THEN Goto(Main, "spawn") ELSE UNCHANGED pc
  /\ UNCHANGED <<count, maxWorkers, range, nthreads, joined, visits>>

(* fce_thread_create succeeds for the next chunk. *)
Spawn ==
  /\ pc[Main] = "spawn" /\ nthreads < Helpers
  /\ nthreads' = nthreads + 1
  /\ StartLoop(nthreads + 1, nthreads + 1, nthreads + 1)
  /\ UNCHANGED <<count, maxWorkers, args, joined, visits>>

SpawnFails_KeepsLast ==   \* mutant: the caller leaves out its own chunk
  /\ pc[Main] = "spawn" /\ nthreads < Helpers
  /\ StartLoop(Main, nthreads + 1, Chunks - 1)
  /\ UNCHANGED <<count, maxWorkers, args, nthreads, joined, visits>>

SpawnFails_FromStart ==   \* mutant: the fallback restarts at the first chunk
  /\ pc[Main] = "spawn" /\ nthreads < Helpers
  /\ StartLoop(Main, 1, Chunks)
  /\ UNCHANGED <<count, maxWorkers, args, nthreads, joined, visits>>

(* fce_thread_create fails: the caller runs every chunk without a thread.  *)
SpawnFails ==
  /\ pc[Main] = "spawn" /\ nthreads < Helpers
  /\ StartLoop(Main, nthreads + 1, Chunks)
  /\ UNCHANGED <<count, maxWorkers, args, nthreads, joined, visits>>

(* Every thread exists: the caller runs the last chunk. *)
SpawnEnd ==
  /\ pc[Main] = "spawn" /\ nthreads = Helpers
  /\ StartLoop(Main, Chunks, Chunks)
  /\ UNCHANGED <<count, maxWorkers, args, nthreads, joined, visits>>

(* Thread t enters fn for the next index of its loop. *)
Call(t) ==
  /\ pc[t] = "loop" /\ range[t][1] < range[t][2]
  /\ Goto(t, "run")
  /\ visits' = [visits EXCEPT ![range[t][1]] = @ + 1]
  /\ UNCHANGED <<count, maxWorkers, args, range, nthreads, joined>>

(* fn returns and the loop moves on. *)
FnReturn(t) ==
  /\ pc[t] = "run"
  /\ Goto(t, "loop")
  /\ range' = [range EXCEPT ![t][1] = @ + 1]
  /\ UNCHANGED <<count, maxWorkers, args, nthreads, joined, visits>>

(* The loop of thread t is over: the caller joins, the others exit. *)
LoopEnd(t) ==
  /\ pc[t] = "loop" /\ range[t][1] >= range[t][2]
  /\ Goto(t, IF t = Main THEN "join" ELSE "exited")
  /\ UNCHANGED <<count, maxWorkers, args, range, nthreads, joined, visits>>

Join ==
  /\ pc[Main] = "join" /\ joined < nthreads
  /\ pc[joined + 1] = "exited"
  /\ joined' = joined + 1
  /\ UNCHANGED <<count, maxWorkers, args, pc, range, nthreads, visits>>

Return ==
  /\ pc[Main] = "join" /\ joined = nthreads
  /\ Goto(Main, "returned")
  /\ UNCHANGED <<count, maxWorkers, args, range, nthreads, joined, visits>>

MainStep == Enter \/ Cut \/ Spawn \/ SpawnFails \/ SpawnEnd \/ Join \/ Return
Step(t) == Call(t) \/ FnReturn(t) \/ LoopEnd(t) \/ (t = Main /\ MainStep)

(* The call is over. *)
Done == pc[Main] = "returned" /\ UNCHANGED vars

Next == (\E t \in Thread : Step(t)) \/ Done

(* Threads are scheduled by the OS and callbacks are finite loops.         *)
Spec == Init /\ [][Next]_vars /\ \A t \in Thread : WF_vars(Step(t))

-------------------------------------------------------------------------------
InFn(t) == pc[t] = "run"

(* No loop reaches past count, and the ranges of two threads that exist    *)
(* never overlap, so no index is given to two of them (the loops have no   *)
(* atomic to tell them apart).                                             *)
DisjointRanges ==
  /\ \A t \in Thread : range[t][1] <= range[t][2]
                       /\ (range[t][2] = 0 \/ range[t][2] <= count)
  /\ \A t, u \in Thread :
       t # u => (range[t][1] .. range[t][2] - 1)
                  \intersect (range[u][1] .. range[u][2] - 1) = {}

Ended == {i \in Indices :
            visits[i] > 0 /\ \A t \in Thread : InFn(t) => range[t][1] # i}

(* The static call keeps the same promise as the dynamic one: exactly one  *)
(* visit per index, and it returns, after every callback.                  *)
Abstract == INSTANCE ParallelFor WITH
  visits <- visits,
  ended <- Ended,
  returned <- pc[Main] = "returned"

Implements == Abstract!Spec

-------------------------------------------------------------------------------
(* What is true in every state.                                            *)
Idle == {"call", "cut", "spawn"}

TypeOK ==
  /\ count \in Counts /\ maxWorkers \in WorkerOpts
  /\ nthreads \in 0 .. Helpers /\ joined \in 0 .. nthreads
  /\ args \in Seq(Nat \X Nat)
  /\ range \in [Thread -> Nat \X Nat]
  /\ pc \in [Thread -> Idle \union {"none", "loop", "run", "join", "exited", "returned"}]
  /\ visits \in [Indices -> Nat]

(* Where the first n chunks end together.                                  *)
Bound(n) ==
  n * (count \div Chunks) + IF n <= count % Chunks THEN n ELSE count % Chunks

(* The indices a thread may have to run begin and end here.                *)
Origin(t) == IF t = Main THEN Bound(nthreads) ELSE Bound(t - 1)
Limit(t) == IF t = Main THEN count ELSE Bound(t)

Working(t) == IF t = Main THEN pc[Main] \notin Idle ELSE t <= nthreads

CutInv ==
  /\ \A j \in 1 .. Len(args) : args[j] = <<Bound(j - 1), Bound(j)>>
  /\ pc[Main] = "call" => args = <<>>
  /\ pc[Main] = "cut" => count > 0 /\ Len(args) < Chunks
  /\ pc[Main] = "spawn" => count > 0 /\ Len(args) = Chunks

ControlInv ==
  /\ \A t \in Thread \ {Main} :
       IF t <= nthreads THEN pc[t] \in {"loop", "run", "exited"} ELSE pc[t] = "none"
  /\ pc[Main] \in Idle \union {"loop", "run", "join", "returned"}
  /\ pc[Main] \in {"call", "cut"} => nthreads = 0
  /\ pc[Main] # "call" /\ count <= 0 => pc[Main] = "returned" /\ nthreads = 0
  /\ \A t \in 1 .. joined : pc[t] = "exited"

(* The loop of a thread moves through its own indices, and has done them   *)
(* all when it ends.                                                       *)
RangeInv ==
  \A t \in Thread :
    IF Working(t) /\ count > 0
    THEN /\ Origin(t) <= range[t][1] /\ range[t][1] <= range[t][2]
         /\ range[t][2] = Limit(t)
         /\ pc[t] = "run" => range[t][1] < range[t][2]
         /\ pc[t] \in {"join", "exited", "returned"} => range[t][1] = range[t][2]
    ELSE range[t] = <<0, 0>>

(* Thread t has entered fn for i. *)
Entered(t, i) ==
  Origin(t) <= i /\ (i < range[t][1] \/ (pc[t] = "run" /\ i = range[t][1]))

VisitInv ==
  \A i \in Indices : visits[i] = IF \E t \in Thread : Entered(t, i) THEN 1 ELSE 0

IInv == TypeOK /\ CutInv /\ ControlInv /\ RangeInv /\ VisitInv

===============================================================================
