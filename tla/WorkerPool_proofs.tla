-------------------------- MODULE WorkerPool_proofs --------------------------
(***************************************************************************)
(* Proofs about the two parallel loops of src/pipeline/worker_pool.c, for  *)
(* every iteration count, every max_workers option and every default       *)
(* worker count.                                                           *)
(*                                                                         *)
(* The dynamic call (WorkerPool) first.  The argument rests on the         *)
(* inductive invariant IInv of WorkerPool: an index has been handed out    *)
(* exactly when it is below the counter, and a thread that has finished    *)
(* saw the counter at or past count.                                       *)
(*                                                                         *)
(* The static call (WorkerPoolStatic, here S) second.  S!Bound(n) is a     *)
(* closed form of the sum of the first n chunk sizes, which the cutting    *)
(* loop is shown to compute; the invariant S!IInv says that each thread    *)
(* runs through the indices between two bounds, and that an index was      *)
(* visited exactly when the thread that owns it has reached it.            *)
(***************************************************************************)
EXTENDS WorkerPool, Sequences, WellFoundedInduction, FiniteSetTheorems, TLAPS

(* The number of helpers is a natural number within the bound on threads,  *)
(* whatever opts.max_workers is.                                           *)
LEMMA HelpersBounded ==
  ASSUME maxWorkers \in WorkerOpts
  PROVE  Helpers \in 0 .. MaxHelpers
  BY WorkerOptsAssumption, DefaultWorkersAssumption, MaxHelpersAssumption
  DEF Helpers, NWorkers

(* The threads that have finished are a finite set of at most spawned + 1. *)
LEMMA FinishedFinite ==
  ASSUME spawned \in Nat
  PROVE  /\ IsFiniteSet(Finished)
         /\ Cardinality(Finished) \in Nat
         /\ Cardinality(Finished) <= spawned + 1
<1>1. IsFiniteSet(0 .. spawned) /\ Cardinality(0 .. spawned) = spawned + 1
  BY FS_Interval
<1>2. Finished \subseteq 0 .. spawned
  BY DEF Finished
<1> QED
  BY <1>1, <1>2, FS_Subset, FS_CardinalityType

(* Type correctness and the invariant hold at the call.                    *)
LEMMA InitIInv == Init => IInv
<1> SUFFICES ASSUME Init PROVE IInv
  OBVIOUS
<1>1. TypeOK
  BY HelpersBounded DEF Init, TypeOK, Thread, Main, Indices
<1>2. ClaimInv
  BY CountsAssumption DEF Init, ClaimInv, InFn, Thread, Main, Indices
<1>3. ControlInv
  BY MaxHelpersAssumption DEF Init, ControlInv, Thread, Main
<1>4. CounterInv
  BY DEF Init, CounterInv
<1> QED
  BY <1>1, <1>2, <1>3, <1>4 DEF IInv

(* Every step keeps the types.                                             *)
LEMMA TypeStep == IInv /\ [Next]_vars => TypeOK'
<1> SUFFICES ASSUME IInv, [Next]_vars PROVE TypeOK'
  OBVIOUS
<1> USE DEF IInv, TypeOK, Thread, Main, Goto
<1>0. Helpers \in 0 .. MaxHelpers /\ MaxHelpers \in Nat /\ count \in Int
  BY HelpersBounded, MaxHelpersAssumption, CountsAssumption
<1>1. CASE Enter
  BY <1>1 DEF Enter, Indices, Helpers
<1>2. CASE Spawn
  <2>1. spawned + 1 \in Thread /\ spawned' \in 0 .. Helpers
    BY <1>0, <1>2 DEF Spawn
  <2> QED
    BY SMTT(30), <1>0, <1>2, <2>1 DEF Spawn, Indices, Helpers
<1>3. CASE SpawnEnd
  BY <1>3 DEF SpawnEnd, Indices, Helpers
<1>4. ASSUME NEW t \in Thread, Claim(t) PROVE TypeOK'
  <2>1. CASE next < count
    <3>1. next \in Indices
      BY <1>0, <2>1 DEF Indices
    <3> QED
      BY <1>4, <2>1, <3>1 DEF Claim, Visit, Indices, Helpers
  <2>2. CASE ~ (next < count)
    BY <1>4, <2>2 DEF Claim, Exhausted, Indices, Helpers
  <2> QED
    BY <2>1, <2>2
<1>5. ASSUME NEW t \in Thread, FnReturn(t) PROVE TypeOK'
  BY <1>5 DEF FnReturn, Indices, Helpers
<1>6. CASE Join
  BY SMTT(30), <1>6, <1>0 DEF Join, Indices, Helpers
<1>7. CASE Return
  BY <1>7 DEF Return, Indices, Helpers
<1>8. CASE UNCHANGED vars
  BY <1>8 DEF vars, Indices, Helpers
<1> QED
  BY <1>1, <1>2, <1>3, <1>4, <1>5, <1>6, <1>7, <1>8
  DEF Next, Step, MainStep, Done

(* Every step keeps the relation between the counter, the history and the  *)
(* running threads.                                                        *)
LEMMA ClaimStep == IInv /\ [Next]_vars => ClaimInv'
<1> SUFFICES ASSUME IInv, [Next]_vars PROVE ClaimInv'
  OBVIOUS
<1> USE DEF IInv, TypeOK, ClaimInv, Thread, Main, Goto, InFn
<1>0. Helpers \in 0 .. MaxHelpers /\ MaxHelpers \in Nat /\ count \in Int
  BY HelpersBounded, MaxHelpersAssumption, CountsAssumption
<1>1. CASE Enter
  <2>1. \A u \in Thread : InFn(u)' => InFn(u)
    BY <1>1 DEF Enter
  <2>2. UNCHANGED <<count, cur, next, visits>>
    BY <1>1 DEF Enter
  <2> QED
    BY <2>1, <2>2 DEF Indices
<1>2. CASE Spawn
  BY <1>0, <1>2 DEF Spawn, Indices
<1>3. CASE SpawnEnd
  BY <1>3 DEF SpawnEnd, Indices
<1>4. ASSUME NEW t \in Thread, Claim(t) PROVE ClaimInv'
  <2>1. CASE next < count
    <3>1. next \in Indices /\ Indices' = Indices
      BY <1>0, <1>4, <2>1 DEF Indices, Claim
    <3>2. \A i \in Indices : visits'[i] = IF i < next' THEN 1 ELSE 0
      BY <1>0, <1>4, <2>1, <3>1 DEF Claim, Visit, Indices
    <3>3. \A u \in Thread : InFn(u)' => IF u = t THEN cur'[u] = next
                                        ELSE InFn(u) /\ cur'[u] = cur[u]
      BY <1>4, <2>1 DEF Claim, Visit
    <3>4. \A u \in Thread : InFn(u)' => cur'[u] \in Indices /\ cur'[u] < next'
      BY <1>4, <3>1, <3>3 DEF Claim, Indices
    <3>5. \A u, v \in Thread : InFn(u)' /\ InFn(v)' /\ u # v => cur'[u] # cur'[v]
      <4> SUFFICES ASSUME NEW u \in Thread, NEW v \in Thread,
                          InFn(u)', InFn(v)', u # v
                   PROVE  cur'[u] # cur'[v]
        OBVIOUS
      <4>1. \A w \in Thread : InFn(w)' /\ w # t => cur'[w] < next
        BY <3>3
      <4>2. CASE u = t
        BY <4>1, <4>2, <3>3
      <4>3. CASE v = t
        BY <4>1, <4>3, <3>3
      <4>4. CASE u # t /\ v # t
        BY <4>4, <3>3
      <4> QED
        BY <4>2, <4>3, <4>4
    <3> QED
      BY <3>1, <3>2, <3>4, <3>5
  <2>2. CASE ~ (next < count)
    BY <1>0, <1>4, <2>2 DEF Claim, Exhausted, Indices
  <2> QED
    BY <2>1, <2>2
<1>5. ASSUME NEW t \in Thread, FnReturn(t) PROVE ClaimInv'
  BY <1>5 DEF FnReturn, Indices
<1>6. CASE Join
  BY <1>6 DEF Join, Indices
<1>7. CASE Return
  BY <1>7 DEF Return, Indices
<1>8. CASE UNCHANGED vars
  BY <1>8 DEF vars, Indices
<1> QED
  BY <1>1, <1>2, <1>3, <1>4, <1>5, <1>6, <1>7, <1>8
  DEF Next, Step, MainStep, Done

(* Every step keeps the relation between the caller's place and the state  *)
(* of the threads it created.                                              *)
LEMMA ControlStep == IInv /\ [Next]_vars => ControlInv'
<1> SUFFICES ASSUME IInv, [Next]_vars PROVE ControlInv'
  OBVIOUS
<1> USE DEF IInv, TypeOK, ControlInv, Thread, Main, Goto
<1>0. Helpers \in 0 .. MaxHelpers /\ MaxHelpers \in Nat /\ count \in Int
  BY HelpersBounded, MaxHelpersAssumption, CountsAssumption
<1>1. CASE Enter
  BY <1>0, <1>1 DEF Enter
<1>2. CASE Spawn
  BY <1>0, <1>2 DEF Spawn
<1>3. CASE SpawnEnd
  BY <1>0, <1>3 DEF SpawnEnd
<1>4. ASSUME NEW t \in Thread, Claim(t) PROVE ControlInv'
  <2>1. CASE next < count
    BY <1>0, <1>4, <2>1 DEF Claim, Visit
  <2>2. CASE ~ (next < count)
    BY <1>0, <1>4, <2>2 DEF Claim, Exhausted
  <2> QED
    BY <2>1, <2>2
<1>5. ASSUME NEW t \in Thread, FnReturn(t) PROVE ControlInv'
  BY <1>0, <1>5 DEF FnReturn
<1>6. CASE Join
  BY <1>0, <1>6 DEF Join
<1>7. CASE Return
  BY <1>0, <1>7 DEF Return
<1>8. CASE UNCHANGED vars
  BY <1>8 DEF vars
<1> QED
  BY <1>1, <1>2, <1>3, <1>4, <1>5, <1>6, <1>7, <1>8
  DEF Next, Step, MainStep, Done

(* Every step keeps the bound on the counter: a thread that pushes it past *)
(* count joins the finished ones.                                          *)
LEMMA CounterStep == IInv /\ [Next]_vars => CounterInv'
<1> SUFFICES ASSUME IInv, [Next]_vars PROVE CounterInv'
  OBVIOUS
<1> USE DEF IInv, TypeOK, Thread, Main, Goto
<1>0. Helpers \in 0 .. MaxHelpers /\ MaxHelpers \in Nat /\ count \in Int
  BY HelpersBounded, MaxHelpersAssumption, CountsAssumption
<1>f. /\ IsFiniteSet(Finished)
      /\ Cardinality(Finished) \in Nat
  BY FinishedFinite
<1>s. ASSUME Finished' = Finished, UNCHANGED <<count, next>> PROVE CounterInv'
  BY <1>s DEF CounterInv
<1>1. CASE Enter
  BY <1>1 DEF Enter, CounterInv, ControlInv
<1>2. CASE Spawn
  <2>1. Finished' = Finished
    BY <1>0, <1>2 DEF Spawn, Finished, ControlInv
  <2> QED
    BY <1>s, <1>2, <2>1 DEF Spawn
<1>3. CASE SpawnEnd
  <2>1. Finished' = Finished
    BY <1>0, <1>3 DEF SpawnEnd, Finished
  <2> QED
    BY <1>s, <1>3, <2>1 DEF SpawnEnd
<1>4. ASSUME NEW t \in Thread, Claim(t) PROVE CounterInv'
  <2>1. CASE next < count
    <3>1. Finished' = Finished
      BY <1>0, <1>4, <2>1 DEF Claim, Visit, Finished
    <3>2. next' = next + 1 /\ count' = count
      BY <1>4 DEF Claim
    <3> QED
      BY <1>0, <1>f, <2>1, <3>1, <3>2 DEF CounterInv
  <2>2. CASE ~ (next < count)
    <3>1. t \in 0 .. spawned /\ t \notin Finished /\ count > 0
      BY <1>0, <1>4 DEF Claim, Finished, ControlInv
    <3>2. Finished' = Finished \union {t}
      BY <1>0, <1>4, <2>2, <3>1 DEF Claim, Exhausted, Finished
    <3>3. Cardinality(Finished') = Cardinality(Finished) + 1
      BY <1>f, <3>1, <3>2, FS_AddElement
    <3>4. next' = next + 1 /\ count' = count
      BY <1>4 DEF Claim
    <3> QED
      BY <1>0, <1>f, <2>2, <3>1, <3>3, <3>4 DEF CounterInv
  <2> QED
    BY <2>1, <2>2
<1>5. ASSUME NEW t \in Thread, FnReturn(t) PROVE CounterInv'
  <2>1. Finished' = Finished
    BY <1>0, <1>5 DEF FnReturn, Finished
  <2> QED
    BY <1>s, <1>5, <2>1 DEF FnReturn
<1>6. CASE Join
  <2>1. Finished' = Finished
    BY <1>6 DEF Join, Finished
  <2> QED
    BY <1>s, <1>6, <2>1 DEF Join
<1>7. CASE Return
  <2>1. Finished' = Finished
    BY <1>0, <1>7 DEF Return, Finished
  <2> QED
    BY <1>s, <1>7, <2>1 DEF Return
<1>8. CASE UNCHANGED vars
  BY <1>8 DEF vars, CounterInv, Finished
<1> QED
  BY <1>1, <1>2, <1>3, <1>4, <1>5, <1>6, <1>7, <1>8
  DEF Next, Step, MainStep, Done

(* The invariant is inductive.                                             *)
LEMMA Invariance == Spec => []IInv
<1>1. Init => IInv
  BY InitIInv
<1>2. IInv /\ [Next]_vars => IInv'
  BY TypeStep, ClaimStep, ControlStep, CounterStep DEF IInv
<1> QED
  BY <1>1, <1>2, PTL DEF Spec

-------------------------------------------------------------------------------
(* Every variable keeps its type, for every count and option: no thread    *)
(* beyond the clamped number of helpers is created or joined.              *)
THEOREM TypeCorrectness == Spec => []TypeOK
<1>1. IInv => TypeOK
  BY DEF IInv
<1> QED
  BY <1>1, Invariance, PTL

(* When fce_parallel_for returns, each index was visited exactly once and  *)
(* no created thread is still inside the callback.                         *)
THEOREM Completion == Spec => []ReturnedMeansAllDone
<1>1. IInv => ReturnedMeansAllDone
  <2> SUFFICES ASSUME IInv, pc[Main] = "returned"
               PROVE  /\ \A i \in Indices : visits[i] = 1
                      /\ \A t \in Thread : ~ InFn(t)
    BY DEF ReturnedMeansAllDone
  <2> USE DEF IInv, TypeOK, Main, Thread
  <2>1. \A i \in Indices : visits[i] = 1
    BY CountsAssumption DEF ClaimInv, ControlInv, Indices
  <2>2. ASSUME NEW t \in Thread PROVE pc[t] # "run"
    <3>1. CASE t = Main
      BY <3>1
    <3>2. CASE t # Main /\ t <= spawned
      BY <3>2, HelpersBounded, MaxHelpersAssumption DEF ControlInv
    <3>3. CASE t # Main /\ ~ (t <= spawned)
      BY <3>3 DEF ControlInv
    <3> QED
      BY <3>1, <3>2, <3>3
  <2> QED
    BY <2>1, <2>2 DEF InFn
<1> QED
  BY <1>1, Invariance, PTL

(* No index is handed out twice, and no two threads are inside the         *)
(* callback with the same index, whatever their interleaving.              *)
THEOREM MutualExclusion == Spec => []NoSharedSlot
<1>1. IInv => NoSharedSlot
  BY CountsAssumption DEF IInv, TypeOK, ClaimInv, NoSharedSlot, Indices
<1> QED
  BY <1>1, Invariance, PTL

(* The claim counter passes count by at most one per participating thread. *)
THEOREM BoundedOverrun == Spec => []OverrunBounded
<1>1. IInv => OverrunBounded
  <2> SUFFICES ASSUME IInv PROVE OverrunBounded
    OBVIOUS
  <2>1. /\ count \in Int /\ next \in Nat /\ spawned \in Nat
    BY CountsAssumption, HelpersBounded DEF IInv, TypeOK
  <2> QED
    BY <2>1, FinishedFinite DEF IInv, CounterInv, OverrunBounded
<1> QED
  BY <1>1, Invariance, PTL

-------------------------------------------------------------------------------
(* Steps that move no thread into or out of the callback, and do not       *)
(* return, are stutters of the abstract call.                              *)
LEMMA Stutter ==
  ASSUME UNCHANGED <<count, visits, cur>>,
         \A t \in Thread : InFn(t)' <=> InFn(t),
         (pc[Main] = "returned")' <=> (pc[Main] = "returned")
  PROVE  UNCHANGED Abstract!vars
  BY DEF Abstract!vars, Ended, Indices

(* A step of a thread that enters the callback starts its index, a step    *)
(* that leaves it ends its index, and the return of the call is a Return.  *)
LEMMA StepSimulation == IInv /\ [Next]_vars => [Abstract!Next]_(Abstract!vars)
<1> SUFFICES ASSUME IInv, [Next]_vars PROVE [Abstract!Next]_(Abstract!vars)
  OBVIOUS
<1> USE DEF IInv, TypeOK, Thread, Main, Goto
<1>0. Helpers \in 0 .. MaxHelpers /\ MaxHelpers \in Nat /\ count \in Int
  BY HelpersBounded, MaxHelpersAssumption, CountsAssumption
<1>i. Abstract!Indices = Indices
  BY DEF Abstract!Indices, Indices
<1>1. CASE Enter
  <2>1. CASE count <= 0
    <3>1. pc' = [pc EXCEPT ![Main] = "returned"] /\ pc[Main] = "call"
          /\ UNCHANGED <<count, cur, visits>>
      BY <1>0, <1>1, <2>1 DEF Enter
    <3>2. Indices = {} /\ Ended = {} /\ Ended' = {}
      BY SMTT(30), <1>0, <2>1, <3>1 DEF Indices, Ended
    <3>3. Abstract!Return
      BY <1>i, <1>0, <3>1, <3>2 DEF Abstract!Return
    <3> QED
      BY <3>3 DEF Abstract!Next
  <2>2. CASE count > 0
    BY <1>1, <2>2, <1>0, Stutter DEF Enter, InFn
  <2> QED
    BY <1>0, <2>1, <2>2
<1>2. CASE Spawn
  BY <1>0, <1>2, Stutter DEF Spawn, InFn, ControlInv
<1>3. CASE SpawnEnd
  BY <1>0, <1>3, Stutter DEF SpawnEnd, InFn
<1>4. ASSUME NEW t \in Thread, Claim(t) PROVE [Abstract!Next]_(Abstract!vars)
  <2>1. CASE next < count
    <3>1. next \in Indices /\ visits[next] = 0
      BY <1>0, <2>1 DEF Indices, ClaimInv
    <3>2. /\ cur' = [cur EXCEPT ![t] = next]
          /\ visits' = [visits EXCEPT ![next] = 1]
          /\ pc' = [pc EXCEPT ![t] = "run"]
          /\ pc[t] = "loop" /\ count' = count
      BY <1>4, <2>1, <3>1 DEF Claim, Visit
    <3>3. Ended' = Ended
      <4>1. ASSUME NEW i \in Indices PROVE i \in Ended' <=> i \in Ended
        <5>1. CASE i = next
          <6>1. i \notin Ended
            BY <3>1, <5>1 DEF Ended
          <6>2. i \notin Ended'
            BY <3>2, <5>1 DEF Ended, InFn
          <6> QED
            BY <6>1, <6>2
        <5>2. CASE i # next
          <6>1. visits'[i] = visits[i] /\ Indices' = Indices
            BY <3>2, <5>2 DEF Indices
          <6>2. \A u \in Thread : (InFn(u)' /\ cur'[u] = i) <=> (InFn(u) /\ cur[u] = i)
            BY <3>2, <5>2 DEF InFn
          <6> QED
            BY <6>1, <6>2 DEF Ended
        <5> QED
          BY <5>1, <5>2
      <4>2. Ended \subseteq Indices /\ Ended' \subseteq Indices
        BY <3>2 DEF Ended, Indices
      <4> QED
        BY <4>1, <4>2
    <3>4. (pc[Main] = "returned")' <=> (pc[Main] = "returned")
      BY <1>0, <3>2
    <3>5. Abstract!Start(next)
      BY <3>1, <3>2, <3>3, <3>4 DEF Abstract!Start
    <3> QED
      BY <3>1, <3>5, <1>i DEF Abstract!Next
  <2>2. CASE ~ (next < count)
    BY <1>0, <1>4, <2>2, Stutter DEF Claim, Exhausted, InFn
  <2> QED
    BY <2>1, <2>2
<1>5. ASSUME NEW t \in Thread, FnReturn(t) PROVE [Abstract!Next]_(Abstract!vars)
  <2> DEFINE i == cur[t]
  <2>1. /\ i \in Indices /\ visits[i] = 1 /\ i \notin Ended
        /\ \A u \in Thread : InFn(u) /\ u # t => cur[u] # i
    BY <1>5 DEF FnReturn, ClaimInv, InFn, Ended
  <2>2. pc' = [pc EXCEPT ![t] = "loop"] /\ pc[t] = "run"
        /\ UNCHANGED <<count, cur, visits>> /\ Indices' = Indices
    BY <1>5 DEF FnReturn, Indices
  <2>3. Ended' = Ended \union {i}
    <3>1. ASSUME NEW j \in Indices PROVE j \in Ended' <=> j \in Ended \union {i}
      <4>1. \A u \in Thread : InFn(u)' <=> InFn(u) /\ u # t
        BY <2>2 DEF InFn
      <4>2. CASE j = i
        BY <2>1, <2>2, <4>1, <4>2 DEF Ended
      <4>3. CASE j # i
        BY <2>1, <2>2, <4>1, <4>3 DEF Ended
      <4> QED
        BY <4>2, <4>3
    <3>2. Ended \subseteq Indices /\ Ended' \subseteq Indices
      BY <2>2 DEF Ended
    <3> QED
      BY <3>1, <3>2, <2>1
  <2>4. (pc[Main] = "returned")' <=> (pc[Main] = "returned")
    BY <1>0, <2>2
  <2>5. Abstract!End(i)
    BY <2>1, <2>2, <2>3, <2>4 DEF Abstract!End
  <2> QED
    BY <2>1, <2>5, <1>i DEF Abstract!Next
<1>6. CASE Join
  BY <1>6, Stutter DEF Join, InFn
<1>7. CASE Return
  <2>1. pc' = [pc EXCEPT ![Main] = "returned"] /\ pc[Main] = "join"
        /\ joined = spawned /\ UNCHANGED <<count, cur, visits>>
    BY <1>7 DEF Return
  <2>2. \A t \in Thread : ~ InFn(t) /\ ~ InFn(t)'
    BY <1>0, <2>1 DEF InFn, ControlInv
  <2>3. \A i \in Indices : visits[i] = 1
    BY <1>0, <2>1 DEF ClaimInv, ControlInv, Indices
  <2>4. Ended = Indices /\ Ended' = Indices
    BY <2>1, <2>2, <2>3 DEF Ended, Indices
  <2>5. Abstract!Return
    BY <1>0, <1>i, <2>1, <2>4 DEF Abstract!Return
  <2> QED
    BY <2>5 DEF Abstract!Next
<1>8. CASE UNCHANGED vars
  BY <1>8, Stutter DEF vars, InFn
<1> QED
  BY <1>1, <1>2, <1>3, <1>4, <1>5, <1>6, <1>7, <1>8
  DEF Next, Step, MainStep, Done

(* fce_parallel_for implements the safety part of the promise of           *)
(* worker_pool.h: every run of the call is a run of ParallelFor.           *)
THEOREM SafetyRefinement == Spec => Abstract!Safety
<1>1. Init => Abstract!Init
  <2> SUFFICES ASSUME Init PROVE Abstract!Init
    OBVIOUS
  <2>1. Ended = {}
    BY DEF Init, Ended
  <2>2. pc[Main] # "returned"
    BY MaxHelpersAssumption DEF Init, Thread, Main
  <2> QED
    BY <2>1, <2>2 DEF Init, Abstract!Init, Abstract!Indices, Indices
<1> QED
  BY <1>1, StepSimulation, Invariance, PTL DEF Spec, Abstract!Safety


-------------------------------------------------------------------------------
(* The static call has the constants of the dynamic one, and the chunks    *)
(* and the loops in place of the counter.                                  *)
VARIABLES args, range, nthreads

S == INSTANCE WorkerPoolStatic

(* The number of threads to create is a natural number within the bound on *)
(* threads, whatever opts.max_workers is.                                  *)
LEMMA StaticHelpersBounded ==
  ASSUME maxWorkers \in WorkerOpts
  PROVE  S!Helpers \in 0 .. MaxHelpers /\ MaxHelpers \in Nat
  BY WorkerOptsAssumption, DefaultWorkersAssumption, MaxHelpersAssumption
  DEF NWorkers, S!Helpers, S!NWorkers

(* The quotient and the remainder of the count by the number of chunks.    *)
LEMMA Division ==
  ASSUME NEW c \in Nat, NEW k \in Nat \ {0}
  PROVE  /\ c \div k \in Nat /\ c % k \in 0 .. k - 1
         /\ c = k * (c \div k) + (c % k)
  OBVIOUS

(* Multiples of a natural number grow.                                     *)
LEMMA Multiples ==
  ASSUME NEW q \in Nat, NEW m \in Nat, NEW n \in Nat
  PROVE  /\ n * q \in Nat
         /\ (n + 1) * q = n * q + q
         /\ m <= n => m * q <= n * q
<1>1. n * q \in Nat /\ m * q \in Nat /\ (n + 1) * q = n * q + q
  OBVIOUS
<1>2. ASSUME m <= n PROVE m * q <= n * q
  <2>1. PICK d \in Nat : n = m + d
    <3>1. n - m \in Nat /\ n = m + (n - m)
      BY <1>2
    <3> QED
      BY <3>1
  <2>2. n * q = m * q + d * q /\ d * q \in Nat
    BY <2>1
  <2> QED
    BY <1>1, <2>2
<1> QED
  BY <1>1, <1>2

(* The bounds start at 0, end at count, grow, and are as far apart as the  *)
(* chunks are long.                                                        *)
LEMMA Bounds ==
  ASSUME maxWorkers \in WorkerOpts, count \in Nat
  PROVE  /\ \A n \in Nat : /\ S!Bound(n) \in Nat
                           /\ S!Bound(n + 1) = S!Bound(n) + S!ChunkSize(n + 1)
         /\ \A m, n \in Nat : m <= n => S!Bound(m) <= S!Bound(n)
         /\ S!Bound(0) = 0 /\ S!Bound(S!Chunks) = count
<1> DEFINE q == count \div S!Chunks
           r == count % S!Chunks
<1>1. S!Chunks \in Nat \ {0}
  BY StaticHelpersBounded DEF S!Chunks
<1>2. q \in Nat /\ r \in 0 .. S!Chunks - 1 /\ count = S!Chunks * q + r
  BY <1>1, Division
<1>3. /\ \A n : S!Bound(n) = n * q + IF n <= r THEN n ELSE r
      /\ \A n : S!ChunkSize(n) = q + IF n <= r THEN 1 ELSE 0
  BY DEF S!Bound, S!ChunkSize
<1> HIDE DEF q, r
<1>4. ASSUME NEW n \in Nat
      PROVE S!Bound(n) \in Nat /\ S!Bound(n + 1) = S!Bound(n) + S!ChunkSize(n + 1)
  <2>1. n * q \in Nat /\ (n + 1) * q = n * q + q
    BY <1>2, <1>4, Multiples
  <2>2. /\ S!Bound(n) = n * q + IF n <= r THEN n ELSE r
        /\ S!Bound(n + 1) = (n + 1) * q + IF n + 1 <= r THEN n + 1 ELSE r
        /\ S!ChunkSize(n + 1) = q + IF n + 1 <= r THEN 1 ELSE 0
    BY <1>3
  <2> QED
    BY <1>2, <1>4, <2>1, <2>2
<1>5. ASSUME NEW m \in Nat, NEW n \in Nat, m <= n PROVE S!Bound(m) <= S!Bound(n)
  <2>1. m * q \in Nat /\ n * q \in Nat /\ m * q <= n * q
    BY <1>2, <1>5, Multiples
  <2> QED
    BY <1>1, <1>2, <1>3, <1>5, <2>1
<1>6. S!Bound(0) = 0 /\ S!Bound(S!Chunks) = count
  BY <1>1, <1>2, <1>3
<1> QED
  BY <1>4, <1>5, <1>6

(* Every index lies between two neighbouring bounds.                       *)
LEMMA Covering ==
  ASSUME maxWorkers \in WorkerOpts, count \in Nat,
         NEW n \in Nat, NEW i \in Nat, i < S!Bound(n)
  PROVE  \E j \in 1 .. n : S!Bound(j - 1) <= i /\ i < S!Bound(j)
<1> DEFINE T == {j \in Nat : i < S!Bound(j)}
<1>1. \A j \in Nat : S!Bound(j) \in Nat
  BY Bounds
<1>2. S!Bound(0) = 0 /\ \A k, j \in Nat : k <= j => S!Bound(k) <= S!Bound(j)
  BY Bounds
<1>3. PICK j \in T : \A k \in T : <<k, j>> \notin OpToRel(<, Nat)
  <2>1. T \subseteq Nat /\ T # {}
    OBVIOUS
  <2> HIDE DEF T
  <2> QED
    BY <2>1, WFMin, NatLessThanWellFounded
<1>4. \A k \in T : ~ (k < j)
  BY <1>3 DEF OpToRel
<1>5. j \in Nat /\ j # 0
  BY <1>1, <1>2
<1>6. j <= n
  BY <1>4, <1>5
<1>7. j - 1 \in Nat /\ ~ (i < S!Bound(j - 1))
  BY <1>4, <1>5
<1> QED
  BY <1>1, <1>5, <1>6, <1>7

(* What the call's parameters determine does not change.                   *)
LEMMA Parameters ==
  ASSUME UNCHANGED <<count, maxWorkers>>
  PROVE  /\ S!Helpers' = S!Helpers /\ S!Chunks' = S!Chunks /\ S!Indices' = S!Indices
         /\ \A n : S!Bound(n)' = S!Bound(n)
  BY DEF S!Helpers, S!Chunks, S!Indices, S!Bound

(* What the actions need of the invariant, in plain numbers.               *)
LEMMA Numbers ==
  ASSUME S!TypeOK
  PROVE  /\ count \in Int /\ MaxHelpers \in Nat
         /\ S!Helpers \in 0 .. MaxHelpers /\ S!Chunks = S!Helpers + 1
         /\ nthreads \in 0 .. S!Helpers /\ joined \in 0 .. nthreads
         /\ S!Indices = {i \in Nat : i < count}
         /\ \A t \in S!Thread : range[t][1] \in Nat /\ range[t][2] \in Nat
BY StaticHelpersBounded, CountsAssumption DEF S!TypeOK, S!Chunks, S!Indices

(* Indices already entered stay so, and no other is, when no thread enters *)
(* the callback.                                                           *)
LEMMA VisitKept ==
  ASSUME S!VisitInv, UNCHANGED <<count, visits>>,
         \A t \in S!Thread, i \in S!Indices : S!Entered(t, i)' <=> S!Entered(t, i)
  PROVE  S!VisitInv'
<1>1. S!Indices' = S!Indices
  BY DEF S!Indices
<1> QED
  BY <1>1 DEF S!VisitInv

(* A thread that is not working entered nothing.                           *)
LEMMA Resting ==
  ASSUME NEW t \in S!Thread, NEW i \in Nat, range[t] = <<0, 0>>, pc[t] # "run"
  PROVE  ~ S!Entered(t, i)
  BY DEF S!Entered

-------------------------------------------------------------------------------
(* The invariant holds at the call.                                        *)
LEMMA StaticInit == S!Init => S!IInv
<1> SUFFICES ASSUME S!Init PROVE S!IInv
  OBVIOUS
<1>1. S!TypeOK
  BY StaticHelpersBounded DEF S!Init, S!TypeOK, S!Thread, S!Main, S!Idle
<1>2. S!CutInv
  <2>1. MaxHelpers \in Nat
    BY StaticHelpersBounded DEF S!Init
  <2>2. pc[S!Main] = "call" /\ args = <<>> /\ Len(args) = 0
    BY <2>1 DEF S!Init, S!Thread, S!Main
  <2> QED
    BY <2>2 DEF S!CutInv
<1>3. S!ControlInv
  BY StaticHelpersBounded DEF S!Init, S!ControlInv, S!Thread, S!Main, S!Idle
<1>4. S!RangeInv
  BY StaticHelpersBounded DEF S!Init, S!RangeInv, S!Working, S!Thread, S!Main, S!Idle
<1>5. S!VisitInv
  BY <1>1, Numbers, Resting DEF S!Init, S!VisitInv, S!Thread, S!Main
<1> QED
  BY <1>1, <1>2, <1>3, <1>4, <1>5 DEF S!IInv

(* The call does nothing, runs serially or goes on to cut the chunks.      *)
LEMMA EnterKeeps == S!IInv /\ S!Enter => S!IInv'
<1> SUFFICES ASSUME S!IInv, S!Enter PROVE S!IInv'
  OBVIOUS
<1> USE DEF S!IInv, S!Thread, S!Main, S!Idle, S!Goto
<1>0. UNCHANGED <<count, maxWorkers, args, nthreads, joined, visits>> /\ pc[S!Main] = "call"
  BY DEF S!Enter
<1>1. nthreads = 0 /\ args = <<>> /\ \A t \in S!Thread : range[t] = <<0, 0>>
  BY <1>0, Numbers DEF S!ControlInv, S!CutInv, S!RangeInv, S!Working
<1>2. /\ pc' = [pc EXCEPT ![S!Main] = pc'[S!Main]]
      /\ pc'[S!Main] \in {"cut", "loop", "returned"}
      /\ pc'[S!Main] = "returned" <=> count <= 0
      /\ range' = IF pc'[S!Main] = "loop" THEN [range EXCEPT ![S!Main] = <<0, count>>] ELSE range
  BY Numbers DEF S!Enter, S!TypeOK
<1>3. S!TypeOK'
  <2>1. S!Main \in S!Thread /\ pc' \in [S!Thread -> S!Idle \union {"none", "loop", "run", "join", "exited", "returned"}]
    <3> DEFINE l == pc'[S!Main]
    <3>1. pc' = [pc EXCEPT ![S!Main] = l] /\ l \in {"cut", "loop", "returned"}
      BY <1>2
    <3> HIDE DEF l
    <3> QED
      BY <3>1, Numbers DEF S!TypeOK
  <2>2. range' \in [S!Thread -> Nat \X Nat]
    <3>1. CASE pc'[S!Main] = "loop"
      <4>1. count \in Nat /\ range' = [range EXCEPT ![S!Main] = <<0, count>>]
        BY <1>2, <3>1, Numbers
      <4> QED
        BY <4>1 DEF S!TypeOK
    <3>2. CASE pc'[S!Main] # "loop"
      BY <1>2, <3>2 DEF S!TypeOK
    <3> QED
      BY <3>1, <3>2
  <2> QED
    BY <1>0, <2>1, <2>2, Numbers, Parameters DEF S!TypeOK
<1>4. S!CutInv'
  BY <1>0, <1>1, <1>2, Numbers, Parameters DEF S!CutInv, S!TypeOK
<1>5. S!ControlInv'
  BY <1>0, <1>1, <1>2, Numbers, Parameters DEF S!ControlInv, S!TypeOK
<1>6. S!RangeInv'
  <2>1. count > 0 => S!Bound(0) = 0
    BY Numbers, Bounds DEF S!TypeOK
  <2> QED
    BY <1>0, <1>1, <1>2, <2>1, Numbers, Parameters
    DEF S!RangeInv, S!TypeOK, S!Working, S!Origin, S!Limit
<1>7. S!VisitInv'
  <2>1. ASSUME NEW t \in S!Thread, NEW i \in S!Indices PROVE ~ S!Entered(t, i)
    BY <1>0, <1>1, Numbers, Resting DEF S!ControlInv
  <2>2. ASSUME NEW t \in S!Thread, NEW i \in S!Indices PROVE ~ S!Entered(t, i)'
    BY <1>0, <1>1, <1>2, Numbers DEF S!ControlInv, S!Entered, S!TypeOK
  <2> QED
    BY <1>0, <2>1, <2>2, VisitKept
<1> QED
  BY <1>3, <1>4, <1>5, <1>6, <1>7

(* One more chunk is cut.                                                  *)
LEMMA CutKeeps == S!IInv /\ S!Cut => S!IInv'
<1> SUFFICES ASSUME S!IInv, S!Cut PROVE S!IInv'
  OBVIOUS
<1> USE DEF S!IInv, S!Thread, S!Main, S!Idle, S!Goto
<1> DEFINE n == Len(args)
           offset == IF args = <<>> THEN 0 ELSE args[Len(args)][2]
<1>0. /\ UNCHANGED <<count, maxWorkers, range, nthreads, joined, visits>>
      /\ pc[S!Main] = "cut" /\ nthreads = 0 /\ count > 0 /\ n < S!Chunks /\ n \in Nat
  BY DEF S!Cut, S!ControlInv, S!CutInv, S!TypeOK
<1>1. /\ args' = Append(args, <<offset, offset + S!ChunkSize(n + 1)>>)
      /\ pc' = [pc EXCEPT ![S!Main] = IF n + 1 = S!Chunks THEN "spawn" ELSE "cut"]
  BY <1>0 DEF S!Cut, S!TypeOK
<1>2. /\ S!Bound(n) \in Nat /\ S!Bound(n + 1) \in Nat
      /\ offset = S!Bound(n) /\ offset + S!ChunkSize(n + 1) = S!Bound(n + 1)
  <2>1. offset = S!Bound(n)
    <3>1. CASE n = 0
      <4>1. args = <<>> /\ S!Bound(0) = 0
        BY <1>0, <3>1, Bounds, Numbers DEF S!TypeOK
      <4> QED
        BY <3>1, <4>1
    <3>2. CASE n # 0
      <4>1. args # <<>> /\ n \in 1 .. n
        BY <1>0, <3>2
      <4>2. args[n] = <<S!Bound(n - 1), S!Bound(n)>>
        BY <4>1 DEF S!CutInv
      <4> QED
        BY <4>1, <4>2
    <3> QED
      BY <3>1, <3>2
  <2>2. \A k \in Nat : S!Bound(k) \in Nat /\ S!Bound(k + 1) = S!Bound(k) + S!ChunkSize(k + 1)
    <3>1. count \in Nat /\ maxWorkers \in WorkerOpts
      BY <1>0, Numbers DEF S!TypeOK
    <3> QED
      BY <3>1, Bounds
  <2> HIDE DEF offset
  <2> QED
    BY <1>0, <2>1, <2>2
<1> HIDE DEF offset
<1>3. args' = Append(args, <<S!Bound(n), S!Bound(n + 1)>>)
  BY <1>1, <1>2
<1>4. args' \in Seq(Nat \X Nat) /\ Len(args') = n + 1
      /\ \A j \in 1 .. n + 1 : args'[j] = IF j = n + 1 THEN <<S!Bound(n), S!Bound(n + 1)>> ELSE args[j]
  BY <1>0, <1>2, <1>3 DEF S!TypeOK
<1>5. S!TypeOK'
  BY <1>0, <1>1, <1>4, Numbers, Parameters DEF S!TypeOK
<1>6. S!CutInv'
  <2>1. \A j \in 1 .. Len(args') : args'[j] = <<S!Bound(j - 1), S!Bound(j)>>
    <3> SUFFICES ASSUME NEW j \in 1 .. Len(args')
                 PROVE  args'[j] = <<S!Bound(j - 1), S!Bound(j)>>
      OBVIOUS
    <3>1. j \in 1 .. n + 1 /\ (j # n + 1 => j \in 1 .. n) /\ (n + 1) - 1 = n
      BY <1>0, <1>4
    <3>2. j \in 1 .. n => args[j] = <<S!Bound(j - 1), S!Bound(j)>>
      BY DEF S!CutInv
    <3> QED
      BY <1>4, <3>1, <3>2
  <2>2. \A j \in 1 .. Len(args') : args'[j] = <<S!Bound(j - 1)', S!Bound(j)'>>
    BY <1>0, <2>1, Parameters
  <2>3. pc'[S!Main] = IF n + 1 = S!Chunks THEN "spawn" ELSE "cut"
    BY <1>1, Numbers DEF S!TypeOK
  <2> QED
    BY <1>0, <1>4, <2>2, <2>3, Numbers, Parameters DEF S!CutInv
<1>7. S!ControlInv'
  BY <1>0, <1>1, Numbers DEF S!ControlInv, S!TypeOK
<1>8. S!RangeInv'
  BY <1>0, <1>1, Numbers DEF S!RangeInv, S!TypeOK, S!Working
<1>9. S!VisitInv'
  <2>1. ASSUME NEW t \in S!Thread, NEW i \in S!Indices
        PROVE  S!Entered(t, i)' <=> S!Entered(t, i)
    BY <1>0, <1>1, Parameters DEF S!Entered, S!Origin, S!TypeOK
  <2> QED
    BY <1>0, <2>1, VisitKept
<1> QED
  BY <1>5, <1>6, <1>7, <1>8, <1>9

(* A new thread starts at the first index of its chunk.                    *)
LEMMA SpawnKeeps == S!IInv /\ S!Spawn => S!IInv'
<1> SUFFICES ASSUME S!IInv, S!Spawn PROVE S!IInv'
  OBVIOUS
<1> USE DEF S!IInv, S!Thread, S!Main, S!Idle, S!Goto
<1> DEFINE n == nthreads
           u == nthreads + 1
<1>0. /\ UNCHANGED <<count, maxWorkers, args, joined, visits>>
      /\ pc[S!Main] = "spawn" /\ nthreads' = n + 1 /\ n < S!Helpers
      /\ n \in Nat /\ u \in S!Thread /\ u # S!Main
      /\ count \in Nat /\ count > 0 /\ u \in 1 .. Len(args)
  BY Numbers DEF S!Spawn, S!CutInv
<1>1. /\ \A k \in Nat : S!Bound(k) \in Nat
      /\ S!Bound(n) <= S!Bound(u)
  <2>1. maxWorkers \in WorkerOpts
    BY DEF S!TypeOK
  <2>2. /\ \A k \in Nat : S!Bound(k) \in Nat
        /\ \A k, m \in Nat : k <= m => S!Bound(k) <= S!Bound(m)
    BY <1>0, <2>1, Bounds
  <2>3. u \in Nat /\ n <= u
    BY <1>0
  <2> HIDE DEF u, n
  <2> QED
    BY <1>0, <2>2, <2>3
<1>2. /\ range' = [range EXCEPT ![u] = <<S!Bound(n), S!Bound(u)>>]
      /\ pc' = [pc EXCEPT ![u] = "loop"]
  <2>1. args[u] = <<S!Bound(n), S!Bound(u)>>
    BY <1>0 DEF S!CutInv
  <2> QED
    BY <2>1 DEF S!Spawn, S!StartLoop
<1> HIDE DEF u
<1>3. S!TypeOK'
  <2>1. nthreads' \in 0 .. S!Helpers /\ joined' \in 0 .. nthreads'
    BY <1>0, Numbers
  <2>2. range' \in [S!Thread -> Nat \X Nat]
    BY <1>0, <1>1, <1>2 DEF S!TypeOK
  <2> QED
    BY <1>0, <1>2, <2>1, <2>2, Parameters DEF S!TypeOK
<1>4. S!CutInv'
  BY <1>0, <1>2, Parameters DEF S!CutInv, S!TypeOK
<1>5. S!ControlInv'
  <2>1. pc'[u] = "loop" /\ \A t \in S!Thread \ {u} : pc'[t] = pc[t]
    BY <1>0, <1>2 DEF S!TypeOK
  <2>2. joined \in 0 .. n /\ \A t \in 1 .. joined : t \in S!Thread /\ t # u
    BY <1>0, Numbers DEF u
  <2>3. \A t \in S!Thread \ {S!Main} : t <= nthreads' <=> t <= nthreads \/ t = u
    BY <1>0 DEF u
  <2>4. \A t \in S!Thread \ {S!Main} :
          IF t <= nthreads' THEN pc'[t] \in {"loop", "run", "exited"} ELSE pc'[t] = "none"
    BY <2>1, <2>3 DEF S!ControlInv
  <2>5. pc'[S!Main] = "spawn" /\ count' > 0
    BY <1>0, <2>1, Numbers
  <2>6. \A t \in 1 .. joined' : pc'[t] = "exited"
    BY <1>0, <2>1, <2>2 DEF S!ControlInv
  <2> QED
    BY <1>0, <2>4, <2>5, <2>6 DEF S!ControlInv
<1>6. range[S!Main] = <<0, 0>> /\ range[u] = <<0, 0>>
  <2>1. ~ S!Working(S!Main) /\ ~ S!Working(u) /\ S!Main \in S!Thread
    BY <1>0, Numbers DEF S!Working, u
  <2> QED
    BY <1>0, <2>1 DEF S!RangeInv
<1>7. S!RangeInv'
  <2> SUFFICES ASSUME NEW t \in S!Thread
               PROVE (IF S!Working(t) /\ count > 0
                      THEN /\ S!Origin(t) <= range[t][1] /\ range[t][1] <= range[t][2]
                           /\ range[t][2] = S!Limit(t)
                           /\ pc[t] = "run" => range[t][1] < range[t][2]
                           /\ pc[t] \in {"join", "exited", "returned"} => range[t][1] = range[t][2]
                      ELSE range[t] = <<0, 0>>)'
    BY DEF S!RangeInv
  <2>1. CASE t = S!Main
    BY <1>0, <1>2, <1>6, <2>1 DEF S!TypeOK, S!Working
  <2>2. CASE t = u
    BY <1>0, <1>1, <1>2, <2>2, Parameters DEF S!TypeOK, S!Working, S!Origin, S!Limit, u
  <2>3. CASE t # S!Main /\ t # u
    <3>1. pc'[t] = pc[t] /\ range'[t] = range[t] /\ (S!Working(t)' <=> S!Working(t))
      BY <1>0, <1>2, <2>3 DEF S!TypeOK, S!Working, u
    <3>2. S!Origin(t)' = S!Origin(t) /\ S!Limit(t)' = S!Limit(t)
      BY <1>0, <2>3, Parameters DEF S!Origin, S!Limit
    <3> QED
      BY <1>0, <3>1, <3>2 DEF S!RangeInv
  <2> QED
    BY <2>1, <2>2, <2>3
<1>8. S!VisitInv'
  <2>1. ASSUME NEW t \in S!Thread, NEW i \in S!Indices
        PROVE  S!Entered(t, i)' <=> S!Entered(t, i)
    <3>0. i \in Nat
      BY Numbers
    <3>1. CASE t = S!Main
      BY <1>0, <1>2, <1>6, <3>0, <3>1 DEF S!Entered, S!TypeOK
    <3>2. CASE t = u
      <4>1. ~ S!Entered(t, i)
        BY <1>0, <1>6, <3>0, <3>2, Resting DEF S!ControlInv, u
      <4>2. ~ S!Entered(t, i)'
        <5>1. pc'[t] = "loop" /\ range'[t] = <<S!Bound(n), S!Bound(u)>>
          BY <1>0, <1>2, <3>2 DEF S!TypeOK
        <5>2. S!Origin(t)' = S!Bound(n)
          BY <1>0, <3>2, Parameters DEF S!Origin, u
        <5>3. S!Bound(n) \in Nat /\ ~ (S!Bound(n) <= i /\ i < S!Bound(n))
          BY <1>0, <1>1, <3>0
        <5> QED
          BY <5>1, <5>2, <5>3 DEF S!Entered
      <4> QED
        BY <4>1, <4>2
    <3>3. CASE t # S!Main /\ t # u
      BY <1>0, <1>2, <3>3, Parameters DEF S!Entered, S!Origin, S!TypeOK
    <3> QED
      BY <3>1, <3>2, <3>3
  <2> QED
    BY <1>0, <2>1, VisitKept
<1> QED
  BY <1>3, <1>4, <1>5, <1>7, <1>8

(* Whether or not a thread is missing, the caller's loop starts where the  *)
(* last thread's chunk ends and goes up to count.                          *)
LEMMA CallerStarts ==
  ASSUME S!IInv, S!SpawnFails \/ S!SpawnEnd
  PROVE  /\ UNCHANGED <<count, maxWorkers, args, nthreads, joined, visits>>
         /\ pc[S!Main] = "spawn" /\ pc' = [pc EXCEPT ![S!Main] = "loop"]
         /\ range' = [range EXCEPT ![S!Main] = <<S!Bound(nthreads), count>>]
         /\ count \in Nat /\ count > 0
         /\ S!Bound(nthreads) \in Nat /\ S!Bound(nthreads) <= count
<1> USE DEF S!IInv
<1>1. /\ UNCHANGED <<count, maxWorkers, args, nthreads, joined, visits>>
      /\ pc[S!Main] = "spawn" /\ pc' = [pc EXCEPT ![S!Main] = "loop"]
      /\ range' = [range EXCEPT ![S!Main] = <<args[nthreads + 1][1], args[S!Chunks][2]>>]
  BY Numbers DEF S!SpawnFails, S!SpawnEnd, S!StartLoop, S!Goto
<1>2. /\ count \in Nat /\ count > 0 /\ Len(args) = S!Chunks
      /\ maxWorkers \in WorkerOpts /\ S!Chunks \in Nat
      /\ nthreads \in Nat /\ nthreads + 1 \in 1 .. S!Chunks
  BY <1>1, Numbers DEF S!CutInv, S!TypeOK
<1>3. args[nthreads + 1][1] = S!Bound(nthreads) /\ args[S!Chunks][2] = S!Bound(S!Chunks)
  <2>1. args[nthreads + 1] = <<S!Bound((nthreads + 1) - 1), S!Bound(nthreads + 1)>>
    BY <1>2 DEF S!CutInv
  <2>2. args[S!Chunks] = <<S!Bound(S!Chunks - 1), S!Bound(S!Chunks)>>
    BY <1>2 DEF S!CutInv
  <2>3. (nthreads + 1) - 1 = nthreads
    BY <1>2
  <2> QED
    BY <2>1, <2>2, <2>3
<1>4. S!Bound(S!Chunks) = count /\ S!Bound(nthreads) \in Nat /\ S!Bound(nthreads) <= S!Bound(S!Chunks)
  <2>1. nthreads <= S!Chunks
    BY <1>2
  <2> QED
    BY <1>2, <2>1, Bounds
<1> QED
  BY <1>1, <1>2, <1>3, <1>4

(* So the caller's loop has everything no thread has.                      *)
LEMMA StartKeeps == S!IInv /\ (S!SpawnFails \/ S!SpawnEnd) => S!IInv'
<1> SUFFICES ASSUME S!IInv, S!SpawnFails \/ S!SpawnEnd PROVE S!IInv'
  OBVIOUS
<1> USE DEF S!IInv, S!Thread, S!Main, S!Idle
<1>0. /\ UNCHANGED <<count, maxWorkers, args, nthreads, joined, visits>>
      /\ pc[S!Main] = "spawn" /\ pc' = [pc EXCEPT ![S!Main] = "loop"]
      /\ range' = [range EXCEPT ![S!Main] = <<S!Bound(nthreads), count>>]
      /\ count \in Nat /\ count > 0
      /\ S!Bound(nthreads) \in Nat /\ S!Bound(nthreads) <= count
  BY CallerStarts
<1>1. S!Main \in S!Thread /\ range[S!Main] = <<0, 0>>
  BY <1>0, Numbers DEF S!RangeInv, S!Working
<1>2. /\ pc'[S!Main] = "loop" /\ range'[S!Main] = <<S!Bound(nthreads), count>>
      /\ \A t \in S!Thread \ {S!Main} : pc'[t] = pc[t] /\ range'[t] = range[t]
  BY <1>0, <1>1 DEF S!TypeOK
<1>3. S!TypeOK'
  <2>1. range' \in [S!Thread -> Nat \X Nat]
    BY <1>0 DEF S!TypeOK
  <2> QED
    BY <1>0, <2>1, Parameters DEF S!TypeOK
<1>4. S!CutInv'
  BY <1>0, <1>2, Parameters DEF S!CutInv
<1>5. S!ControlInv'
  BY <1>0, <1>2, Numbers DEF S!ControlInv
<1>6. S!RangeInv'
  <2>1. \A t \in S!Thread \ {S!Main} : S!Working(t)' = S!Working(t) /\ S!Origin(t)' = S!Origin(t) /\ S!Limit(t)' = S!Limit(t)
    BY <1>0, Parameters DEF S!Working, S!Origin, S!Limit
  <2>2. S!Working(S!Main)' /\ S!Origin(S!Main)' = S!Bound(nthreads) /\ S!Limit(S!Main)' = count
    BY <1>0, <1>2, Parameters DEF S!Working, S!Origin, S!Limit
  <2>3. \A t \in S!Thread \ {S!Main} :
          IF S!Working(t)' /\ count' > 0
          THEN /\ S!Origin(t)' <= range'[t][1] /\ range'[t][1] <= range'[t][2]
               /\ range'[t][2] = S!Limit(t)'
               /\ pc'[t] = "run" => range'[t][1] < range'[t][2]
               /\ pc'[t] \in {"join", "exited", "returned"} => range'[t][1] = range'[t][2]
          ELSE range'[t] = <<0, 0>>
    BY <1>0, <1>2, <2>1 DEF S!RangeInv
  <2> QED
    BY <1>0, <1>2, <2>2, <2>3 DEF S!RangeInv
<1>7. S!VisitInv'
  <2>1. ASSUME NEW t \in S!Thread, NEW i \in S!Indices
        PROVE  S!Entered(t, i)' <=> S!Entered(t, i)
    <3>0. i \in Nat
      BY Numbers
    <3>1. CASE t = S!Main
      <4>1. ~ S!Entered(t, i)
        BY <1>0, <1>1, <3>0, <3>1, Resting
      <4>2. ~ S!Entered(t, i)'
        BY <1>0, <1>2, <3>0, <3>1, Parameters DEF S!Entered, S!Origin
      <4> QED
        BY <4>1, <4>2
    <3>2. CASE t # S!Main
      BY <1>0, <1>2, <3>2, Parameters DEF S!Entered, S!Origin
    <3> QED
      BY <3>1, <3>2
  <2> QED
    BY <1>0, <2>1, VisitKept
<1> QED
  BY <1>3, <1>4, <1>5, <1>6, <1>7

-------------------------------------------------------------------------------
(* A thread inside its loop works within [0, count).                       *)
LEMMA Busy ==
  ASSUME S!IInv, NEW t \in S!Thread, pc[t] \in {"loop", "run"}
  PROVE  /\ S!Working(t) /\ count \in Nat /\ count > 0
         /\ S!Origin(t) \in Nat /\ S!Origin(t) <= range[t][1]
         /\ range[t][1] \in Nat /\ range[t][2] \in Nat
         /\ range[t][1] <= range[t][2]
         /\ range[t][2] = S!Limit(t) /\ S!Limit(t) <= count
         /\ pc[t] = "run" => range[t][1] < range[t][2]
<1> USE DEF S!IInv, S!Main, S!Idle
<1>1. S!Working(t) /\ count > 0 /\ count \in Nat
  <2>1. S!Main \in S!Thread /\ count \in Int
    BY Numbers DEF S!Thread
  <2>2. CASE t = S!Main
    BY <2>1, <2>2 DEF S!Working, S!ControlInv
  <2>3. CASE t # S!Main
    <3>1. t <= nthreads /\ t > 0
      BY <2>3 DEF S!ControlInv, S!Thread
    <3>2. nthreads # 0
      BY <3>1, Numbers DEF S!Thread
    <3> QED
      BY <2>1, <2>3, <3>1, <3>2 DEF S!Working, S!ControlInv
  <2> QED
    BY <2>2, <2>3
<1>2. /\ S!Origin(t) <= range[t][1] /\ range[t][1] <= range[t][2]
      /\ range[t][2] = S!Limit(t)
      /\ pc[t] = "run" => range[t][1] < range[t][2]
  BY <1>1 DEF S!RangeInv
<1>3. /\ maxWorkers \in WorkerOpts
      /\ \A k \in Nat : S!Bound(k) \in Nat
      /\ \A k, m \in Nat : k <= m => S!Bound(k) <= S!Bound(m)
      /\ S!Bound(S!Chunks) = count
  BY <1>1, Bounds DEF S!TypeOK
<1>4. S!Origin(t) \in Nat /\ S!Limit(t) <= count
  <2>1. nthreads \in Nat /\ S!Chunks \in Nat /\ nthreads <= S!Chunks
    BY Numbers
  <2>2. CASE t = S!Main
    BY <1>1, <1>3, <2>1, <2>2 DEF S!Origin, S!Limit
  <2>3. CASE t # S!Main
    <3>1. t \in Nat /\ t - 1 \in Nat /\ t <= S!Chunks
      BY <1>1, <2>1, <2>3 DEF S!Working, S!Thread
    <3>2. S!Bound(t) <= S!Bound(S!Chunks) /\ S!Bound(t - 1) \in Nat
      BY <1>3, <2>1, <3>1
    <3> QED
      BY <1>3, <2>3, <3>2 DEF S!Origin, S!Limit
  <2> QED
    BY <2>2, <2>3
<1> QED
  BY <1>1, <1>2, <1>4, Numbers

(* No index belongs to two working threads.                                *)
LEMMA Apart ==
  ASSUME S!TypeOK, count > 0,
         NEW t \in S!Thread, NEW u \in S!Thread, t # u, S!Working(t), S!Working(u),
         NEW i \in Nat, S!Origin(t) <= i, i < S!Limit(t), S!Origin(u) <= i, i < S!Limit(u)
  PROVE  FALSE
<1>1. /\ count \in Nat /\ maxWorkers \in WorkerOpts /\ nthreads \in Nat
  BY Numbers DEF S!TypeOK
<1>2. /\ \A k \in Nat : S!Bound(k) \in Nat
      /\ \A k, m \in Nat : k <= m => S!Bound(k) <= S!Bound(m)
  BY <1>1, Bounds
<1>3. ASSUME NEW a \in S!Thread, NEW b \in S!Thread, a # S!Main, S!Working(a),
             i < S!Limit(a), S!Origin(b) <= i, a < b \/ b = S!Main
      PROVE  FALSE
  <2>1. a \in Nat /\ a <= nthreads
    BY <1>3 DEF S!Working, S!Thread
  <2>2. CASE b = S!Main
    <3>1. S!Bound(a) <= S!Bound(nthreads)
      BY <1>1, <1>2, <2>1
    <3> QED
      BY <1>1, <1>2, <1>3, <2>1, <2>2, <3>1 DEF S!Origin, S!Limit
  <2>3. CASE b # S!Main /\ a < b
    <3>1. b - 1 \in Nat /\ a <= b - 1
      BY <2>1, <2>3 DEF S!Thread
    <3>2. S!Bound(a) <= S!Bound(b - 1)
      BY <1>2, <2>1, <3>1
    <3> QED
      BY <1>2, <1>3, <2>1, <2>3, <3>1, <3>2 DEF S!Origin, S!Limit
  <2> QED
    BY <1>3, <2>2, <2>3
<1>4. t \in Nat /\ u \in Nat
  BY DEF S!Thread
<1>5. CASE t # S!Main /\ (t < u \/ u = S!Main)
  BY <1>3, <1>5
<1>6. CASE u # S!Main /\ (u < t \/ t = S!Main)
  BY <1>3, <1>6
<1> QED
  BY <1>4, <1>5, <1>6

(* What a thread has entered lies between its bounds, and it is working.   *)
LEMMA EnteredOwn ==
  ASSUME S!IInv, NEW t \in S!Thread, NEW i \in S!Indices, S!Entered(t, i)
  PROVE  S!Working(t) /\ S!Origin(t) <= i /\ i < S!Limit(t)
<1> USE DEF S!IInv
<1>1. i \in Nat /\ count > 0
  BY Numbers
<1>2. S!Working(t)
  <2>1. ASSUME ~ S!Working(t) PROVE FALSE
    <3>1. range[t] = <<0, 0>>
      BY <2>1 DEF S!RangeInv
    <3>2. pc[t] # "run"
      BY <2>1, Busy
    <3> QED
      BY <1>1, <3>1, <3>2, Resting
  <2> QED
    BY <2>1
<1>3. /\ range[t][1] <= range[t][2] /\ range[t][2] = S!Limit(t)
      /\ pc[t] = "run" => range[t][1] < range[t][2]
  BY <1>1, <1>2 DEF S!RangeInv
<1>4. range[t][1] \in Nat /\ range[t][2] \in Nat
  BY Numbers
<1> QED
  BY <1>1, <1>2, <1>3, <1>4 DEF S!Entered

(* Only the thread an index belongs to enters it.                          *)
LEMMA OneEnters ==
  ASSUME S!IInv, NEW t \in S!Thread, NEW u \in S!Thread, t # u,
         pc[t] \in {"loop", "run"}, NEW i \in S!Indices,
         S!Origin(t) <= i, i < S!Limit(t)
  PROVE  ~ S!Entered(u, i)
<1> SUFFICES ASSUME S!Entered(u, i) PROVE FALSE
  OBVIOUS
<1>1. S!TypeOK /\ i \in Nat /\ S!Working(t) /\ count > 0
  BY Busy, Numbers DEF S!IInv
<1>2. S!Working(u) /\ S!Origin(u) <= i /\ i < S!Limit(u)
  BY EnteredOwn
<1> QED
  BY <1>1, <1>2, Apart

(* The next index of a loop was not visited before.                        *)
LEMMA NextIsFresh ==
  ASSUME S!IInv, NEW t \in S!Thread, pc[t] = "loop", range[t][1] < range[t][2]
  PROVE  /\ range[t][1] \in S!Indices /\ visits[range[t][1]] = 0
         /\ S!Origin(t) <= range[t][1] /\ range[t][1] < S!Limit(t)
<1> DEFINE i == range[t][1]
<1>1. i \in S!Indices /\ S!Origin(t) <= i /\ i < S!Limit(t) /\ i \in Nat
  BY Busy, Numbers DEF S!IInv
<1>2. ~ S!Entered(t, i)
  BY <1>1 DEF S!Entered
<1>3. \A u \in S!Thread : ~ S!Entered(u, i)
  BY <1>1, <1>2, OneEnters
<1> QED
  BY <1>1, <1>3 DEF S!IInv, S!VisitInv

-------------------------------------------------------------------------------
(* When only threads' places and ranges change, no thread starts or stops  *)
(* working.                                                                *)
LEMMA SamePlaces ==
  ASSUME UNCHANGED <<count, maxWorkers, nthreads>>,
         (pc[S!Main] \in S!Idle)' <=> pc[S!Main] \in S!Idle
  PROVE  \A t \in S!Thread :
           /\ S!Working(t)' <=> S!Working(t)
           /\ S!Origin(t)' = S!Origin(t) /\ S!Limit(t)' = S!Limit(t)
  BY Parameters DEF S!Working, S!Origin, S!Limit

(* A working thread moves on in its loop or leaves it.                     *)
LEMMA ControlKept ==
  ASSUME S!IInv, NEW t \in S!Thread, S!Working(t), count > 0, pc[t] \in {"loop", "run"},
         NEW l \in {"loop", "run", IF t = S!Main THEN "join" ELSE "exited"},
         pc' = [pc EXCEPT ![t] = l], UNCHANGED <<count, maxWorkers, nthreads, joined>>
  PROVE  S!ControlInv'
<1> USE DEF S!IInv, S!Main, S!Idle
<1>1. pc'[t] = l /\ \A u \in S!Thread \ {t} : pc'[u] = pc[u]
  BY DEF S!TypeOK
<1>2. \A u \in 1 .. joined : pc'[u] = "exited"
  <2>1. \A u \in 1 .. joined : u \in S!Thread /\ pc[u] = "exited"
    BY Numbers DEF S!ControlInv, S!Thread
  <2> QED
    BY <1>1, <2>1
<1>3. \A u \in S!Thread \ {S!Main} :
        IF u <= nthreads THEN pc'[u] \in {"loop", "run", "exited"} ELSE pc'[u] = "none"
  BY <1>1 DEF S!ControlInv, S!Working
<1>4. pc'[S!Main] \in S!Idle \union {"loop", "run", "join", "returned"}
      /\ (pc'[S!Main] \in {"call", "cut"} => nthreads = 0)
  <2>1. S!Main \in S!Thread
    BY Numbers DEF S!Thread
  <2> QED
    BY <1>1, <2>1 DEF S!ControlInv
<1> QED
  BY <1>2, <1>3, <1>4, Numbers DEF S!ControlInv

(* A thread enters the callback: one more index, of its own, is visited.   *)
LEMMA CallKeeps == ASSUME NEW t \in S!Thread PROVE S!IInv /\ S!Call(t) => S!IInv'
<1> SUFFICES ASSUME S!IInv, S!Call(t) PROVE S!IInv'
  OBVIOUS
<1> DEFINE i == range[t][1]
<1>0. /\ UNCHANGED <<count, maxWorkers, args, range, nthreads, joined>>
      /\ pc[t] = "loop" /\ pc' = [pc EXCEPT ![t] = "run"]
      /\ visits' = [visits EXCEPT ![i] = visits[i] + 1]
      /\ i < range[t][2]
  BY DEF S!Call, S!Goto
<1>1. i \in S!Indices /\ visits[i] = 0 /\ S!Origin(t) <= i /\ i < S!Limit(t)
  BY <1>0, NextIsFresh
<1> HIDE DEF i
<1> USE DEF S!IInv, S!Main, S!Idle
<1>2. pc'[t] = "run" /\ \A u \in S!Thread \ {t} : pc'[u] = pc[u]
  BY <1>0 DEF S!TypeOK
<1>3. visits' \in [S!Indices -> Nat] /\ visits'[i] = 1
      /\ \A k \in S!Indices \ {i} : visits'[k] = visits[k]
  BY <1>0, <1>1 DEF S!TypeOK
<1>4. (pc[S!Main] \in S!Idle)' <=> pc[S!Main] \in S!Idle
  BY <1>0, <1>2, Numbers DEF S!Thread
<1>5. S!TypeOK'
  BY <1>0, <1>3, Parameters DEF S!TypeOK
<1>6. S!CutInv'
  BY <1>0, <1>2, <1>4, Numbers, Parameters DEF S!CutInv, S!Thread
<1>7. S!ControlInv'
  BY <1>0, Busy, ControlKept
<1>8. S!RangeInv'
  <2>1. ASSUME NEW u \in S!Thread
        PROVE  IF S!Working(u)' /\ count' > 0
               THEN /\ S!Origin(u)' <= range'[u][1] /\ range'[u][1] <= range'[u][2]
                    /\ range'[u][2] = S!Limit(u)'
                    /\ pc'[u] = "run" => range'[u][1] < range'[u][2]
                    /\ pc'[u] \in {"join", "exited", "returned"} => range'[u][1] = range'[u][2]
               ELSE range'[u] = <<0, 0>>
    <3>1. (S!Working(u)' <=> S!Working(u)) /\ S!Origin(u)' = S!Origin(u) /\ S!Limit(u)' = S!Limit(u)
      BY <1>0, <1>4, SamePlaces
    <3>2. CASE u = t
      BY <1>0, <1>2, <3>1, <3>2 DEF S!RangeInv, i
    <3>3. CASE u # t
      BY <1>0, <1>2, <3>1, <3>3 DEF S!RangeInv
    <3> QED
      BY <3>2, <3>3
  <2> QED
    BY <2>1 DEF S!RangeInv
<1>9. S!VisitInv'
  <2>1. ASSUME NEW u \in S!Thread, NEW k \in S!Indices
        PROVE  S!Entered(u, k)' <=> S!Entered(u, k) \/ (u = t /\ k = i)
    <3>1. S!Origin(u)' = S!Origin(u)
      BY <1>0, <1>4, SamePlaces
    <3>2. CASE u = t
      BY <1>0, <1>1, <1>2, <3>1, <3>2 DEF S!Entered, i
    <3>3. CASE u # t
      BY <1>0, <1>2, <3>1, <3>3 DEF S!Entered
    <3> QED
      BY <3>2, <3>3
  <2>2. ASSUME NEW k \in S!Indices
        PROVE  visits'[k] = IF \E u \in S!Thread : S!Entered(u, k)' THEN 1 ELSE 0
    <3>1. CASE k = i
      BY <1>3, <2>1, <3>1
    <3>2. CASE k # i
      BY <1>3, <2>1, <3>2 DEF S!VisitInv
    <3> QED
      BY <3>1, <3>2
  <2> QED
    BY <1>0, <2>2, Parameters DEF S!VisitInv
<1> QED
  BY <1>5, <1>6, <1>7, <1>8, <1>9

(* A callback returns: its index stays entered, the next one is not yet.   *)
LEMMA FnReturnKeeps ==
  ASSUME NEW t \in S!Thread
  PROVE  S!IInv /\ S!FnReturn(t) => S!IInv'
<1> SUFFICES ASSUME S!IInv, S!FnReturn(t) PROVE S!IInv'
  OBVIOUS
<1> DEFINE i == range[t][1]
           e == range[t][2]
<1>0. /\ UNCHANGED <<count, maxWorkers, args, nthreads, joined, visits>>
      /\ pc[t] = "run" /\ pc' = [pc EXCEPT ![t] = "loop"]
      /\ range' = [range EXCEPT ![t][1] = i + 1]
  BY DEF S!FnReturn, S!Goto
<1>1. /\ S!Working(t) /\ count > 0 /\ i \in Nat /\ e \in Nat /\ i < e
      /\ S!Origin(t) \in Nat /\ S!Origin(t) <= i /\ e = S!Limit(t)
  BY <1>0, Busy
<1> USE DEF S!IInv, S!Main, S!Idle
<1>2. pc'[t] = "loop" /\ \A u \in S!Thread \ {t} : pc'[u] = pc[u]
  BY <1>0 DEF S!TypeOK
<1>3. /\ range' \in [S!Thread -> Nat \X Nat] /\ range'[t] = <<i + 1, e>>
      /\ \A u \in S!Thread \ {t} : range'[u] = range[u]
  <2>1. range[t] \in Nat \X Nat /\ range[t] = <<i, e>>
    BY DEF S!TypeOK
  <2>2. range' = [range EXCEPT ![t] = [range[t] EXCEPT ![1] = i + 1]]
    BY <1>0
  <2>3. [range[t] EXCEPT ![1] = i + 1] = <<i + 1, e>>
    BY <1>1, <2>1
  <2> HIDE DEF i, e
  <2> QED
    BY <1>1, <2>2, <2>3 DEF S!TypeOK
<1> HIDE DEF i, e
<1>4. (pc[S!Main] \in S!Idle)' <=> pc[S!Main] \in S!Idle
  BY <1>0, <1>2, Numbers DEF S!Thread
<1>5. S!TypeOK'
  BY <1>0, <1>3, Parameters DEF S!TypeOK
<1>6. S!CutInv'
  BY <1>0, <1>2, <1>4, Numbers, Parameters DEF S!CutInv, S!Thread
<1>7. S!ControlInv'
  BY <1>0, <1>1, ControlKept
<1>8. S!RangeInv'
  <2>1. ASSUME NEW u \in S!Thread
        PROVE  IF S!Working(u)' /\ count' > 0
               THEN /\ S!Origin(u)' <= range'[u][1] /\ range'[u][1] <= range'[u][2]
                    /\ range'[u][2] = S!Limit(u)'
                    /\ pc'[u] = "run" => range'[u][1] < range'[u][2]
                    /\ pc'[u] \in {"join", "exited", "returned"} => range'[u][1] = range'[u][2]
               ELSE range'[u] = <<0, 0>>
    <3>1. (S!Working(u)' <=> S!Working(u)) /\ S!Origin(u)' = S!Origin(u) /\ S!Limit(u)' = S!Limit(u)
      BY <1>0, <1>4, SamePlaces
    <3>2. CASE u = t
      BY <1>0, <1>1, <1>2, <1>3, <3>1, <3>2
    <3>3. CASE u # t
      BY <1>0, <1>2, <1>3, <3>1, <3>3 DEF S!RangeInv
    <3> QED
      BY <3>2, <3>3
  <2> QED
    BY <2>1 DEF S!RangeInv
<1>9. S!VisitInv'
  <2>1. ASSUME NEW u \in S!Thread, NEW k \in S!Indices
        PROVE  S!Entered(u, k)' <=> S!Entered(u, k)
    <3>1. S!Origin(u)' = S!Origin(u) /\ k \in Nat
      BY <1>0, <1>4, SamePlaces, Numbers
    <3>2. CASE u = t
      BY <1>0, <1>1, <1>2, <1>3, <3>1, <3>2 DEF S!Entered, i
    <3>3. CASE u # t
      BY <1>0, <1>2, <1>3, <3>1, <3>3 DEF S!Entered
    <3> QED
      BY <3>2, <3>3
  <2> QED
    BY <1>0, <2>1, VisitKept
<1> QED
  BY <1>5, <1>6, <1>7, <1>8, <1>9

(* A loop ends when all its indices are done.                              *)
LEMMA LoopEndKeeps == ASSUME NEW t \in S!Thread PROVE S!IInv /\ S!LoopEnd(t) => S!IInv'
<1> SUFFICES ASSUME S!IInv, S!LoopEnd(t) PROVE S!IInv'
  OBVIOUS
<1> DEFINE l == IF t = S!Main THEN "join" ELSE "exited"
<1>0. /\ UNCHANGED <<count, maxWorkers, args, range, nthreads, joined, visits>>
      /\ pc[t] = "loop" /\ pc' = [pc EXCEPT ![t] = l]
      /\ range[t][1] >= range[t][2]
  BY DEF S!LoopEnd, S!Goto
<1>1. S!Working(t) /\ count > 0 /\ range[t][1] = range[t][2]
  BY <1>0, Busy
<1> USE DEF S!IInv, S!Main, S!Idle
<1>2. pc'[t] = l /\ \A u \in S!Thread \ {t} : pc'[u] = pc[u]
  BY <1>0 DEF S!TypeOK
<1>4. (pc[S!Main] \in S!Idle)' <=> pc[S!Main] \in S!Idle
  BY <1>0, <1>2, Numbers DEF S!Thread
<1>5. S!TypeOK'
  BY <1>0, Parameters DEF S!TypeOK
<1>6. S!CutInv'
  BY <1>0, <1>2, <1>4, Numbers, Parameters DEF S!CutInv, S!Thread
<1>7. S!ControlInv'
  BY <1>0, <1>1, ControlKept
<1>8. S!RangeInv'
  <2>1. \A u \in S!Thread : (S!Working(u)' <=> S!Working(u)) /\ S!Origin(u)' = S!Origin(u) /\ S!Limit(u)' = S!Limit(u)
    BY <1>0, <1>4, SamePlaces
  <2> QED
    BY <1>0, <1>1, <1>2, <2>1 DEF S!RangeInv
<1>9. S!VisitInv'
  <2>1. ASSUME NEW u \in S!Thread, NEW k \in S!Indices
        PROVE  S!Entered(u, k)' <=> S!Entered(u, k)
    <3>1. S!Origin(u)' = S!Origin(u)
      BY <1>0, <1>4, SamePlaces
    <3> QED
      BY <1>0, <1>2, <3>1 DEF S!Entered
  <2> QED
    BY <1>0, <2>1, VisitKept
<1> QED
  BY <1>5, <1>6, <1>7, <1>8, <1>9

(* The caller waits for a thread that has exited, or returns.              *)
LEMMA JoinKeeps == S!IInv /\ (S!Join \/ S!Return) => S!IInv'
<1> SUFFICES ASSUME S!IInv, S!Join \/ S!Return PROVE S!IInv'
  OBVIOUS
<1> USE DEF S!IInv, S!Main, S!Idle
<1>0. /\ UNCHANGED <<count, maxWorkers, args, range, nthreads, visits>>
      /\ pc[S!Main] = "join" /\ S!Main \in S!Thread
      /\ pc' = [pc EXCEPT ![S!Main] = pc'[S!Main]] /\ pc'[S!Main] \in {"join", "returned"}
      /\ joined' \in 0 .. nthreads
      /\ \A u \in 1 .. joined' : u \in 1 .. nthreads /\ pc[u] = "exited"
  <2>1. S!Main \in S!Thread /\ joined \in 0 .. nthreads /\ nthreads \in Nat
    BY Numbers DEF S!Thread
  <2>2. \A u \in 1 .. joined : pc[u] = "exited"
    BY DEF S!ControlInv
  <2>3. CASE S!Join
    <3>1. /\ joined < nthreads /\ joined' = joined + 1 /\ pc[joined + 1] = "exited"
          /\ pc' = pc /\ pc[S!Main] = "join"
          /\ UNCHANGED <<count, maxWorkers, args, range, nthreads, visits>>
      BY <2>3 DEF S!Join
    <3>2. joined' \in 0 .. nthreads
      BY <2>1, <3>1
    <3>3. \A u \in 1 .. joined' : u \in 1 .. nthreads /\ (u = joined + 1 \/ u \in 1 .. joined)
      BY <2>1, <3>1
    <3>4. pc' = [pc EXCEPT ![S!Main] = pc'[S!Main]]
      BY <3>1 DEF S!TypeOK
    <3> QED
      BY <2>1, <2>2, <3>1, <3>2, <3>3, <3>4
  <2>4. CASE S!Return
    <3>1. pc' = [pc EXCEPT ![S!Main] = "returned"] /\ joined' = joined
      BY <2>4 DEF S!Return, S!Goto
    <3>2. pc'[S!Main] = "returned"
      BY <2>1, <3>1 DEF S!TypeOK
    <3>3. \A u \in 1 .. joined : u \in 1 .. nthreads
      BY <2>1
    <3> QED
      BY <2>1, <2>2, <2>4, <3>1, <3>2, <3>3 DEF S!Return
  <2> QED
    BY <2>3, <2>4
<1>1. \A u \in S!Thread \ {S!Main} : pc'[u] = pc[u]
  BY <1>0 DEF S!TypeOK
<1>4. (pc[S!Main] \in S!Idle)' <=> pc[S!Main] \in S!Idle
  BY <1>0
<1>5. S!TypeOK'
  <2>1. pc' \in [S!Thread -> S!Idle \union {"none", "loop", "run", "join", "exited", "returned"}]
    <3> DEFINE l == pc'[S!Main]
    <3>1. pc' = [pc EXCEPT ![S!Main] = l] /\ l \in {"join", "returned"}
      BY <1>0
    <3> HIDE DEF l
    <3> QED
      BY <3>1 DEF S!TypeOK
  <2> QED
    BY <1>0, <2>1, Parameters DEF S!TypeOK
<1>6. S!CutInv'
  BY <1>0, Parameters DEF S!CutInv
<1>7. S!ControlInv'
  BY <1>0, <1>1, Numbers DEF S!ControlInv, S!Thread
<1>8. S!RangeInv'
  <2>1. \A u \in S!Thread : (S!Working(u)' <=> S!Working(u)) /\ S!Origin(u)' = S!Origin(u) /\ S!Limit(u)' = S!Limit(u)
    BY <1>0, <1>4, SamePlaces
  <2> QED
    BY <1>0, <1>1, <2>1 DEF S!RangeInv
<1>9. S!VisitInv'
  <2>1. ASSUME NEW u \in S!Thread, NEW k \in S!Indices
        PROVE  S!Entered(u, k)' <=> S!Entered(u, k)
    <3>1. S!Origin(u)' = S!Origin(u)
      BY <1>0, <1>4, SamePlaces
    <3> QED
      BY <1>0, <1>1, <3>1 DEF S!Entered
  <2> QED
    BY <1>0, <2>1, VisitKept
<1> QED
  BY <1>5, <1>6, <1>7, <1>8, <1>9

(* Every state of every call.                                              *)
LEMMA StaticInvariance == S!Spec => []S!IInv
<1>1. S!IInv /\ [S!Next]_(S!vars) => S!IInv'
  <2> SUFFICES ASSUME S!IInv, [S!Next]_(S!vars) PROVE S!IInv'
    OBVIOUS
  <2>1. CASE UNCHANGED S!vars
    <3> USE <2>1 DEF S!vars, S!IInv
    <3>1. S!TypeOK' /\ S!CutInv' /\ S!ControlInv'
      BY Parameters DEF S!TypeOK, S!CutInv, S!ControlInv
    <3>2. S!RangeInv'
      BY Parameters DEF S!RangeInv, S!Working, S!Origin, S!Limit
    <3>3. S!VisitInv'
      BY Parameters DEF S!VisitInv, S!Entered, S!Origin
    <3> QED
      BY <3>1, <3>2, <3>3
  <2>2. CASE S!Next
    <3>1. ASSUME NEW t \in S!Thread, S!Step(t) PROVE S!IInv'
      BY <3>1, CallKeeps, FnReturnKeeps, LoopEndKeeps, EnterKeeps, CutKeeps,
         SpawnKeeps, StartKeeps, JoinKeeps DEF S!Step, S!MainStep
    <3> QED
      BY <2>1, <2>2, <3>1 DEF S!Next, S!Done
  <2> QED
    BY <2>1, <2>2
<1> QED
  BY <1>1, StaticInit, PTL DEF S!Spec

-------------------------------------------------------------------------------
(* No index is in the ranges of two threads, and no range passes count,    *)
(* also when thread creation fails half-way.                               *)
THEOREM ChunksDisjoint == S!Spec => []S!DisjointRanges
<1>1. S!IInv => S!DisjointRanges
  <2> SUFFICES ASSUME S!IInv PROVE S!DisjointRanges
    OBVIOUS
  <2>1. ASSUME NEW t \in S!Thread
        PROVE  /\ range[t][1] \in Nat /\ range[t][2] \in Nat
               /\ range[t][1] <= range[t][2]
               /\ range[t][2] = 0 \/ range[t][2] <= count
               /\ range[t][1] < range[t][2] =>
                    /\ S!Working(t) /\ count > 0
                    /\ S!Origin(t) <= range[t][1] /\ range[t][2] = S!Limit(t)
    <3>1. count \in Int /\ range[t][1] \in Nat /\ range[t][2] \in Nat
      BY Numbers DEF S!IInv
    <3>2. CASE S!Working(t) /\ count > 0
      <4>1. S!Limit(t) <= count
        <5>1. CASE t = S!Main
          BY <3>1, <5>1 DEF S!Limit
        <5>2. CASE t # S!Main
          <6>1. t \in Nat /\ S!Chunks \in Nat /\ t <= S!Chunks /\ count \in Nat
            BY <3>1, <3>2, <5>2, Numbers DEF S!IInv, S!Working, S!Thread
          <6>2. S!Bound(t) <= S!Bound(S!Chunks) /\ S!Bound(S!Chunks) = count
            BY <6>1, Bounds DEF S!IInv, S!TypeOK
          <6> QED
            BY <5>2, <6>2 DEF S!Limit
        <5> QED
          BY <5>1, <5>2
      <4> QED
        BY <3>1, <3>2, <4>1 DEF S!IInv, S!RangeInv
    <3>3. CASE ~ (S!Working(t) /\ count > 0)
      BY <3>1, <3>3 DEF S!IInv, S!RangeInv
    <3> QED
      BY <3>2, <3>3
  <2>2. ASSUME NEW t \in S!Thread, NEW u \in S!Thread, t # u,
               NEW i \in range[t][1] .. range[t][2] - 1, i \in range[u][1] .. range[u][2] - 1
        PROVE  FALSE
    <3>1. /\ i \in Nat /\ range[t][1] <= i /\ i < range[t][2]
          /\ range[u][1] <= i /\ i < range[u][2]
      BY <2>1, <2>2
    <3>2. /\ S!Working(t) /\ count > 0 /\ S!Origin(t) <= i /\ i < S!Limit(t)
          /\ S!Working(u) /\ S!Origin(u) <= i /\ i < S!Limit(u)
      <4>1. S!Origin(t) \in Int /\ S!Origin(u) \in Int
        <5>1. count \in Nat /\ maxWorkers \in WorkerOpts
          <6>1. count \in Int /\ range[t][1] \in Nat /\ range[t][2] \in Nat
            BY Numbers DEF S!IInv
          <6>2. count > 0
            BY <2>1, <3>1, <6>1
          <6> QED
            BY <6>1, <6>2 DEF S!IInv, S!TypeOK
        <5>2. \A k \in Nat : S!Bound(k) \in Nat
          BY <5>1, Bounds
        <5>3. nthreads \in Nat /\ \A v \in S!Thread \ {S!Main} : v - 1 \in Nat
          BY Numbers DEF S!IInv, S!Thread, S!Main
        <5> QED
          BY <5>2, <5>3 DEF S!Origin
      <4> QED
        BY <2>1, <3>1, <4>1
    <3> QED
      BY <2>2, <3>1, <3>2, Apart DEF S!IInv
  <2> QED
    BY <2>1, <2>2 DEF S!DisjointRanges
<1> QED
  BY <1>1, StaticInvariance, PTL

-------------------------------------------------------------------------------
(* When every thread is joined and the caller's loop is over, every index  *)
(* was visited and no callback runs.                                       *)
LEMMA AllEnded ==
  ASSUME S!IInv, pc[S!Main] = "join", joined = nthreads
  PROVE  S!Ended = S!Indices
<1> USE DEF S!IInv, S!Main, S!Idle
<1>1. \A t \in S!Thread : ~ S!InFn(t)
  BY Numbers DEF S!InFn, S!ControlInv, S!Thread
<1>2. ASSUME NEW i \in S!Indices PROVE visits[i] = 1
  <2>1. i \in Nat /\ i < count /\ count > 0 /\ count \in Nat /\ maxWorkers \in WorkerOpts
        /\ nthreads \in Nat /\ S!Main \in S!Thread
    BY Numbers DEF S!TypeOK, S!Thread
  <2>2. \A k \in Nat : S!Bound(k) \in Nat
    BY <2>1, Bounds
  <2>3. CASE i >= S!Bound(nthreads)
    <3>1. range[S!Main][1] = count /\ S!Origin(S!Main) = S!Bound(nthreads)
      BY <2>1 DEF S!RangeInv, S!Working, S!Origin, S!Limit
    <3>2. S!Entered(S!Main, i)
      BY <2>1, <2>2, <2>3, <3>1 DEF S!Entered
    <3> QED
      BY <2>1, <3>2 DEF S!VisitInv
  <2>4. CASE i < S!Bound(nthreads)
    <3>1. PICK j \in 1 .. nthreads : S!Bound(j - 1) <= i /\ i < S!Bound(j)
      BY <2>1, <2>4, Covering
    <3>2. j \in S!Thread /\ j # S!Main /\ pc[j] = "exited" /\ S!Working(j)
      BY Numbers DEF S!Thread, S!ControlInv, S!Working
    <3>3. range[j][1] = S!Bound(j) /\ S!Origin(j) = S!Bound(j - 1)
      BY <2>1, <3>2 DEF S!RangeInv, S!Origin, S!Limit
    <3>4. S!Entered(j, i)
      BY <3>1, <3>3 DEF S!Entered
    <3> QED
      BY <3>2, <3>4 DEF S!VisitInv
  <2> QED
    BY <2>1, <2>2, <2>3, <2>4
<1> QED
  BY <1>1, <1>2 DEF S!Ended

(* Steps that move no thread into or out of the callback, and do not       *)
(* return, are stutters of the abstract call.                              *)
LEMMA StaticStutter ==
  ASSUME UNCHANGED <<count, visits>>,
         \A t \in S!Thread : S!InFn(t)' <=> S!InFn(t),
         \A t \in S!Thread : S!InFn(t) => range'[t] = range[t],
         (pc[S!Main] = "returned")' <=> (pc[S!Main] = "returned")
  PROVE  UNCHANGED S!Abstract!vars
  BY DEF S!Abstract!vars, S!Ended, S!Indices

(* A step of a thread that enters the callback starts its index, a step    *)
(* that leaves it ends its index, and the return of the call is a Return.  *)
LEMMA StaticStepSimulation == S!IInv /\ [S!Next]_(S!vars) => [S!Abstract!Next]_(S!Abstract!vars)
<1> SUFFICES ASSUME S!IInv, [S!Next]_(S!vars) PROVE [S!Abstract!Next]_(S!Abstract!vars)
  OBVIOUS
<1> USE DEF S!IInv, S!Main, S!Goto
<1>0. S!Main \in S!Thread /\ count \in Int /\ pc[S!Main] # "exited"
      /\ S!Helpers \in Nat /\ MaxHelpers \in Nat /\ S!Helpers <= MaxHelpers
  BY Numbers DEF S!Thread, S!ControlInv, S!Idle
<1>i. S!Abstract!Indices = S!Indices
  BY DEF S!Abstract!Indices, S!Indices
<1>1. CASE S!Enter
  <2>1. CASE count <= 0
    <3>1. pc' = [pc EXCEPT ![S!Main] = "returned"] /\ pc[S!Main] = "call"
          /\ UNCHANGED <<count, visits>>
      BY <1>0, <1>1, <2>1 DEF S!Enter
    <3>2. S!Indices = {} /\ S!Ended = {} /\ S!Ended' = {}
      BY <1>0, <2>1, <3>1 DEF S!Indices, S!Ended
    <3>3. S!Abstract!Return
      BY <1>i, <1>0, <3>1, <3>2 DEF S!Abstract!Return, S!TypeOK
    <3> QED
      BY <3>3 DEF S!Abstract!Next
  <2>2. CASE count > 0
    <3>1. /\ UNCHANGED <<count, visits>> /\ pc[S!Main] = "call"
          /\ pc' = [pc EXCEPT ![S!Main] = "loop"] \/ pc' = [pc EXCEPT ![S!Main] = "cut"]
          /\ \A t \in S!Thread \ {S!Main} : range'[t] = range[t]
      BY <1>0, <1>1, <2>2 DEF S!Enter, S!TypeOK
    <3> QED
      BY <1>0, <3>1, StaticStutter DEF S!InFn, S!TypeOK
  <2> QED
    BY <1>0, <2>1, <2>2
<1>2. CASE S!Cut
  <2>1. /\ UNCHANGED <<count, visits, range>> /\ pc[S!Main] = "cut"
        /\ pc' = [pc EXCEPT ![S!Main] = "spawn"] \/ pc' = pc
    BY <1>2 DEF S!Cut
  <2> QED
    BY <1>0, <2>1, StaticStutter DEF S!InFn, S!TypeOK
<1>3. CASE S!Spawn
  <2> DEFINE u == nthreads + 1
  <2>1. u \in S!Thread \ {S!Main} /\ pc[u] = "none"
    BY <1>0, <1>3, Numbers DEF S!Spawn, S!ControlInv, S!Thread
  <2>2. /\ UNCHANGED <<count, visits>> /\ pc' = [pc EXCEPT ![u] = "loop"]
        /\ \A t \in S!Thread \ {u} : range'[t] = range[t]
    BY <1>3 DEF S!Spawn, S!StartLoop, S!TypeOK
  <2> HIDE DEF u
  <2> QED
    BY <1>0, <2>1, <2>2, StaticStutter DEF S!InFn, S!TypeOK
<1>4. CASE S!SpawnFails \/ S!SpawnEnd
  <2>1. /\ UNCHANGED <<count, visits>> /\ pc[S!Main] = "spawn"
        /\ pc' = [pc EXCEPT ![S!Main] = "loop"]
        /\ \A t \in S!Thread \ {S!Main} : range'[t] = range[t]
    BY <1>4, CallerStarts DEF S!TypeOK
  <2> QED
    BY <1>0, <2>1, StaticStutter DEF S!InFn, S!TypeOK
<1>5. ASSUME NEW t \in S!Thread, S!Call(t) PROVE [S!Abstract!Next]_(S!Abstract!vars)
  <2> DEFINE i == range[t][1]
  <2>1. /\ pc[t] = "loop" /\ i < range[t][2] /\ pc' = [pc EXCEPT ![t] = "run"]
        /\ UNCHANGED <<count, range>> /\ S!Indices' = S!Indices
        /\ visits' = [visits EXCEPT ![i] = visits[i] + 1]
    BY <1>5 DEF S!Call, S!Indices
  <2>2. i \in S!Indices /\ visits[i] = 0
    BY <2>1, NextIsFresh
  <2> HIDE DEF i
  <2>3. pc'[t] = "run" /\ \A u \in S!Thread \ {t} : pc'[u] = pc[u]
    BY <2>1 DEF S!TypeOK
  <2>4. visits' = [visits EXCEPT ![i] = 1]
    BY <2>1, <2>2
  <2>5. S!Ended' = S!Ended
    <3>1. ASSUME NEW k \in S!Indices PROVE k \in S!Ended' <=> k \in S!Ended
      <4>1. CASE k = i
        <5>1. k \notin S!Ended
          BY <2>2, <4>1 DEF S!Ended
        <5>2. k \notin S!Ended'
          BY <2>1, <2>3, <4>1 DEF S!Ended, S!InFn, i
        <5> QED
          BY <5>1, <5>2
      <4>2. CASE k # i
        <5>1. visits'[k] = visits[k]
          BY <2>4, <4>2 DEF S!TypeOK
        <5>2. \A u \in S!Thread : (S!InFn(u)' /\ range'[u][1] = k) <=> (S!InFn(u) /\ range[u][1] = k)
          BY <2>1, <2>3, <4>2 DEF S!InFn, i
        <5> QED
          BY <2>1, <5>1, <5>2 DEF S!Ended
      <4> QED
        BY <4>1, <4>2
    <3>2. S!Ended \subseteq S!Indices /\ S!Ended' \subseteq S!Indices
      BY <2>1 DEF S!Ended
    <3> QED
      BY <3>1, <3>2
  <2>6. (pc[S!Main] = "returned")' <=> (pc[S!Main] = "returned")
    BY <1>0, <2>1, <2>3
  <2>7. S!Abstract!Start(i)
    BY <2>1, <2>2, <2>4, <2>5, <2>6 DEF S!Abstract!Start
  <2> QED
    BY <1>i, <2>2, <2>7 DEF S!Abstract!Next
<1>6. ASSUME NEW t \in S!Thread, S!FnReturn(t) PROVE [S!Abstract!Next]_(S!Abstract!vars)
  <2> DEFINE i == range[t][1]
  <2>1. /\ pc[t] = "run" /\ pc' = [pc EXCEPT ![t] = "loop"]
        /\ UNCHANGED <<count, visits>> /\ S!Indices' = S!Indices
        /\ \A u \in S!Thread \ {t} : range'[u] = range[u]
    BY <1>6 DEF S!FnReturn, S!Indices, S!TypeOK
  <2>2. i \in S!Indices /\ S!Origin(t) <= i /\ i < S!Limit(t)
    BY <2>1, Busy, Numbers
  <2>3. visits[i] = 1
    <3>1. S!Entered(t, i)
      BY <2>1, <2>2 DEF S!Entered
    <3> QED
      BY <2>2, <3>1 DEF S!VisitInv
  <2>4. \A u \in S!Thread : S!InFn(u) /\ u # t => range[u][1] # i
    <3> SUFFICES ASSUME NEW u \in S!Thread, pc[u] = "run", u # t, range[u][1] = i PROVE FALSE
      BY DEF S!InFn
    <3>1. S!Entered(u, i)
      BY Busy DEF S!Entered
    <3> QED
      BY <2>1, <2>2, <3>1, OneEnters
  <2>5. i \notin S!Ended
    BY <2>1 DEF S!Ended, S!InFn
  <2> HIDE DEF i
  <2>6. \A u \in S!Thread : S!InFn(u)' <=> S!InFn(u) /\ u # t
    BY <2>1 DEF S!InFn, S!TypeOK
  <2>7. S!Ended' = S!Ended \union {i}
    <3>1. ASSUME NEW k \in S!Indices PROVE k \in S!Ended' <=> k \in S!Ended \union {i}
      <4>1. CASE k = i
        BY <2>1, <2>3, <2>4, <2>6, <4>1 DEF S!Ended
      <4>2. CASE k # i
        BY <2>1, <2>6, <4>2 DEF S!Ended, i
      <4> QED
        BY <4>1, <4>2
    <3>2. S!Ended \subseteq S!Indices /\ S!Ended' \subseteq S!Indices
      BY <2>1 DEF S!Ended
    <3> QED
      BY <2>2, <3>1, <3>2
  <2>8. (pc[S!Main] = "returned")' <=> (pc[S!Main] = "returned")
    BY <1>0, <2>1 DEF S!TypeOK
  <2>9. S!Abstract!End(i)
    BY <2>1, <2>3, <2>5, <2>7, <2>8 DEF S!Abstract!End
  <2> QED
    BY <1>i, <2>2, <2>9 DEF S!Abstract!Next
<1>7. ASSUME NEW t \in S!Thread, S!LoopEnd(t) PROVE [S!Abstract!Next]_(S!Abstract!vars)
  <2>1. /\ UNCHANGED <<count, visits, range>> /\ pc[t] = "loop"
        /\ pc' = [pc EXCEPT ![t] = "join"] \/ pc' = [pc EXCEPT ![t] = "exited"]
    BY <1>7 DEF S!LoopEnd
  <2> QED
    BY <1>0, <2>1, StaticStutter DEF S!InFn, S!TypeOK
<1>8. CASE S!Join
  BY <1>8, StaticStutter DEF S!Join, S!InFn
<1>9. CASE S!Return
  <2>1. /\ pc[S!Main] = "join" /\ joined = nthreads
        /\ pc' = [pc EXCEPT ![S!Main] = "returned"]
        /\ UNCHANGED <<count, visits, range>> /\ S!Indices' = S!Indices
    BY <1>9 DEF S!Return, S!Indices
  <2>2. S!Ended = S!Indices
    BY <2>1, AllEnded
  <2>3. \A t \in S!Thread : S!InFn(t)' <=> S!InFn(t)
    BY <1>0, <2>1 DEF S!InFn, S!TypeOK
  <2>4. S!Ended' = S!Ended
    BY <2>1, <2>3 DEF S!Ended
  <2>5. pc'[S!Main] = "returned"
    BY <1>0, <2>1 DEF S!TypeOK
  <2>6. S!Abstract!Return
    BY <1>i, <2>1, <2>2, <2>4, <2>5 DEF S!Abstract!Return
  <2> QED
    BY <2>6 DEF S!Abstract!Next
<1>10. CASE UNCHANGED S!vars
  BY <1>10, StaticStutter DEF S!vars, S!InFn
<1> QED
  BY <1>1, <1>2, <1>3, <1>4, <1>5, <1>6, <1>7, <1>8, <1>9, <1>10
  DEF S!Next, S!Step, S!MainStep, S!Done

(* The static call implements the safety part of the abstract one, also    *)
(* when an allocation fails or a thread cannot be created: no index is     *)
(* visited twice, and it returns only when all callbacks have ended.       *)
THEOREM StaticRefinement == S!Spec => S!Abstract!Safety
<1>1. S!Init => S!Abstract!Init
  <2> SUFFICES ASSUME S!Init PROVE S!Abstract!Init
    OBVIOUS
  <2>1. S!Ended = {} /\ pc[S!Main] = "call"
    BY StaticHelpersBounded DEF S!Init, S!Ended, S!Indices, S!Main, S!Thread
  <2> QED
    BY <2>1 DEF S!Init, S!Abstract!Init, S!Abstract!Indices, S!Indices
<1> QED
  BY <1>1, StaticStepSimulation, StaticInvariance, PTL DEF S!Spec, S!Abstract!Safety

===============================================================================
