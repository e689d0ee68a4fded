----------------------------- MODULE ParallelFor -----------------------------
(***************************************************************************)
(* What pipeline/worker_pool.h promises of fce_parallel_for and            *)
(* fce_parallel_for_static: the callback is called once for each index     *)
(* 0..count-1, in any order and with any overlap, and the call returns     *)
(* only after every callback has returned.                                 *)
(***************************************************************************)
EXTENDS Integers

CONSTANT Counts      \* the iteration counts a caller may pass (any int)

VARIABLES
  count,     \* the count of this call
  visits,    \* visits[i] how often the callback was entered for index i
  ended,     \* indices whose callback has returned
  returned   \* has the call returned to its caller?

vars == <<count, visits, ended, returned>>

Indices == 0 .. count - 1      \* empty when count <= 0

Init ==
  /\ count \in Counts
  /\ visits = [i \in Indices |-> 0]
  /\ ended = {}
  /\ returned = FALSE

(* A thread enters fn(i, ctx). *)
Start(i) ==
  /\ visits[i] = 0
  /\ visits' = [visits EXCEPT ![i] = 1]
  /\ UNCHANGED <<count, ended, returned>>

(* fn(i, ctx) returns; the thread may enter its next callback at once. *)
End(i) ==
  /\ visits[i] = 1 /\ i \notin ended
  /\ ended' = ended \union {i}
  /\ UNCHANGED <<count, visits, returned>>

(* The call returns to its caller. *)
Return ==
  /\ ~ returned
  /\ ended = Indices
  /\ returned' = TRUE
  /\ UNCHANGED <<count, visits, ended>>

Next ==
  \/ \E i \in Indices : Start(i) \/ End(i)
  \/ Return

(* The safety part of the promise, and the promise itself: started work     *)
(* ends and the call returns.                                              *)
Safety == Init /\ [][Next]_vars

Spec == Safety /\ WF_vars(Next)
==============================================================================
