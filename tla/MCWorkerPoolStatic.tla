-------------------------- MODULE MCWorkerPoolStatic --------------------------
(* Bounds for WorkerPoolStatic: up to three created threads, and counts    *)
(* below, at and above the number of chunks, divisible by it and not.      *)
EXTENDS WorkerPoolStatic

MCCounts == {-1, 0, 1, 2, 3, 4, 5, 7}
MCWorkerOpts == {-1, 0, 1, 2, 3, 4}

===============================================================================
