---------------------------- MODULE MCWorkerPool ----------------------------
(* Bounds for model checking WorkerPool: at most three created threads.  *)
EXTENDS WorkerPool

MCCounts == {-1, 0, 1, 2, 4}
MCWorkerOpts == {-1, 0, 1, 2, 3, 4}

=============================================================================
