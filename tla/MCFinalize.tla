------------------------------ MODULE MCFinalize ------------------------------
(* Bounds for Finalize: counts matter only as zero, one or more.           *)
EXTENDS Finalize

MCEntryCounts == {0, 2}
MCDocCounts == {0, 1}
===============================================================================
