------------------------------ MODULE MCCacheFile ------------------------------
(* Processes on one path: one that saves two caches and reads, with one    *)
(* that only reads; or two savers.                                         *)
EXTENDS CacheFile
================================================================================
