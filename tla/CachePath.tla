------------------------------- MODULE CachePath -------------------------------
(***************************************************************************)
(* What src/semantic/semantic.h promises of a cache file: the path holds   *)
(* no file or one complete cache, which a successful save replaces in one  *)
(* step; a process that loaded it keeps the cache it opened until it frees *)
(* the corpus, whatever is saved meanwhile.                                *)
(***************************************************************************)
CONSTANTS
  Process,  \* processes, or threads, that use the path
  Cache,    \* contents that may be saved
  None      \* no file, or no cache open

VARIABLES
  file,     \* the cache the path holds
  view      \* view[p] the cache process p has open

vars == <<file, view>>

Init == file = None /\ view = [p \in Process |-> None]

Publish(c) == file' = c /\ UNCHANGED view

Open(p) ==
  /\ view[p] = None /\ file # None
  /\ view' = [view EXCEPT ![p] = file]
  /\ UNCHANGED file

Close(p) ==
  /\ view' = [view EXCEPT ![p] = None]
  /\ UNCHANGED file

Next == (\E c \in Cache : Publish(c)) \/ (\E p \in Process : Open(p) \/ Close(p))

Spec == Init /\ [][Next]_vars
================================================================================
