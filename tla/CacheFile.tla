------------------------------- MODULE CacheFile -------------------------------
(***************************************************************************)
(* fce_sem_corpus_save and fce_sem_corpus_load (src/semantic/semantic.c)   *)
(* on one path, as steps on a file system.  A save writes <path>.tmp part  *)
(* by part and renames it over <path>; a load maps the file the path names *)
(* and keeps the mapping until the corpus is freed.  A process may die     *)
(* between any two steps, and any step may fail.                           *)
(*                                                                         *)
(* A file has three parts, by what the loader can tell about them: the     *)
(* header with the sections it is checked against (tokens, offsets,        *)
(* document frequencies), the vectors, whose bytes are all legal, and the  *)
(* inverted index with the labels.  A name is bound to an inode, which     *)
(* lives on after the name is bound to another one.                        *)
(***************************************************************************)
EXTENDS Integers, Sequences, FiniteSets

CONSTANTS
  Process,  \* users of the path, each with memory of its own
  Saver,    \* the processes that save; the others only load
  Cache,    \* the contents that may be saved
  Inode,    \* inodes of the directory, used again when nothing refers to them
  Null,     \* no inode
  Zero      \* a hole: bytes nobody wrote, below bytes somebody did

ASSUME FileAssumption ==
  /\ Saver \subseteq Process
  /\ Null \notin Inode /\ Null \notin Cache /\ Zero \notin Cache

VARIABLES
  path, tmp,  \* inodes the names <path> and <path>.tmp are bound to
  data,       \* data[i] the parts of inode i, up to its size
  pc,         \* where the save of each process stands
  what,       \* what[p] the cache it writes
  fd,         \* fd[p] the inode of its open stream f
  pos,        \* pos[p] parts written so far
  mapped,     \* mapped[p] the inode behind mmap_base of its loaded corpus
  rc          \* rc[p] what its last save returned

names == <<path, tmp>>
saving == <<pc, what, fd, pos>>
cacheVars == <<names, data, saving, mapped, rc>>

Parts == 3

-------------------------------------------------------------------------------
(* The first n parts of cache c, and all of them.                          *)
Written(n, c) == [i \in 1 .. n |-> c]
Whole(c) == Written(Parts, c)
IsWhole(d) == \E c \in Cache : d = Whole(c)

(* What fwrite leaves when part k is written at its offset. *)
Put(d, k, c) ==
  [i \in 1 .. IF k > Len(d) THEN k ELSE Len(d) |->
     IF i = k THEN c ELSE IF i <= Len(d) THEN d[i] ELSE Zero]

(* Files the loader may accept: every section lies in the file, the header *)
(* has its magic, and the index is one (of which header, it cannot tell if *)
(* the counts agree).  Nothing in the vectors can be wrong.                *)
Loadable(d) == Len(d) = Parts /\ d[1] # Zero /\ d[Parts] # Zero

Unused(i) ==
  i # path /\ i # tmp /\ \A p \in Process : fd[p] # i /\ mapped[p] # i

CacheInit ==
  /\ path = Null /\ tmp = Null /\ data = [i \in Inode |-> <<>>]
  /\ pc = [p \in Process |-> "idle"]
  /\ what = [p \in Process |-> Null] /\ fd = [p \in Process |-> Null]
  /\ pos = [p \in Process |-> 0]
  /\ mapped = [p \in Process |-> Null] /\ rc = [p \in Process |-> 0]

-------------------------------------------------------------------------------
(* The save returns r.                                                     *)
Return(p, r) ==
  /\ pc' = [pc EXCEPT ![p] = "idle"] /\ what' = [what EXCEPT ![p] = Null]
  /\ fd' = [fd EXCEPT ![p] = Null] /\ pos' = [pos EXCEPT ![p] = 0]
  /\ rc' = [rc EXCEPT ![p] = r]

(* The checks passed and the sections of cache c are laid out.             *)
SaveBegin(p, c) ==
  /\ p \in Saver /\ pc[p] = "idle"
  /\ pc' = [pc EXCEPT ![p] = "open"] /\ what' = [what EXCEPT ![p] = c]
  /\ UNCHANGED <<names, data, fd, pos, mapped, rc>>

(* fopen(tmp_path, "wb") opens i.                                          *)
Opened(p, i) ==
  /\ pc' = [pc EXCEPT ![p] = "write"] /\ fd' = [fd EXCEPT ![p] = i]
  /\ UNCHANGED <<path, what, pos, mapped, rc>>

OpenTmp_InPlace(p) ==  \* mutant: the save writes the final path itself
  /\ pc[p] = "open"
  /\ \E i \in Inode :
       /\ IF path = Null THEN Unused(i) ELSE i = path
       /\ path' = i /\ tmp' = i
       /\ data' = [data EXCEPT ![i] = <<>>]
       /\ pc' = [pc EXCEPT ![p] = "write"] /\ fd' = [fd EXCEPT ![p] = i]
       /\ UNCHANGED <<what, pos, mapped, rc>>

(* The file the name is bound to is truncated, or a new one is created.    *)
OpenTmp(p) ==
  /\ pc[p] = "open"
  /\ \E i \in Inode :
       /\ IF tmp = Null THEN Unused(i) ELSE i = tmp
       /\ tmp' = i
       /\ data' = [data EXCEPT ![i] = <<>>]
       /\ Opened(p, i)

(* A malloc, or fopen itself, fails: nothing was created.                  *)
OpenFails(p) ==
  /\ pc[p] = "open" /\ Return(p, -1)
  /\ UNCHANGED <<names, data, mapped>>

(* fwrite of the next part, at the stream's own offset.                    *)
WritePart(p) ==
  /\ pc[p] = "write" /\ pos[p] < Parts
  /\ pos' = [pos EXCEPT ![p] = @ + 1]
  /\ data' = [data EXCEPT ![fd[p]] = Put(@, pos[p] + 1, what[p])]
  /\ UNCHANGED <<names, pc, what, fd, mapped, rc>>

(* write_err, or fclose or the rename failed: remove(tmp_path), whoever    *)
(* the name belongs to by now.                                             *)
SaveFails(p) ==
  /\ pc[p] \in {"write", "replace"} /\ Return(p, -1)
  /\ tmp' = Null
  /\ UNCHANGED <<path, data, mapped>>

CloseTmp_Short(p) ==   \* mutant: the error of the last write is not seen
  /\ pc[p] = "write" /\ pos[p] >= Parts - 1
  /\ pc' = [pc EXCEPT ![p] = "replace"] /\ fd' = [fd EXCEPT ![p] = Null]
  /\ UNCHANGED <<names, data, what, pos, mapped, rc>>

(* fflush and fclose.                                                      *)
CloseTmp(p) ==
  /\ pc[p] = "write" /\ pos[p] = Parts
  /\ pc' = [pc EXCEPT ![p] = "replace"] /\ fd' = [fd EXCEPT ![p] = Null]
  /\ UNCHANGED <<names, data, what, pos, mapped, rc>>

(* fce_atomic_replace: rename moves whatever has the temporary name.       *)
Replace(p) ==
  /\ pc[p] = "replace" /\ tmp # Null /\ Return(p, 0)
  /\ path' = tmp /\ tmp' = Null
  /\ UNCHANGED <<data, mapped>>

-------------------------------------------------------------------------------
(* A load maps the file and accepts it.                                    *)
Load(p) ==
  /\ pc[p] = "idle" /\ mapped[p] = Null /\ path # Null
  /\ Loadable(data[path])
  /\ mapped' = [mapped EXCEPT ![p] = path]
  /\ UNCHANGED <<names, data, saving, rc>>

(* fce_sem_corpus_free of the loaded corpus: fce_munmap.                   *)
Unload(p) ==
  /\ mapped[p] # Null
  /\ mapped' = [mapped EXCEPT ![p] = Null]
  /\ UNCHANGED <<names, data, saving, rc>>

(* The process dies: its streams and mappings go, its temporary file stays.*)
Crash(p) ==
  /\ pc[p] # "idle" /\ Return(p, -1)
  /\ mapped' = [mapped EXCEPT ![p] = Null]
  /\ UNCHANGED <<names, data>>

SaveStep(p) ==
  OpenTmp(p) \/ OpenFails(p) \/ WritePart(p) \/ SaveFails(p) \/ CloseTmp(p)
  \/ Replace(p)

CacheNext ==
  \E p \in Process :
    \/ \E c \in Cache : SaveBegin(p, c)
    \/ SaveStep(p) \/ Load(p) \/ Unload(p) \/ Crash(p)

CacheSpec == CacheInit /\ [][CacheNext]_cacheVars

-------------------------------------------------------------------------------
(* What is behind a name or a mapping, as a reader takes it.               *)
Content(i) ==
  IF i = Null THEN Null
  ELSE IF IsWhole(data[i]) THEN data[i][1] ELSE Zero

(* "a concurrent reader never observes a torn file" (semantic.h): what the *)
(* path names and what a loaded corpus points into is one complete cache.  *)
NoTornView ==
  /\ path # Null => IsWhole(data[path])
  /\ \A p \in Process : mapped[p] # Null => IsWhole(data[mapped[p]])

(* A save that fails or dies half-way leaves the previous cache in place:  *)
(* the path changes only when a save returns 0, to what that save was      *)
(* given.                                                                  *)
OldCacheSurvives ==
  [][Content(path)' # Content(path) =>
       \E p \in Process : /\ pc[p] = "replace" /\ pc'[p] = "idle" /\ rc'[p] = 0
                          /\ Content(path)' = what[p]]_cacheVars

Abstract == INSTANCE CachePath WITH
  None <- Null,
  file <- Content(path),
  view <- [p \in Process |-> Content(mapped[p])]

(* The steps of saves, loads and crashes implement the promise: complete   *)
(* caches replaced in one step, and mappings that never change.            *)
ImplementsPath == Abstract!Spec

-------------------------------------------------------------------------------
(* What the code leaves to its callers: the saves of one path do not       *)
(* overlap, be they of one process or of several.                          *)
OneSaveAtATime ==
  \A p, q \in Process : pc[p] # "idle" /\ pc[q] # "idle" => p = q

TypeOK ==
  /\ path \in Inode \union {Null} /\ tmp \in Inode \union {Null}
  /\ data \in [Inode -> Seq(Cache \union {Zero})]
  /\ pc \in [Process -> {"idle", "open", "write", "replace"}]
  /\ what \in [Process -> Cache \union {Null}]
  /\ fd \in [Process -> Inode \union {Null}] /\ pos \in [Process -> 0 .. Parts]
  /\ mapped \in [Process -> Inode \union {Null}] /\ rc \in [Process -> {0, -1}]

(* The temporary name is bound to an inode nobody reads, which holds what  *)
(* its writer has written so far.                                          *)
TmpPrivate ==
  /\ tmp # Null => tmp # path /\ \A p \in Process : mapped[p] # tmp
  /\ \A p \in Process :
       /\ pc[p] # "idle" => p \in Saver /\ what[p] \in Cache
       /\ pc[p] # "write" => fd[p] = Null
       /\ pc[p] \in {"idle", "open"} => pos[p] = 0
       /\ pc[p] = "replace" => pos[p] = Parts
       /\ pc[p] \in {"write", "replace"} =>
            tmp # Null /\ data[tmp] = Written(pos[p], what[p])
       /\ pc[p] = "write" => fd[p] = tmp

(* The inductive invariant of the proofs, as long as saves do not overlap. *)
FileInv == TypeOK /\ TmpPrivate /\ NoTornView
================================================================================
