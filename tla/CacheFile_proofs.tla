---------------------------- MODULE CacheFile_proofs ----------------------------
(***************************************************************************)
(* Proofs about CacheFile, for any processes, caches and inodes, as long   *)
(* as the saves of the path do not overlap (OneSaveAtATime).  The argument *)
(* rests on the inductive invariant FileInv of CacheFile: the file that is *)
(* being written is one nobody reads, and what the path or a mapping       *)
(* refers to is whole.                                                     *)
(***************************************************************************)
EXTENDS CacheFile, TLAPS

(* A file with every part of cache c is whole, and its content is c.       *)
LEMMA WholeIsWhole ==
  ASSUME NEW c \in Cache
  PROVE  IsWhole(Written(Parts, c)) /\ Written(Parts, c)[1] = c
  BY DEF IsWhole, Whole, Written, Parts

(* The first n parts and one more written behind them are the first n + 1. *)
LEMMA PutNext ==
  ASSUME NEW n \in 0 .. Parts - 1, NEW c
  PROVE  Put(Written(n, c), n + 1, c) = Written(n + 1, c)
<1> DEFINE d == Written(n, c)
<1>1. n \in Nat /\ Len(d) = n
  BY DEF Parts, Written
<1>2. Put(d, n + 1, c) = [i \in 1 .. n + 1 |->
                            IF i = n + 1 THEN c ELSE IF i <= n THEN d[i] ELSE Zero]
  <2> HIDE DEF d
  <2> QED
    BY <1>1 DEF Put
<1> QED
  BY <1>1, <1>2 DEF Written

(* Any prefix of a file is a sequence of parts.                            *)
LEMMA PartsType ==
  ASSUME NEW n \in 0 .. Parts, NEW c \in Cache
  PROVE  Written(n, c) \in Seq(Cache \union {Zero})
<1>1. n \in Nat
  BY DEF Parts
<1> QED
  BY <1>1 DEF Written

(* The invariant holds before any save: no file exists.                    *)
LEMMA InitFileInv == CacheInit => FileInv
<1> SUFFICES ASSUME CacheInit PROVE FileInv
  OBVIOUS
<1>1. TypeOK
  BY DEF CacheInit, TypeOK, Parts
<1>2. TmpPrivate /\ NoTornView
  BY DEF CacheInit, TmpPrivate, NoTornView
<1> QED
  BY <1>1, <1>2 DEF FileInv

-------------------------------------------------------------------------------
(* A save returns, or its process dies: the temporary name may stay bound  *)
(* or not, the path and the data stay.                                     *)
LEMMA GivenUp ==
  ASSUME FileInv, OneSaveAtATime, NEW p \in Process, NEW r \in {0, -1}, Return(p, r),
         pc[p] # "idle", tmp' \in {tmp, Null}, UNCHANGED <<path, data>>,
         mapped' \in {mapped, [mapped EXCEPT ![p] = Null]}
  PROVE  FileInv'
<1> USE DEF FileInv, TypeOK, Return
<1>1. TypeOK'
  BY DEF Parts
<1>2. \A q \in Process :
        /\ pc'[q] = IF q = p THEN "idle" ELSE pc[q]
        /\ what'[q] = IF q = p THEN Null ELSE what[q]
        /\ fd'[q] = IF q = p THEN Null ELSE fd[q]
        /\ pos'[q] = IF q = p THEN 0 ELSE pos[q]
        /\ mapped'[q] \in {mapped[q], Null}
  OBVIOUS
<1>3. \A q \in Process : pc'[q] = "idle"
  BY <1>2 DEF OneSaveAtATime
<1>4. TmpPrivate'
  BY <1>2, <1>3 DEF TmpPrivate
<1>5. NoTornView'
  <2>1. path' = path /\ data' = data
    OBVIOUS
  <2>2. \A q \in Process : mapped'[q] # Null => IsWhole(data'[mapped'[q]])
    BY <1>2, <2>1 DEF NoTornView
  <2> QED
    BY <2>1, <2>2 DEF NoTornView
<1> QED
  BY <1>1, <1>4, <1>5

(* The steps of a save before its last one.                                *)
LEMMA BeginKeeps ==
  ASSUME FileInv, NEW p \in Process, NEW c \in Cache, SaveBegin(p, c)
  PROVE  FileInv'
<1> USE DEF FileInv, TypeOK, SaveBegin, names
<1>1. TypeOK'
  OBVIOUS
<1>2. \A q \in Process :
        /\ pc'[q] = IF q = p THEN "open" ELSE pc[q]
        /\ what'[q] = IF q = p THEN c ELSE what[q]
  OBVIOUS
<1>3. TmpPrivate'
  BY <1>2 DEF TmpPrivate
<1>4. NoTornView'
  BY DEF NoTornView
<1> QED
  BY <1>1, <1>3, <1>4

(* Opening truncates only the temporary file, which nobody reads.          *)
LEMMA OpenKeeps ==
  ASSUME FileInv, OneSaveAtATime, NEW p \in Process, OpenTmp(p)
  PROVE  FileInv'
<1> USE DEF FileInv, TypeOK
<1>1. PICK i \in Inode :
        /\ IF tmp = Null THEN Unused(i) ELSE i = tmp
        /\ tmp' = i
        /\ data' = [data EXCEPT ![i] = <<>>]
        /\ Opened(p, i)
  BY DEF OpenTmp
<1>2. /\ pc[p] = "open"
      /\ pc' = [pc EXCEPT ![p] = "write"] /\ fd' = [fd EXCEPT ![p] = i]
      /\ UNCHANGED <<path, what, pos, mapped, rc>>
  BY <1>1 DEF OpenTmp, Opened
<1>3. i # path /\ \A q \in Process : mapped[q] # i
  BY <1>1 DEF Unused, TmpPrivate
<1>4. <<>> \in Seq(Cache \union {Zero})
  OBVIOUS
<1>5. TypeOK'
  BY <1>1, <1>2, <1>4
<1>6. \A q \in Process : q # p => pc[q] = "idle"
  BY <1>2 DEF OneSaveAtATime
<1>7. \A q \in Process :
        /\ pc'[q] = IF q = p THEN "write" ELSE pc[q]
        /\ fd'[q] = IF q = p THEN i ELSE fd[q]
  BY <1>2
<1>8. data'[i] = Written(0, what[p])
  BY <1>1 DEF Written
<1>9. TmpPrivate'
  <2>1. tmp' # path' /\ \A q \in Process : mapped'[q] # tmp'
    BY <1>1, <1>2, <1>3
  <2>2. pos[p] = 0 /\ what[p] \in Cache /\ p \in Saver
    BY <1>2 DEF TmpPrivate
  <2>3. data'[tmp'] = Written(pos'[p], what'[p])
    BY <1>1, <1>2, <1>8, <2>2
  <2> QED
    BY <1>1, <1>2, <1>6, <1>7, <2>1, <2>2, <2>3, FileAssumption DEF TmpPrivate
<1>10. NoTornView'
  <2>1. \A j \in Inode : j # i => data'[j] = data[j]
    BY <1>1
  <2> QED
    BY <1>2, <1>3, <2>1 DEF NoTornView
<1> QED
  BY <1>5, <1>9, <1>10

(* A write lengthens only the temporary file of the one save in progress.  *)
LEMMA WriteKeeps ==
  ASSUME FileInv, OneSaveAtATime, NEW p \in Process, WritePart(p)
  PROVE  FileInv'
<1> USE DEF FileInv, TypeOK, names
<1>1. /\ pc[p] = "write" /\ pos[p] < Parts
      /\ fd[p] = tmp /\ tmp # Null /\ what[p] \in Cache
      /\ data[tmp] = Written(pos[p], what[p])
  BY DEF WritePart, TmpPrivate
<1>2. /\ pos' = [pos EXCEPT ![p] = pos[p] + 1]
      /\ data' = [data EXCEPT ![tmp] = Put(data[tmp], pos[p] + 1, what[p])]
      /\ UNCHANGED <<path, tmp, pc, what, fd, mapped, rc>>
  BY <1>1 DEF WritePart
<1>3. pos[p] \in 0 .. Parts - 1 /\ pos[p] + 1 \in 0 .. Parts
  BY <1>1 DEF Parts
<1>4. Put(data[tmp], pos[p] + 1, what[p]) = Written(pos[p] + 1, what[p])
  BY <1>1, <1>3, PutNext
<1>5. data' = [data EXCEPT ![tmp] = Written(pos[p] + 1, what[p])]
  BY <1>2, <1>4
<1>6. TypeOK'
  <2>1. Written(pos[p] + 1, what[p]) \in Seq(Cache \union {Zero})
    BY <1>1, <1>3, PartsType
  <2>2. data' \in [Inode -> Seq(Cache \union {Zero})]
    BY <1>5, <2>1
  <2>3. pos' \in [Process -> 0 .. Parts]
    BY <1>2, <1>3
  <2> QED
    BY <1>2, <2>2, <2>3
<1>7. \A q \in Process : q # p => pc[q] = "idle"
  BY <1>1 DEF OneSaveAtATime
<1>8. \A q \in Process : pos'[q] = IF q = p THEN pos[p] + 1 ELSE pos[q]
  BY <1>2
<1>9. data'[tmp] = Written(pos'[p], what[p])
  BY <1>1, <1>5, <1>8
<1>10. TmpPrivate'
  BY <1>1, <1>2, <1>7, <1>8, <1>9 DEF TmpPrivate
<1>11. NoTornView'
  <2>1. \A j \in Inode : j # tmp => data'[j] = data[j]
    BY <1>5
  <2>2. tmp # path /\ \A q \in Process : mapped[q] # tmp
    BY <1>1 DEF TmpPrivate
  <2> QED
    BY <1>2, <2>1, <2>2 DEF NoTornView
<1> QED
  BY <1>6, <1>10, <1>11

(* The close before the rename is reached only with the whole file         *)
(* written.                                                                *)
LEMMA CloseKeeps ==
  ASSUME FileInv, OneSaveAtATime, NEW p \in Process, CloseTmp(p)
  PROVE  FileInv'
<1> USE DEF FileInv, TypeOK, CloseTmp, names
<1>1. TypeOK'
  OBVIOUS
<1>2. \A q \in Process :
        /\ pc'[q] = IF q = p THEN "replace" ELSE pc[q]
        /\ fd'[q] = IF q = p THEN Null ELSE fd[q]
  OBVIOUS
<1>3. TmpPrivate'
  BY <1>2 DEF TmpPrivate
<1>4. NoTornView'
  BY DEF NoTornView
<1> QED
  BY <1>1, <1>3, <1>4

(* What the rename publishes is whole, and it is the cache of the save.    *)
LEMMA ReplacePublishes ==
  ASSUME FileInv, NEW p \in Process, Replace(p)
  PROVE  /\ path' = tmp /\ tmp \in Inode /\ data' = data
         /\ IsWhole(data[tmp]) /\ data[tmp][1] = what[p] /\ what[p] \in Cache
<1>1. /\ pc[p] = "replace" /\ tmp # Null /\ path' = tmp /\ data' = data
  BY DEF Replace
<1>2. what[p] \in Cache /\ data[tmp] = Written(Parts, what[p])
  BY <1>1 DEF FileInv, TmpPrivate
<1> QED
  BY <1>1, <1>2, WholeIsWhole DEF FileInv, TypeOK

(* The rename puts a whole file at the path and leaves no temporary name.  *)
LEMMA ReplaceKeeps ==
  ASSUME FileInv, OneSaveAtATime, NEW p \in Process, Replace(p)
  PROVE  FileInv'
<1> USE DEF FileInv, TypeOK
<1>1. /\ pc[p] = "replace" /\ tmp # Null /\ Return(p, 0)
      /\ path' = tmp /\ tmp' = Null /\ data' = data /\ mapped' = mapped
  BY DEF Replace
<1>2. TypeOK'
  BY <1>1 DEF Return, Parts
<1>3. \A q \in Process :
        /\ pc'[q] = IF q = p THEN "idle" ELSE pc[q]
        /\ what'[q] = IF q = p THEN Null ELSE what[q]
        /\ fd'[q] = IF q = p THEN Null ELSE fd[q]
        /\ pos'[q] = IF q = p THEN 0 ELSE pos[q]
  BY <1>1 DEF Return
<1>4. \A q \in Process : pc'[q] = "idle"
  BY <1>1, <1>3 DEF OneSaveAtATime
<1>5. TmpPrivate'
  BY <1>1, <1>3, <1>4 DEF TmpPrivate
<1>6. NoTornView'
  BY <1>1, ReplacePublishes DEF NoTornView
<1> QED
  BY <1>2, <1>5, <1>6

-------------------------------------------------------------------------------
(* A load maps a whole file, which is not the one being written.           *)
LEMMA LoadKeeps ==
  ASSUME FileInv, NEW p \in Process, Load(p) \/ Unload(p)
  PROVE  FileInv'
<1> USE DEF FileInv, TypeOK
<1>1. /\ UNCHANGED <<path, tmp, data, pc, what, fd, pos, rc>>
      /\ mapped' \in {[mapped EXCEPT ![p] = path], [mapped EXCEPT ![p] = Null]}
  BY DEF Load, Unload, names, saving
<1>2. \A q \in Process : mapped'[q] \in {mapped[q], path, Null}
  BY <1>1
<1>3. TypeOK'
  BY <1>1
<1>4. TmpPrivate'
  BY <1>1, <1>2 DEF TmpPrivate
<1>5. NoTornView'
  BY <1>1, <1>2 DEF NoTornView
<1> QED
  BY <1>3, <1>4, <1>5

(* Every step keeps the invariant while no two saves overlap: failures and *)
(* deaths too, since they leave the files as they are.                     *)
LEMMA StepFileInv == FileInv /\ OneSaveAtATime /\ [CacheNext]_cacheVars => FileInv'
<1> SUFFICES ASSUME FileInv, OneSaveAtATime, [CacheNext]_cacheVars PROVE FileInv'
  OBVIOUS
<1>1. ASSUME NEW p \in Process,
             OpenFails(p) \/ SaveFails(p) \/ Crash(p)
      PROVE  FileInv'
  <2>1. /\ Return(p, -1) /\ pc[p] # "idle"
        /\ tmp' \in {tmp, Null} /\ UNCHANGED <<path, data>>
        /\ mapped' \in {mapped, [mapped EXCEPT ![p] = Null]}
    BY <1>1 DEF OpenFails, SaveFails, Crash, names
  <2> QED
    BY <2>1, GivenUp
<1>2. CASE UNCHANGED cacheVars
  <2>1. UNCHANGED <<path, tmp, data, pc, what, fd, pos, mapped, rc>>
    BY <1>2 DEF cacheVars, names, saving
  <2> QED
    BY <2>1 DEF FileInv, TypeOK, TmpPrivate, NoTornView
<1> QED
  BY <1>1, <1>2, BeginKeeps, OpenKeeps, WriteKeeps, CloseKeeps, ReplaceKeeps, LoadKeeps
  DEF CacheNext, SaveStep

(* As long as saves do not overlap.                                        *)
LEMMA FileInvariance == CacheSpec /\ []OneSaveAtATime => []FileInv
  BY InitFileInv, StepFileInv, PTL DEF CacheSpec

(* One process that saves is enough for that, however many load.           *)
LEMMA OnlyOneSaver ==
  ASSUME \A p, q \in Saver : p = q
  PROVE  CacheSpec => []OneSaveAtATime
<1> DEFINE I == \A p \in Process : pc[p] # "idle" => p \in Saver
           P == DOMAIN pc = Process
<1>1. CacheInit => I /\ P
  BY DEF CacheInit
<1>2. I /\ P /\ [CacheNext]_cacheVars => (I /\ P)'
  <2> SUFFICES ASSUME I, P, [CacheNext]_cacheVars PROVE (I /\ P)'
    OBVIOUS
  <2>1. ASSUME NEW p \in Process, NEW c \in Cache, SaveBegin(p, c) PROVE (I /\ P)'
    BY <2>1 DEF SaveBegin
  <2>2. ASSUME NEW p \in Process, pc[p] # "idle", NEW l,
               pc' = [pc EXCEPT ![p] = l]
        PROVE (I /\ P)'
    BY <2>2
  <2>3. ASSUME NEW p \in Process, SaveStep(p) \/ Crash(p) PROVE (I /\ P)'
    BY <2>2, <2>3 DEF SaveStep, Crash, OpenTmp, Opened, OpenFails, WritePart, SaveFails,
                      CloseTmp, Replace, Return, saving
  <2>4. ASSUME NEW p \in Process, Load(p) \/ Unload(p) PROVE (I /\ P)'
    BY <2>4 DEF Load, Unload, saving
  <2>5. CASE UNCHANGED cacheVars
    BY <2>5 DEF cacheVars, saving
  <2> QED
    BY <2>1, <2>3, <2>4, <2>5 DEF CacheNext
<1>3. I => OneSaveAtATime
  BY FileAssumption DEF OneSaveAtATime
<1> QED
  BY <1>1, <1>2, <1>3, PTL DEF CacheSpec

-------------------------------------------------------------------------------
(* The content of a file that stays as it was, and of one that is whole.   *)
LEMMA ContentKept ==
  ASSUME NEW i \in Inode \union {Null}, i # Null => data'[i] = data[i]
  PROVE  Content(i)' = Content(i)
  BY DEF Content

(* A file with every part of one cache in it holds that cache.             *)
LEMMA ContentWhole ==
  ASSUME NEW i \in Inode, NEW c \in Cache, data[i] = Written(Parts, c)
  PROVE  Content(i) = c
  BY WholeIsWhole, FileAssumption DEF Content

(* What a reader or the path refers to is never the file a save changes.   *)
LEMMA WritersApart ==
  ASSUME FileInv, OneSaveAtATime, NEW p \in Process,
         (\E c \in Cache : SaveBegin(p, c)) \/ OpenTmp(p) \/ OpenFails(p)
           \/ WritePart(p) \/ SaveFails(p) \/ CloseTmp(p)
  PROVE  /\ path' = path /\ mapped' = mapped
         /\ path # Null => data'[path] = data[path]
         /\ \A q \in Process : mapped[q] # Null => data'[mapped[q]] = data[mapped[q]]
<1> USE DEF FileInv, TypeOK
<1>1. CASE OpenTmp(p)
  <2>1. PICK i \in Inode :
          /\ IF tmp = Null THEN Unused(i) ELSE i = tmp
          /\ data' = [data EXCEPT ![i] = <<>>]
          /\ Opened(p, i)
    BY <1>1 DEF OpenTmp
  <2>2. i # path /\ \A q \in Process : mapped[q] # i
    BY <2>1 DEF Unused, TmpPrivate
  <2> QED
    BY <2>1, <2>2 DEF Opened
<1>2. CASE WritePart(p)
  <2>1. /\ fd[p] = tmp /\ tmp # Null
        /\ data' = [data EXCEPT ![fd[p]] = Put(data[fd[p]], pos[p] + 1, what[p])]
        /\ UNCHANGED <<path, mapped>>
    BY <1>2 DEF WritePart, TmpPrivate, names
  <2>2. tmp # path /\ \A q \in Process : mapped[q] # tmp
    BY <2>1 DEF TmpPrivate
  <2> QED
    BY <2>1, <2>2
<1>3. CASE (\E c \in Cache : SaveBegin(p, c)) \/ OpenFails(p) \/ SaveFails(p) \/ CloseTmp(p)
  BY <1>3 DEF SaveBegin, OpenFails, SaveFails, CloseTmp, names
<1> QED
  BY <1>1, <1>2, <1>3

(* Then the promise sees nothing.                                          *)
LEMMA Unseen ==
  ASSUME FileInv, path' = path, mapped' = mapped,
         path # Null => data'[path] = data[path],
         \A q \in Process : mapped[q] # Null => data'[mapped[q]] = data[mapped[q]]
  PROVE  /\ Content(path)' = Content(path)
         /\ UNCHANGED Abstract!vars
<1>1. Content(path)' = Content(path)
  BY DEF Content, FileInv, TypeOK
<1>2. \A q \in Process : Content(mapped[q])' = Content(mapped[q])
  BY DEF Content, FileInv, TypeOK
<1> QED
  BY <1>1, <1>2 DEF Abstract!vars

(* The rename publishes the cache of the save that returns 0.              *)
LEMMA ReplaceSimulation ==
  ASSUME FileInv, NEW p \in Process, Replace(p)
  PROVE  /\ what[p] \in Cache /\ Abstract!Publish(what[p])
         /\ pc[p] = "replace" /\ pc'[p] = "idle" /\ rc'[p] = 0
         /\ Content(path)' = what[p]
<1> USE DEF FileInv, TypeOK
<1>1. /\ pc[p] = "replace" /\ Return(p, 0) /\ mapped' = mapped
  BY DEF Replace
<1>2. /\ path' = tmp /\ tmp \in Inode /\ data' = data
      /\ IsWhole(data[tmp]) /\ data[tmp][1] = what[p] /\ what[p] \in Cache
  BY ReplacePublishes
<1>3. Content(path)' = what[p]
  BY <1>2, FileAssumption DEF Content
<1>4. \A q \in Process : Content(mapped[q])' = Content(mapped[q])
  BY <1>1, <1>2 DEF Content
<1>5. Abstract!Publish(what[p])
  BY <1>3, <1>4 DEF Abstract!Publish
<1> QED
  BY <1>1, <1>2, <1>3, <1>5 DEF Return

(* A load opens the cache the path holds; an unload or a crash closes it.  *)
LEMMA ReaderSimulation ==
  ASSUME FileInv, NEW p \in Process, Load(p) \/ Unload(p) \/ Crash(p)
  PROVE  /\ Content(path)' = Content(path)
         /\ Abstract!Open(p) \/ Abstract!Close(p)
<1> USE DEF FileInv, TypeOK
<1>1. path' = path /\ data' = data
  BY DEF Load, Unload, Crash, names
<1>2. Content(path)' = Content(path)
  BY <1>1 DEF Content
<1>3. CASE Load(p)
  <2>1. /\ mapped[p] = Null /\ path # Null /\ path \in Inode
        /\ mapped' = [mapped EXCEPT ![p] = path]
    BY <1>3 DEF Load
  <2>2. IsWhole(data[path])
    BY <2>1 DEF NoTornView
  <2>3. Content(path) # Null /\ Content(mapped[p]) = Null
    <3>1. PICK c \in Cache : data[path] = Written(Parts, c)
      BY <2>2 DEF IsWhole, Whole
    <3> QED
      BY <2>1, <3>1, ContentWhole, FileAssumption DEF Content
  <2>4. \A q \in Process :
          Content(mapped[q])' = IF q = p THEN Content(path) ELSE Content(mapped[q])
    BY <1>1, <2>1 DEF Content
  <2>5. Abstract!Open(p)
    BY <1>2, <2>3, <2>4 DEF Abstract!Open
  <2> QED
    BY <1>2, <2>5
<1>4. CASE Unload(p) \/ Crash(p)
  <2>1. mapped' = [mapped EXCEPT ![p] = Null]
    BY <1>4 DEF Unload, Crash
  <2>2. \A q \in Process :
          Content(mapped[q])' = IF q = p THEN Null ELSE Content(mapped[q])
    BY <1>1, <2>1 DEF Content
  <2>3. Abstract!Close(p)
    BY <1>2, <2>2 DEF Abstract!Close
  <2> QED
    BY <1>2, <2>3
<1> QED
  BY <1>3, <1>4

(* Every step is one of the promise, or unseen; and the path changes only  *)
(* to what a save that succeeds was given.                                 *)
LEMMA StepSimulation ==
  ASSUME FileInv, OneSaveAtATime, [CacheNext]_cacheVars
  PROVE  /\ [Abstract!Next]_(Abstract!vars)
         /\ Content(path)' # Content(path) =>
              \E p \in Process : /\ pc[p] = "replace" /\ pc'[p] = "idle" /\ rc'[p] = 0
                                 /\ Content(path)' = what[p]
<1>1. CASE \E p \in Process : (\E c \in Cache : SaveBegin(p, c)) \/ OpenTmp(p)
             \/ OpenFails(p) \/ WritePart(p) \/ SaveFails(p) \/ CloseTmp(p)
  BY <1>1, WritersApart, Unseen
<1>2. ASSUME NEW p \in Process, Replace(p)
      PROVE  /\ [Abstract!Next]_(Abstract!vars)
             /\ \E q \in Process : /\ pc[q] = "replace" /\ pc'[q] = "idle" /\ rc'[q] = 0
                                   /\ Content(path)' = what[q]
  BY <1>2, ReplaceSimulation DEF Abstract!Next
<1>3. CASE \E p \in Process : Load(p) \/ Unload(p) \/ Crash(p)
  BY <1>3, ReaderSimulation DEF Abstract!Next
<1>4. CASE UNCHANGED cacheVars
  <2>1. UNCHANGED <<path, mapped, data>>
    BY <1>4 DEF cacheVars, names
  <2> QED
    BY <2>1, Unseen
<1> QED
  BY <1>1, <1>2, <1>3, <1>4 DEF CacheNext, SaveStep

-------------------------------------------------------------------------------
(* "a concurrent reader never observes a torn file" (semantic.h), whoever  *)
(* loads, fails or dies, as long as saves do not overlap.                  *)
THEOREM ReadersSeeWhole == CacheSpec /\ []OneSaveAtATime => []NoTornView
<1>1. FileInv => NoTornView
  BY DEF FileInv
<1> QED
  BY <1>1, FileInvariance, PTL

(* fce_sem_corpus_save leaves the previous cache in place until it returns *)
(* 0, and then the path holds what it was given.                           *)
THEOREM OldCacheKept == CacheSpec /\ []OneSaveAtATime => OldCacheSurvives
<1>1. FileInv /\ OneSaveAtATime /\ [CacheNext]_cacheVars =>
        [Content(path)' # Content(path) =>
           \E p \in Process : /\ pc[p] = "replace" /\ pc'[p] = "idle" /\ rc'[p] = 0
                              /\ Content(path)' = what[p]]_cacheVars
  BY StepSimulation
<1> QED
  BY <1>1, FileInvariance, PTL DEF CacheSpec, OldCacheSurvives

(* The steps of fce_sem_corpus_save and fce_sem_corpus_load implement what *)
(* semantic.h promises of the path, CachePath.                             *)
THEOREM PathRefinement == CacheSpec /\ []OneSaveAtATime => ImplementsPath
<1>1. CacheInit => Abstract!Init
  BY DEF CacheInit, Abstract!Init, Content
<1>2. FileInv /\ OneSaveAtATime /\ [CacheNext]_cacheVars => [Abstract!Next]_(Abstract!vars)
  BY StepSimulation
<1> QED
  BY <1>1, <1>2, FileInvariance, PTL DEF CacheSpec, ImplementsPath, Abstract!Spec

(* In particular with one process that saves and any number that load.     *)
COROLLARY OneSaverImplementsPath ==
  ASSUME \A p, q \in Saver : p = q
  PROVE  CacheSpec => OldCacheSurvives /\ ImplementsPath
  BY OnlyOneSaver, OldCacheKept, PathRefinement, PTL
=================================================================================
