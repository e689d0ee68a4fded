-------------------------- MODULE HandleTable_proofs --------------------------
(***************************************************************************)
(* Proofs about HandleTable, for every finite set of threads, every size   *)
(* of the table and every number of corpora.  They rest on the inductive   *)
(* invariant IInv of HandleTable: reference counts are exact, a slot's     *)
(* pointer is live and its own, and a closer that still waits keeps its    *)
(* slot from being reused.                                                 *)
(***************************************************************************)
EXTENDS HandleTable, FiniteSetTheorems, TLAPS

(* The calls inside a slot are finitely many.                              *)
LEMMA ThreadSubset ==
  ASSUME NEW S \in SUBSET Threads
  PROVE  IsFiniteSet(S) /\ Cardinality(S) \in Nat
  BY HandleAssumption, FS_Subset, FS_CardinalityType

(* The users of a slot are threads.                                        *)
LEMMA UsersSubset == \A s : Users(s) \in SUBSET Threads
  BY DEF Users

(* A count of zero means that nobody is inside and nobody owns the slot.   *)
LEMMA ZeroCount ==
  ASSUME CountExact, NEW s \in Slot, refcount[s] = 0
  PROVE  Users(s) = {} /\ ~ Owned(s)
<1>1. Users(s) \in SUBSET Threads
  BY UsersSubset
<1>2. IsFiniteSet(Users(s)) /\ Cardinality(Users(s)) \in Nat
  BY <1>1, ThreadSubset
<1>3. refcount[s] = Cardinality(Users(s)) + IF Owned(s) THEN 1 ELSE 0
  BY DEF CountExact
<1>4. Cardinality(Users(s)) = 0 /\ ~ Owned(s)
  BY <1>2, <1>3
<1> QED
  BY <1>2, <1>4, FS_EmptySet

(* When the slot has an owner, a count of one means that nobody is inside. *)
LEMMA LastReference ==
  ASSUME CountExact, NEW s \in Slot, Owned(s), refcount[s] <= 1
  PROVE  Users(s) = {}
<1>1. Users(s) \in SUBSET Threads
  BY UsersSubset
<1>2. IsFiniteSet(Users(s)) /\ Cardinality(Users(s)) \in Nat
  BY <1>1, ThreadSubset
<1>3. refcount[s] = Cardinality(Users(s)) + 1
  BY DEF CountExact
<1>4. Cardinality(Users(s)) = 0
  BY <1>2, <1>3
<1> QED
  BY <1>2, <1>4, FS_EmptySet

(* The type of the table and the invariant hold initially.                 *)
LEMMA InitIInv == Init => IInv
<1> SUFFICES ASSUME Init PROVE IInv
  OBVIOUS
<1>1. Types
  BY HandleAssumption DEF Init, Types, Slot, NULL
<1>2. CountExact
  <2> SUFFICES ASSUME NEW s \in Slot
               PROVE refcount[s] = Cardinality(Users(s)) + IF Owned(s) THEN 1 ELSE 0
    BY DEF CountExact
  <2>1. Users(s) = {} /\ ~ Owned(s)
    BY DEF Init, Users, Owned, Draining
  <2> QED
    BY <2>1, FS_EmptySet DEF Init
<1>3. PointerInv /\ CloserInv /\ DrainInv /\ UserInv
  BY DEF Init, PointerInv, CloserInv, DrainInv, UserInv, Closer, Draining, Users
<1> QED
  BY <1>1, <1>2, <1>3 DEF IInv

(* Create fills a slot that nobody owns, drains or is inside of.           *)
LEMMA CreateIInv == IInv /\ Create => IInv'
<1> SUFFICES ASSUME IInv, Create PROVE IInv'
  OBVIOUS
<1> PICK c \in Corpora :
      /\ corpora[c] = "none" /\ \A d \in 1 .. c - 1 : corpora[d] # "none"
      /\ \/ \E s \in Slot :
              /\ Reusable(s) /\ \A r \in 0 .. s - 1 : ~ Reusable(r)
              /\ ptr' = [ptr EXCEPT ![s] = c]
              /\ gen' = [gen EXCEPT ![s] = @ + 1]
              /\ refcount' = [refcount EXCEPT ![s] = 1]
              /\ issued' = issued \union {<<s, gen[s] + 1>>}
              /\ corpora' = [corpora EXCEPT ![c] = "live"]
         \/ /\ \A s \in Slot : ~ Reusable(s)
            /\ corpora' = [corpora EXCEPT ![c] = "freed"]
            /\ UNCHANGED <<table, issued>>
      /\ UNCHANGED <<pc, handle, corp>>
  BY DEF Create
<1> USE DEF IInv
<1>a. CASE \E s \in Slot :
              /\ Reusable(s)
              /\ ptr' = [ptr EXCEPT ![s] = c]
              /\ gen' = [gen EXCEPT ![s] = @ + 1]
              /\ refcount' = [refcount EXCEPT ![s] = 1]
              /\ issued' = issued \union {<<s, gen[s] + 1>>}
              /\ corpora' = [corpora EXCEPT ![c] = "live"]
  <2> PICK s \in Slot :
              /\ Reusable(s)
              /\ ptr' = [ptr EXCEPT ![s] = c]
              /\ gen' = [gen EXCEPT ![s] = @ + 1]
              /\ refcount' = [refcount EXCEPT ![s] = 1]
              /\ issued' = issued \union {<<s, gen[s] + 1>>}
              /\ corpora' = [corpora EXCEPT ![c] = "live"]
    BY <1>a
  <2>0. Users(s) = {} /\ ~ Owned(s)
    BY ZeroCount DEF Reusable
  <2>1. c \in Nat /\ c # NULL /\ c \in 0 .. MaxCorpora
    BY HandleAssumption DEF Corpora, NULL
  <2>2. Types'
    BY <2>1 DEF Types
  <2>3. CountExact'
    <3> SUFFICES ASSUME NEW r \in Slot
                 PROVE (refcount[r] = Cardinality(Users(r)) + IF Owned(r) THEN 1 ELSE 0)'
      BY DEF CountExact
    <3>1. Users(r)' = Users(r)
      BY DEF Users
    <3>2. CASE r = s
      <4>1. refcount'[s] = 1 /\ Owned(s)'
        BY <2>1 DEF Types, Owned
      <4>2. Cardinality(Users(s)') = 0
        BY <2>0, <3>1, <3>2, FS_EmptySet
      <4> QED
        BY <3>2, <4>1, <4>2
    <3>3. CASE r # s
      <4>1. refcount'[r] = refcount[r] /\ (Owned(r)' <=> Owned(r))
        BY <3>3 DEF Types, Owned, Draining
      <4> QED
        BY <3>1, <4>1 DEF CountExact
    <3> QED
      BY <3>2, <3>3
  <2>4. \A r \in Slot : ptr[r] # c
    BY <2>1 DEF PointerInv
  <2>5. PointerInv'
    BY <2>1, <2>4 DEF Types, PointerInv, Corpora, NULL
  <2>6. CloserInv'
    BY <2>1 DEF Types, CloserInv, Closer
  <2>7. \A t \in Threads : ~ Draining(t, s)
    BY <2>0 DEF Owned
  <2>8. \A t \in Threads, r \in Slot : Draining(t, r)' <=> Draining(t, r)
    BY DEF Draining
  <2>9. \A r \in Slot \ {s} : ptr'[r] = ptr[r] /\ gen'[r] = gen[r]
    BY DEF Types
  <2>10. DrainInv'
    BY <2>7, <2>8, <2>9 DEF DrainInv
  <2>11. UserInv'
    <3>1. \A r \in Slot : Users(r)' = Users(r)
      BY DEF Users
    <3> QED
      BY <2>0, <2>8, <2>9, <3>1 DEF UserInv
  <2> QED
    BY <2>2, <2>3, <2>5, <2>6, <2>10, <2>11
<1>b. CASE corpora' = [corpora EXCEPT ![c] = "freed"] /\ UNCHANGED <<table, issued>>
  <2>1. Types'
    BY <1>b DEF Types, table
  <2>2. CountExact'
    BY <1>b DEF CountExact, Users, Owned, Draining, table
  <2>3. PointerInv' /\ CloserInv'
    BY <1>b DEF Types, PointerInv, CloserInv, Closer, Corpora, NULL, table
  <2>4. DrainInv' /\ UserInv'
    BY <1>b DEF DrainInv, UserInv, Draining, Users, table
  <2> QED
    BY <2>1, <2>2, <2>3, <2>4
<1> QED
  BY <1>a, <1>b

(* A call that gets in is counted, and works on the slot's own corpus.     *)
LEMMA AcquireIInv ==
  ASSUME NEW t \in Threads, NEW h \in issued, IInv, Acquire(t, h)
  PROVE  IInv'
<1> USE DEF IInv
<1>1. h \in Slot \X Nat /\ h[1] \in Slot /\ h[2] \in Nat
  BY DEF Types
<1>2. /\ pc[t] = "idle" /\ ptr[h[1]] # NULL /\ gen[h[1]] = h[2]
      /\ refcount' = [refcount EXCEPT ![h[1]] = @ + 1]
      /\ pc' = [pc EXCEPT ![t] = "using"]
      /\ handle' = [handle EXCEPT ![t] = h]
      /\ corp' = [corp EXCEPT ![t] = ptr[h[1]]]
      /\ UNCHANGED <<ptr, gen, corpora, issued>>
  BY DEF Acquire, Valid, Goto
<1>3. Types'
  BY <1>1, <1>2 DEF Types
<1>4. \A u \in Threads, s \in Slot : Draining(u, s)' <=> Draining(u, s)
  BY <1>2 DEF Types, Draining
<1>5. \A s \in Slot : Users(s)' = IF s = h[1] THEN Users(s) \union {t} ELSE Users(s)
  BY <1>1, <1>2 DEF Types, Users
<1>6. CountExact'
  <2> SUFFICES ASSUME NEW s \in Slot
               PROVE (refcount[s] = Cardinality(Users(s)) + IF Owned(s) THEN 1 ELSE 0)'
    BY DEF CountExact
  <2>1. Owned(s)' <=> Owned(s)
    BY <1>2, <1>4 DEF Owned
  <2>2. CASE s = h[1]
    <3>1. t \notin Users(s) /\ IsFiniteSet(Users(s)) /\ Cardinality(Users(s)) \in Nat
      BY <1>2, UsersSubset, ThreadSubset DEF Users
    <3>2. Cardinality(Users(s) \union {t}) = Cardinality(Users(s)) + 1
      BY <3>1, FS_AddElement
    <3>3. Cardinality(Users(s)') = Cardinality(Users(s)) + 1
      BY <3>2, <1>5, <2>2
    <3>4. refcount'[s] = refcount[s] + 1
      BY <1>2, <2>2 DEF Types
    <3>5. refcount[s] = Cardinality(Users(s)) + IF Owned(s) THEN 1 ELSE 0
      BY DEF CountExact
    <3> QED
      BY <2>1, <3>1, <3>3, <3>4, <3>5
  <2>3. CASE s # h[1]
    <3>1. Users(s)' = Users(s) /\ refcount'[s] = refcount[s]
      BY <1>2, <1>5, <2>3 DEF Types
    <3> QED
      BY <2>1, <3>1 DEF CountExact
  <2> QED
    BY <2>2, <2>3
<1>7. PointerInv'
  BY <1>2 DEF PointerInv
<1>8. CloserInv'
  BY <1>2 DEF Types, CloserInv, Closer
<1>9. DrainInv'
  BY <1>2, <1>4 DEF Types, DrainInv, Draining
<1>10. UserInv'
  <2> SUFFICES ASSUME NEW s \in Slot, NEW u \in Users(s)'
               PROVE (/\ corp[u] \in Corpora /\ gen[s] = handle[u][2]
                      /\ \/ ptr[s] = corp[u]
                         \/ \E v \in Threads : Draining(v, s) /\ corp[v] = corp[u])'
    BY DEF UserInv
  <2>1. CASE u = t
    <3>1. s = h[1] /\ handle'[u] = h /\ corp'[u] = ptr[h[1]]
      BY <1>2, <2>1 DEF Types, Users
    <3>2. ptr[h[1]] \in Corpora
      BY <1>1, <1>2 DEF Types, Corpora, NULL
    <3> QED
      BY <1>2, <3>1, <3>2
  <2>2. CASE u # t
    <3>1. u \in Users(s) /\ handle'[u] = handle[u] /\ corp'[u] = corp[u]
      BY <1>2, <1>5, <2>2 DEF Types, Users
    <3>2. \A v \in Threads : Draining(v, s) => corp'[v] = corp[v]
      BY <1>2 DEF Types, Draining
    <3> QED
      BY <1>2, <1>4, <3>1, <3>2 DEF UserInv
  <2> QED
    BY <2>1, <2>2
<1> QED
  BY <1>3, <1>6, <1>7, <1>8, <1>9, <1>10

(* A call that leaves is uncounted: its slot is still the one it got.      *)
LEMMA ReleaseIInv ==
  ASSUME NEW t \in Threads, IInv, Release(t)
  PROVE  IInv'
<1> PICK s \in Slot : s = handle[t][1]
  BY DEF IInv, Types
<1>1. pc[t] = "using" /\ t \in Users(s) /\ gen[s] = handle[t][2]
  BY DEF Release, IInv, UserInv, Users
<1>2. IsFiniteSet(Users(s)) /\ Cardinality(Users(s)) \in Nat
  BY UsersSubset, ThreadSubset
<1>3. /\ Cardinality(Users(s) \ {t}) = Cardinality(Users(s)) - 1
      /\ Cardinality(Users(s) \ {t}) \in Nat
  BY <1>1, <1>2, FS_RemoveElement, FS_CardinalityType
<1>4. /\ refcount[s] = Cardinality(Users(s)) + IF Owned(s) THEN 1 ELSE 0
      /\ refcount[s] \in Nat /\ refcount[s] > 0
  <2>1. refcount[s] = Cardinality(Users(s)) + IF Owned(s) THEN 1 ELSE 0
    BY DEF IInv, CountExact
  <2> QED
    BY <1>2, <1>3, <2>1
<1>5. /\ refcount' = [refcount EXCEPT ![s] = @ - 1]
      /\ UNCHANGED <<ptr, gen, corpora, issued, handle, corp>>
  BY <1>1, <1>4 DEF Release
<1>6. /\ pc' \in [Threads -> {"idle", "using", "wait", "woken", "free"}]
      /\ pc'[t] = "idle"
      /\ \A u \in Threads \ {t} :
           pc'[u] = pc[u] \/ (pc[u] = "wait" /\ pc'[u] = "woken")
  BY <1>1 DEF Release, IInv, Types
<1>7. Types'
  BY <1>4, <1>5, <1>6 DEF IInv, Types
<1>8. \A u \in Threads : /\ Closer(u)' <=> Closer(u)
                         /\ \A r \in Slot : Draining(u, r)' <=> Draining(u, r)
  BY <1>1, <1>5, <1>6 DEF Closer, Draining
<1>9. \A r \in Slot : Users(r)' = IF r = s THEN Users(r) \ {t} ELSE Users(r)
  BY <1>1, <1>5, <1>6 DEF Users
<1>10. CountExact'
  <2> SUFFICES ASSUME NEW r \in Slot
               PROVE (refcount[r] = Cardinality(Users(r)) + IF Owned(r) THEN 1 ELSE 0)'
    BY DEF CountExact
  <2>1. Owned(r)' <=> Owned(r)
    BY <1>5, <1>8 DEF Owned
  <2>2. CASE r = s
    <3>1. refcount'[s] = refcount[s] - 1
      BY <1>5 DEF IInv, Types
    <3>2. Cardinality(Users(s)') = Cardinality(Users(s)) - 1
      BY <1>3, <1>9
    <3> QED
      BY <1>2, <1>3, <1>4, <2>1, <2>2, <3>1, <3>2
  <2>3. CASE r # s
    <3>1. Users(r)' = Users(r) /\ refcount'[r] = refcount[r]
      BY <1>5, <1>9, <2>3 DEF IInv, Types
    <3> QED
      BY <2>1, <3>1 DEF IInv, CountExact
  <2> QED
    BY <2>2, <2>3
<1>11. PointerInv' /\ CloserInv' /\ DrainInv'
  BY <1>5, <1>8 DEF IInv, PointerInv, CloserInv, DrainInv
<1>12. UserInv'
  BY <1>5, <1>8, <1>9 DEF IInv, UserInv
<1> QED
  BY <1>7, <1>10, <1>11, <1>12 DEF IInv

(* Steps that only move a closer between waiting and checking keep IInv.   *)
LEMMA LoopIInv ==
  ASSUME NEW t \in Threads, IInv, pc[t] \in {"wait", "woken"},
         NEW l \in {"wait", "woken"}, pc' = [pc EXCEPT ![t] = l],
         UNCHANGED <<ptr, gen, refcount, corpora, issued, handle, corp>>
  PROVE  IInv'
<1>1. \A u \in Threads : /\ Closer(u)' <=> Closer(u)
                         /\ \A r \in Slot : Draining(u, r)' <=> Draining(u, r)
  BY DEF IInv, Types, Closer, Draining
<1>2. \A r \in Slot : Users(r)' = Users(r) /\ (Owned(r)' <=> Owned(r))
  BY <1>1 DEF IInv, Types, Users, Owned
<1>3. Types' /\ CountExact'
  BY <1>2 DEF IInv, Types, CountExact
<1>4. PointerInv' /\ CloserInv' /\ DrainInv' /\ UserInv'
  BY <1>1, <1>2 DEF IInv, PointerInv, CloserInv, DrainInv, UserInv
<1> QED
  BY <1>3, <1>4 DEF IInv

(* A wakeup without a signal finds the same count and waits again.         *)
LEMMA WakeupIInv ==
  ASSUME NEW t \in Threads, IInv, SpuriousWakeup(t)
  PROVE  IInv'
  BY LoopIInv DEF SpuriousWakeup, Goto, table

(* The corpus freed is in no slot and nobody else's.                       *)
LEMMA FreeIInv ==
  ASSUME NEW t \in Threads, IInv, Free(t)
  PROVE  IInv'
<1>1. /\ pc[t] = "free" /\ pc' = [pc EXCEPT ![t] = "idle"]
      /\ corpora' = [corpora EXCEPT ![corp[t]] = "freed"]
      /\ UNCHANGED <<ptr, gen, refcount, issued, handle, corp>>
  BY DEF Free, Goto, table
<1>2. \A u \in Threads : /\ Closer(u)' <=> Closer(u) /\ u # t
                         /\ \A r \in Slot : Draining(u, r)' <=> Draining(u, r)
  BY <1>1 DEF IInv, Types, Closer, Draining
<1>3. \A r \in Slot : Users(r)' = Users(r) /\ (Owned(r)' <=> Owned(r))
  BY <1>1, <1>2 DEF IInv, Types, Users, Owned
<1>4. Types' /\ CountExact'
  BY <1>1, <1>3 DEF IInv, Types, CountExact
<1>5. /\ \A s \in Slot : ptr[s] # corp[t]
      /\ \A u \in Threads \ {t} : Closer(u) => corp[u] # corp[t]
  BY <1>1 DEF IInv, CloserInv, Closer
<1>6. PointerInv'
  BY <1>1, <1>5 DEF IInv, Types, PointerInv, Corpora, NULL
<1>7. CloserInv'
  BY <1>1, <1>2, <1>5 DEF IInv, Types, CloserInv
<1>8. DrainInv' /\ UserInv'
  BY <1>1, <1>2, <1>3 DEF IInv, DrainInv, UserInv
<1> QED
  BY <1>4, <1>6, <1>7, <1>8 DEF IInv

(* A closer that finds nobody else inside leaves the slot reusable.        *)
LEMMA RecheckIInv ==
  ASSUME NEW t \in Threads, IInv, Recheck(t)
  PROVE  IInv'
<1> PICK s \in Slot : s = handle[t][1]
  BY DEF IInv, Types
<1>1. /\ pc[t] = "woken" /\ Draining(t, s) /\ Owned(s)
      /\ ptr[s] = NULL /\ \A u \in Threads \ {t} : ~ Draining(u, s)
      /\ UNCHANGED <<ptr, gen, corpora, issued, handle, corp>>
  BY DEF Recheck, IInv, DrainInv, Draining, Owned
<1>a. CASE Goto(t, "wait") /\ UNCHANGED refcount
  BY <1>1, <1>a, LoopIInv DEF Goto
<1>b. CASE /\ refcount[s] <= 1 /\ pc' = [pc EXCEPT ![t] = "free"]
           /\ refcount' = [refcount EXCEPT ![s] = 0]
  <2>1. Users(s) = {}
    BY <1>1, <1>b, LastReference DEF IInv
  <2>2. \A u \in Threads :
          /\ Closer(u)' <=> Closer(u)
          /\ \A r \in Slot : Draining(u, r)' <=> Draining(u, r) /\ u # t
    BY <1>1, <1>b DEF IInv, Types, Closer, Draining
  <2>3. \A r \in Slot : Users(r)' = Users(r)
    BY <1>1, <1>b DEF IInv, Types, Users
  <2>4. \A r \in Slot \ {s} : ~ Draining(t, r)
    BY DEF Draining
  <2>5. ~ Owned(s)' /\ \A r \in Slot \ {s} : Owned(r)' <=> Owned(r)
    BY <1>1, <2>2, <2>4 DEF Owned
  <2>6. refcount'[s] = 0 /\ Cardinality(Users(s)') = 0
    BY <1>b, <2>1, <2>3, FS_EmptySet DEF IInv, Types
  <2>7. \A r \in Slot \ {s} : refcount'[r] = refcount[r]
    BY <1>b DEF IInv, Types
  <2>8. CountExact'
    BY <2>3, <2>5, <2>6, <2>7 DEF IInv, CountExact
  <2>9. Types'
    BY <1>1, <1>b DEF IInv, Types
  <2>10. PointerInv' /\ CloserInv' /\ DrainInv'
    BY <1>1, <2>2 DEF IInv, PointerInv, CloserInv, DrainInv
  <2>11. UserInv'
    BY <1>1, <2>1, <2>2, <2>3, <2>4 DEF IInv, UserInv
  <2> QED
    BY <2>8, <2>9, <2>10, <2>11 DEF IInv
<1> QED
  BY <1>a, <1>b DEF Recheck, DrainOrWait, Drained, Goto

(* A close clears the pointer and either drains the slot at once or waits. *)
LEMMA TakeIInv ==
  ASSUME NEW t \in Threads, NEW h \in issued, IInv, Take(t, h)
  PROVE  IInv'
<1>1. h \in Slot \X Nat
  BY DEF IInv, Types
<1> PICK s \in Slot : s = h[1]
  BY <1>1
<1>2. /\ pc[t] = "idle" /\ ptr[s] # NULL /\ gen[s] = h[2]
      /\ ptr' = [ptr EXCEPT ![s] = NULL]
      /\ handle' = [handle EXCEPT ![t] = h]
      /\ corp' = [corp EXCEPT ![t] = ptr[s]]
      /\ UNCHANGED <<gen, corpora, issued>>
  BY DEF Take, Valid
<1>3. /\ ptr[s] \in Corpora /\ corpora[ptr[s]] = "live"
      /\ \A r \in Slot \ {s} : ptr[r] # ptr[s]
  BY <1>2 DEF IInv, Types, PointerInv, Corpora, NULL
<1>4. \A u \in Threads : ~ Draining(u, s)
  BY <1>2 DEF IInv, DrainInv
<1>5. /\ pc' \in [Threads -> {"idle", "using", "wait", "woken", "free"}]
      /\ \A u \in Threads \ {t} : pc'[u] = pc[u]
      /\ \/ refcount[s] > 1 /\ pc'[t] = "wait" /\ refcount' = refcount
         \/ refcount[s] <= 1 /\ pc'[t] = "free" /\ refcount' = [refcount EXCEPT ![s] = 0]
  BY DEF Take, DrainOrWait, Drained, Goto, IInv, Types
<1>6. Types'
  <2>1. ptr' \in [Slot -> 0 .. MaxCorpora] /\ NULL \in 0 .. MaxCorpora
    BY <1>2, HandleAssumption DEF IInv, Types, NULL
  <2>2. refcount' \in [Slot -> Nat]
    BY <1>5 DEF IInv, Types
  <2>3. handle' \in [Threads -> Slot \X Nat]
    BY <1>1, <1>2 DEF IInv, Types
  <2>4. corp' \in [Threads -> 0 .. MaxCorpora]
    BY <1>2 DEF IInv, Types
  <2> QED
    BY <1>2, <1>5, <2>1, <2>2, <2>3, <2>4 DEF IInv, Types
<1>7. \A u \in Threads \ {t} : /\ Closer(u)' <=> Closer(u)
                               /\ \A r \in Slot : Draining(u, r)' <=> Draining(u, r)
  BY <1>2, <1>5 DEF IInv, Types, Closer, Draining
<1>8. \A r \in Slot : Users(r)' = Users(r)
  BY <1>2, <1>5 DEF IInv, Types, Users
<1>9. /\ Closer(t)' /\ \A r \in Slot : Draining(t, r)' => r = s
      /\ handle'[t] = h /\ corp'[t] = ptr[s] /\ ~ Closer(t)
      /\ \A r \in Slot : ~ Draining(t, r)
  BY <1>1, <1>2, <1>5 DEF IInv, Types, Closer, Draining
<1>10. \A u \in Threads \ {t} : handle'[u] = handle[u] /\ corp'[u] = corp[u]
  BY <1>2 DEF IInv, Types
<1>11. ptr'[s] = NULL /\ \A r \in Slot \ {s} : ptr'[r] = ptr[r]
  BY <1>2 DEF IInv, Types
<1>12. PointerInv'
  BY <1>2, <1>11 DEF IInv, PointerInv
<1>13. CloserInv'
  <2>1. \A r \in Slot : ptr'[r] # ptr[s]
    BY <1>2, <1>3, <1>11
  <2>2. \A u \in Threads \ {t} : Closer(u) => corp[u] # ptr[s]
    BY DEF IInv, CloserInv
  <2>3. \A r \in Slot : ptr'[r] = ptr[r] \/ ptr'[r] = NULL
    BY <1>11
  <2>4. \A u \in Threads \ {t} : Closer(u) => \A r \in Slot : ptr'[r] # corp[u]
    BY <2>3, HandleAssumption DEF IInv, CloserInv, Corpora, NULL
  <2> QED
    BY <1>2, <1>3, <1>7, <1>9, <1>10, <2>1, <2>2, <2>4 DEF IInv, CloserInv
<1>14. DrainInv'
  BY <1>2, <1>4, <1>7, <1>9, <1>10, <1>11 DEF IInv, DrainInv
<1>15. \A r \in Slot \ {s} : Owned(r)' <=> Owned(r)
  BY <1>7, <1>9, <1>11 DEF Owned
<1>16. Owned(s)
  BY <1>2 DEF Owned
<1>a. CASE refcount[s] > 1 /\ pc'[t] = "wait" /\ refcount' = refcount
  <2>1. Draining(t, s)'
    BY <1>9, <1>a DEF Draining
  <2>2. Owned(s)'
    BY <2>1 DEF Owned
  <2>3. CountExact'
    BY <1>8, <1>15, <1>16, <1>a, <2>2 DEF IInv, CountExact
  <2>4. UserInv'
    <3> SUFFICES ASSUME NEW r \in Slot, NEW u \in Users(r)
                 PROVE (/\ corp[u] \in Corpora /\ gen[r] = handle[u][2]
                        /\ \/ ptr[r] = corp[u]
                           \/ \E v \in Threads : Draining(v, r) /\ corp[v] = corp[u])'
      BY <1>8 DEF UserInv
    <3>1. u \in Threads \ {t}
      BY <1>2 DEF Users
    <3>2. CASE r = s
      <4>1. ptr[s] = corp[u]
        BY <1>4, <3>2 DEF IInv, UserInv
      <4> QED
        BY <1>2, <1>9, <1>10, <2>1, <3>1, <3>2, <4>1 DEF IInv, UserInv
    <3>3. CASE r # s
      BY <1>2, <1>7, <1>9, <1>10, <1>11, <3>1, <3>3 DEF IInv, UserInv
    <3> QED
      BY <3>2, <3>3
  <2> QED
    BY <1>6, <1>12, <1>13, <1>14, <2>3, <2>4 DEF IInv
<1>b. CASE refcount[s] <= 1 /\ pc'[t] = "free" /\ refcount' = [refcount EXCEPT ![s] = 0]
  <2>1. Users(s) = {}
    BY <1>16, <1>b, LastReference DEF IInv
  <2>2. ~ Draining(t, s)'
    BY <1>b DEF Draining
  <2>3. ~ Owned(s)'
    BY <1>4, <1>7, <1>11, <2>2 DEF Owned
  <2>4. refcount'[s] = 0 /\ Cardinality(Users(s)') = 0
    BY <1>8, <1>b, <2>1, FS_EmptySet DEF IInv, Types
  <2>5. \A r \in Slot \ {s} : refcount'[r] = refcount[r]
    BY <1>b DEF IInv, Types
  <2>6. CountExact'
    BY <1>8, <1>15, <2>3, <2>4, <2>5 DEF IInv, CountExact
  <2>7. \A r \in Slot : \A u \in Users(r) : u \in Threads \ {t} /\ r # s
    BY <1>2, <2>1 DEF Users
  <2>8. UserInv'
    BY <1>2, <1>7, <1>8, <1>9, <1>10, <1>11, <2>7 DEF IInv, UserInv
  <2> QED
    BY <1>6, <1>12, <1>13, <1>14, <2>6, <2>8 DEF IInv
<1> QED
  BY <1>5, <1>a, <1>b

(* Every step keeps the invariant.                                         *)
LEMMA NextIInv == IInv /\ [Next]_vars => IInv'
<1> SUFFICES ASSUME IInv, [Next]_vars PROVE IInv'
  OBVIOUS
<1>1. CASE Create
  BY <1>1, CreateIInv
<1>2. ASSUME NEW t \in Threads, NEW h \in issued, Acquire(t, h) PROVE IInv'
  BY <1>2, AcquireIInv
<1>3. ASSUME NEW t \in Threads, NEW h \in issued, Take(t, h) PROVE IInv'
  BY <1>3, TakeIInv
<1>4. ASSUME NEW t \in Threads, Step(t) PROVE IInv'
  BY <1>4, ReleaseIInv, RecheckIInv, FreeIInv DEF Step
<1>5. ASSUME NEW t \in Threads, SpuriousWakeup(t) PROVE IInv'
  BY <1>5, WakeupIInv
<1>6. CASE UNCHANGED vars
  BY <1>6 DEF vars, table, IInv, Types, CountExact, PointerInv, CloserInv, DrainInv,
              UserInv, Users, Owned, Closer, Draining
<1> QED
  BY <1>1, <1>2, <1>3, <1>4, <1>5, <1>6 DEF Next

(* The invariant holds in every reachable state.                           *)
LEMMA Invariance == Spec => []IInv
  BY InitIInv, NextIInv, PTL DEF Spec

(* "Omission causes a stuck refcount": the reference count of every slot   *)
(* is exact after any sequence of steps.                                   *)
THEOREM ExactCount == Spec => []CountExact
<1>1. IInv => CountExact
  BY DEF IInv
<1> QED
  BY <1>1, Invariance, PTL

(* Types, and no count exceeds the number of threads by more than the      *)
(* owner's reference, so the int refcount does not overflow.               *)
THEOREM TypeCorrectness == Spec => []TypeOK
<1>1. IInv => TypeOK
  <2> SUFFICES ASSUME IInv, NEW s \in Slot
               PROVE refcount[s] <= Cardinality(Threads) + 1
    BY DEF IInv, TypeOK
  <2>1. refcount[s] = Cardinality(Users(s)) + IF Owned(s) THEN 1 ELSE 0
    BY DEF IInv, CountExact
  <2>2. /\ Users(s) \in SUBSET Threads
        /\ Cardinality(Users(s)) <= Cardinality(Threads)
        /\ Cardinality(Users(s)) \in Nat /\ Cardinality(Threads) \in Nat
    BY UsersSubset, ThreadSubset, FS_Subset, HandleAssumption
  <2> QED
    BY <2>1, <2>2
<1> QED
  BY <1>1, Invariance, PTL

(* A call inside works on a corpus that is not freed.                      *)
LEMMA UserOnLive ==
  ASSUME IInv, NEW t \in Threads, pc[t] = "using"
  PROVE  /\ corp[t] \in Corpora /\ corpora[corp[t]] = "live"
         /\ \A u \in Threads : pc[u] = "free" => corp[u] # corp[t]
<1> PICK s \in Slot : s = handle[t][1]
  BY DEF IInv, Types
<1>1. t \in Users(s)
  BY DEF Users
<1>2. corp[t] \in Corpora
  BY <1>1 DEF IInv, UserInv
<1>3. CASE ptr[s] = corp[t]
  <2>1. ptr[s] # NULL
    BY <1>2, <1>3, HandleAssumption DEF Corpora, NULL
  <2> QED
    BY <1>2, <1>3, <2>1 DEF IInv, PointerInv, CloserInv, Closer
<1>4. ASSUME NEW v \in Threads, Draining(v, s), corp[v] = corp[t]
      PROVE  /\ corpora[corp[t]] = "live"
             /\ \A u \in Threads : pc[u] = "free" => corp[u] # corp[t]
  BY <1>4 DEF IInv, CloserInv, Closer, Draining
<1> QED
  BY <1>1, <1>2, <1>3, <1>4 DEF IInv, UserInv

(* "guaranteeing no outstanding user holds a dangling pointer", for any    *)
(* number of threads, slots and corpora.                                   *)
THEOREM NoDanglingUse == Spec => []NoUseAfterFree
<1>1. IInv => NoUseAfterFree
  BY UserOnLive DEF NoUseAfterFree
<1> QED
  BY <1>1, Invariance, PTL

(* A corpus is freed by one thread only, however often and by whomever its *)
(* handle is closed, and never under a user.                               *)
THEOREM SingleFree == Spec => []FreedOnce
<1>1. IInv => FreedOnce
  <2> SUFFICES ASSUME IInv, NEW t \in Threads, pc[t] = "free"
               PROVE /\ corpora[corp[t]] = "live"
                     /\ \A u \in Threads \ {t} : pc[u] # "idle" => corp[u] # corp[t]
    BY DEF FreedOnce
  <2>1. /\ corpora[corp[t]] = "live"
        /\ \A u \in Threads \ {t} : Closer(u) => corp[u] # corp[t]
    BY DEF IInv, CloserInv, Closer
  <2>2. \A u \in Threads : pc[u] = "using" => corp[u] # corp[t]
    BY UserOnLive
  <2>3. \A u \in Threads : pc[u] \in {"idle", "using"} \/ Closer(u)
    BY DEF IInv, Types, Closer
  <2> QED
    BY <2>1, <2>2, <2>3
<1> QED
  BY <1>1, Invariance, PTL

-------------------------------------------------------------------------------
(* What a step does to the corpora seen through the refinement mapping.    *)

(* A function that differs from f at c only is f with c replaced.          *)
LEMMA OneChanged ==
  ASSUME NEW S, NEW f, NEW g, NEW c \in S, NEW v,
         f = [d \in S |-> f[d]], g = [d \in S |-> g[d]],
         g[c] = v, \A d \in S \ {c} : g[d] = f[d]
  PROVE  g = [f EXCEPT ![c] = v]
  OBVIOUS

(* The abstract state of the corpora is a function, before and after.      *)
LEMMA StateIsFunction ==
  /\ CorpusState = [d \in Corpora |-> CorpusState[d]]
  /\ CorpusState' = [d \in Corpora |-> CorpusState'[d]]
  BY DEF CorpusState

(* A new corpus is a creation of the contract, put in a slot or freed at   *)
(* once when the table is full.                                            *)
LEMMA CreateRefines == IInv /\ Create => Lifetime!Next
<1> SUFFICES ASSUME IInv, Create PROVE Lifetime!Next
  OBVIOUS
<1> PICK c \in Corpora :
      /\ corpora[c] = "none"
      /\ \/ \E s \in Slot : /\ Reusable(s)
                            /\ ptr' = [ptr EXCEPT ![s] = c]
                            /\ corpora' = [corpora EXCEPT ![c] = "live"]
         \/ corpora' = [corpora EXCEPT ![c] = "freed"] /\ ptr' = ptr
      /\ UNCHANGED <<pc, corp>>
  BY DEF Create, table
<1>1. CorpusUsers' = CorpusUsers /\ CorpusState[c] = "none"
  BY DEF CorpusUsers, CorpusState
<1>a. CASE corpora' = [corpora EXCEPT ![c] = "freed"] /\ ptr' = ptr
  <2>1. CorpusState' = [CorpusState EXCEPT ![c] = "freed"]
    BY <1>a DEF CorpusState, IInv, Types
  <2> QED
    BY <1>1, <2>1 DEF Lifetime!Next, Lifetime!Refuse
<1>b. ASSUME NEW s \in Slot, Reusable(s), ptr' = [ptr EXCEPT ![s] = c],
             corpora' = [corpora EXCEPT ![c] = "live"]
      PROVE  Lifetime!Next
  <2>1. ptr'[s] = c /\ \A r \in Slot \ {s} : ptr'[r] = ptr[r]
    BY <1>b DEF IInv, Types
  <2>2. \A d \in Corpora \ {c} : (\E r \in Slot : ptr'[r] = d) <=> (\E r \in Slot : ptr[r] = d)
    BY <1>b, <2>1, HandleAssumption DEF Reusable, Corpora, NULL
  <2>3. corpora'[c] = "live" /\ \A d \in Corpora \ {c} : corpora'[d] = corpora[d]
    BY <1>b DEF IInv, Types
  <2>4. CorpusState'[c] = "open"
    BY <2>1, <2>3 DEF CorpusState
  <2>5. \A d \in Corpora \ {c} : CorpusState'[d] = CorpusState[d]
    BY <2>2, <2>3 DEF CorpusState
  <2>6. CorpusState' = [CorpusState EXCEPT ![c] = "open"]
    BY <2>4, <2>5, StateIsFunction, OneChanged
  <2> QED
    BY <1>1, <2>6 DEF Lifetime!Next, Lifetime!Create
<1> QED
  BY <1>a, <1>b

(* An acquire is a use of the contract: the slot's corpus is live.         *)
LEMMA AcquireRefines ==
  ASSUME NEW t \in Threads, NEW h \in issued, IInv, Acquire(t, h)
  PROVE  Lifetime!Next
<1> PICK s \in Slot : s = h[1]
  BY DEF IInv, Types
<1>1. /\ pc[t] = "idle" /\ ptr[s] # NULL /\ pc' = [pc EXCEPT ![t] = "using"]
      /\ corp' = [corp EXCEPT ![t] = ptr[s]] /\ UNCHANGED <<ptr, corpora>>
  BY DEF Acquire, Valid, Goto
<1> PICK c \in Corpora : c = ptr[s]
  BY <1>1 DEF IInv, Types, Corpora, NULL
<1>2. CorpusState' = CorpusState /\ CorpusState[c] = "open"
  BY <1>1 DEF CorpusState, IInv, PointerInv
<1>3. t \notin CorpusUsers[c]
  BY <1>1 DEF CorpusUsers
<1>4. CorpusUsers' = [CorpusUsers EXCEPT ![c] = @ \union {t}]
  <2>1. \A u \in Threads \ {t} : pc'[u] = pc[u] /\ corp'[u] = corp[u]
    BY <1>1 DEF IInv, Types
  <2>2. pc'[t] = "using" /\ corp'[t] = c
    BY <1>1 DEF IInv, Types
  <2>3. \A d \in Corpora : CorpusUsers'[d] = IF d = c THEN CorpusUsers[d] \union {t}
                                             ELSE CorpusUsers[d]
    BY <1>1, <2>1, <2>2 DEF CorpusUsers
  <2> QED
    BY <2>3 DEF CorpusUsers
<1> QED
  BY <1>2, <1>3, <1>4 DEF Lifetime!Next, Lifetime!Begin

(* A release ends one use of the contract.                                 *)
LEMMA ReleaseRefines ==
  ASSUME NEW t \in Threads, IInv, Release(t)
  PROVE  Lifetime!Next
<1>1. pc[t] = "using" /\ UNCHANGED <<ptr, corpora, corp>>
  BY DEF Release
<1> PICK c \in Corpora : c = corp[t]
  BY <1>1, UserOnLive
<1>2. \A u \in Threads : pc'[u] = "using" <=> pc[u] = "using" /\ u # t
  BY DEF Release
<1>3. CorpusState' = CorpusState
  BY <1>1 DEF CorpusState
<1>4. CorpusUsers' = [CorpusUsers EXCEPT ![c] = @ \ {t}] /\ t \in CorpusUsers[c]
  BY <1>1, <1>2 DEF CorpusUsers
<1> QED
  BY <1>3, <1>4 DEF Lifetime!Next, Lifetime!End

(* Taking the handle retires the corpus: nobody acquires it from here on.  *)
LEMMA TakeRefines ==
  ASSUME NEW t \in Threads, NEW h \in issued, IInv, Take(t, h)
  PROVE  Lifetime!Next
<1> PICK s \in Slot : s = h[1]
  BY DEF IInv, Types
<1>1. /\ pc[t] = "idle" /\ ptr[s] # NULL /\ ptr' = [ptr EXCEPT ![s] = NULL]
      /\ corp' = [corp EXCEPT ![t] = ptr[s]] /\ UNCHANGED corpora
      /\ pc'[t] # "using" /\ \A u \in Threads \ {t} : pc'[u] = pc[u]
  BY DEF Take, Valid, DrainOrWait, Goto, IInv, Types
<1> PICK c \in Corpora : c = ptr[s]
  BY <1>1 DEF IInv, Types, Corpora, NULL
<1>2. CorpusUsers' = CorpusUsers
  <2>1. \A u \in Threads \ {t} : corp'[u] = corp[u]
    BY <1>1 DEF IInv, Types
  <2>2. pc[t] # "using" /\ pc'[t] # "using"
    BY <1>1
  <2> QED
    BY <1>1, <2>1, <2>2 DEF CorpusUsers
<1>3. ptr'[s] = NULL /\ \A r \in Slot \ {s} : ptr'[r] = ptr[r] /\ ptr[r] # c
  BY <1>1 DEF IInv, Types, PointerInv
<1>4. c # NULL /\ \A d \in Corpora : d # NULL
  BY HandleAssumption DEF Corpora, NULL
<1>5. ~ \E r \in Slot : ptr'[r] = c
  BY <1>3, <1>4
<1>6. \A d \in Corpora \ {c} : (\E r \in Slot : ptr'[r] = d) <=> (\E r \in Slot : ptr[r] = d)
  BY <1>3, <1>4
<1>7. CorpusState[c] = "open" /\ CorpusState' = [CorpusState EXCEPT ![c] = "closing"]
  BY <1>1, <1>5, <1>6 DEF CorpusState, IInv, PointerInv
<1> QED
  BY <1>2, <1>7 DEF Lifetime!Next, Lifetime!Close

(* The free of a drained corpus is the contract's: nobody uses it.         *)
LEMMA FreeRefines ==
  ASSUME NEW t \in Threads, IInv, Free(t)
  PROVE  Lifetime!Next
<1>1. /\ pc[t] = "free" /\ pc' = [pc EXCEPT ![t] = "idle"]
      /\ corpora' = [corpora EXCEPT ![corp[t]] = "freed"] /\ UNCHANGED <<ptr, corp>>
  BY DEF Free, Goto, table
<1> PICK c \in Corpora : c = corp[t]
  BY <1>1 DEF IInv, CloserInv, Closer
<1>2. corpora[c] = "live" /\ \A s \in Slot : ptr[s] # c
  BY <1>1 DEF IInv, CloserInv, Closer
<1>3. CorpusUsers[c] = {} /\ CorpusUsers' = CorpusUsers
  BY <1>1, UserOnLive DEF CorpusUsers, IInv, Types
<1>4. CorpusState[c] = "closing" /\ CorpusState' = [CorpusState EXCEPT ![c] = "freed"]
  BY <1>1, <1>2 DEF CorpusState, IInv, Types
<1> QED
  BY <1>3, <1>4 DEF Lifetime!Next, Lifetime!Free

(* Waiting for the users to leave changes nothing in the contract.         *)
LEMMA LoopRefines ==
  ASSUME NEW t \in Threads, IInv, Recheck(t) \/ SpuriousWakeup(t)
  PROVE  UNCHANGED <<CorpusState, CorpusUsers>>
<1>1. /\ pc[t] # "using" /\ pc'[t] # "using"
      /\ \A u \in Threads \ {t} : pc'[u] = pc[u]
      /\ UNCHANGED <<ptr, corpora, corp>>
  BY DEF Recheck, SpuriousWakeup, DrainOrWait, Goto, IInv, Types, table
<1> QED
  BY <1>1 DEF CorpusState, CorpusUsers

(* The table keeps the safety part of the lifetime contract: a corpus is   *)
(* used while it is open, closed once, and freed after its last user left. *)
THEOREM SafetyRefinement == Spec => Lifetime!Safety
<1>1. Init => Lifetime!Init
  <2> SUFFICES ASSUME Init PROVE Lifetime!Init
    OBVIOUS
  <2>1. CorpusState = [c \in Corpora |-> "none"] /\ CorpusUsers = [c \in Corpora |-> {}]
    BY DEF Init, CorpusState, CorpusUsers
  <2> QED
    BY <2>1 DEF Lifetime!Init
<1>2. IInv /\ [Next]_vars => [Lifetime!Next]_(Lifetime!vars)
  <2> SUFFICES ASSUME IInv, [Next]_vars PROVE [Lifetime!Next]_(Lifetime!vars)
    OBVIOUS
  <2>1. CASE Create
    BY <2>1, CreateRefines
  <2>2. ASSUME NEW t \in Threads, NEW h \in issued, Acquire(t, h) \/ Take(t, h)
        PROVE  Lifetime!Next
    BY <2>2, AcquireRefines, TakeRefines
  <2>3. ASSUME NEW t \in Threads, Release(t) \/ Free(t) PROVE Lifetime!Next
    BY <2>3, ReleaseRefines, FreeRefines
  <2>4. ASSUME NEW t \in Threads, Recheck(t) \/ SpuriousWakeup(t)
        PROVE  UNCHANGED Lifetime!vars
    BY <2>4, LoopRefines DEF Lifetime!vars
  <2>5. CASE UNCHANGED vars
    BY <2>5 DEF vars, table, Lifetime!vars, CorpusState, CorpusUsers
  <2> QED
    BY <2>1, <2>2, <2>3, <2>4, <2>5 DEF Next, Step
<1> QED
  BY <1>1, <1>2, Invariance, PTL DEF Spec, Lifetime!Safety
===============================================================================
