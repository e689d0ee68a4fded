------------------------------ MODULE HandleTable ------------------------------
(***************************************************************************)
(* The opaque handle table of the JNI library (java/src/main/native/       *)
(* fast_code_embed_jni.c).  A Java Corpus holds a handle, the encoding of a *)
(* slot and the slot's generation; every native method brackets its work    *)
(* with acquire_handle and release_handle, and nFreeCorpus takes the handle *)
(* out of the table, waits until the slot is drained and frees the corpus. *)
(* Java threads, the Cleaner among them, use and close any handle they ever *)
(* saw, in any order: stale, closed twice, closed while used.              *)
(*                                                                         *)
(* Each critical section of g_handle_mutex is one step; pthread_cond_wait  *)
(* ends its section, and the recheck after a wake-up, spurious or not, is  *)
(* another.  Generations do not reach their 47 bits.                       *)
(***************************************************************************)
EXTENDS Integers, FiniteSets

CONSTANTS
  Threads,
  Cap,         \* HANDLE_TABLE_CAP
  MaxCorpora   \* bound on the corpora ever created

ASSUME HandleAssumption ==
  IsFiniteSet(Threads) /\ Cap \in Nat \ {0} /\ MaxCorpora \in Nat

Slot == 0 .. Cap - 1
Corpora == 1 .. MaxCorpora
NULL == 0

VARIABLES
  ptr, gen, refcount,   \* g_handle_table, per slot
  corpora,  \* the corpora in memory: "none" (not created yet), "live", "freed"
  issued,   \* the handles Java was given, as <<slot, gen>>
  pc,       \* per thread: "idle", "using", "wait" (blocked in cond_wait),
            \* "woken" or "free"
  handle,   \* per thread: the handle of its call
  corp      \* per thread: the pointer acquire_handle or take_handle read

table == <<ptr, gen, refcount>>
vars == <<table, corpora, issued, pc, handle, corp>>

Init ==
  /\ ptr = [s \in Slot |-> NULL]
  /\ gen = [s \in Slot |-> 0]
  /\ refcount = [s \in Slot |-> 0]
  /\ corpora = [c \in Corpora |-> "none"]
  /\ issued = {}
  /\ pc = [t \in Threads |-> "idle"]
  /\ handle = [t \in Threads |-> <<0, 0>>]
  /\ corp = [t \in Threads |-> NULL]

Goto(t, l) == pc' = [pc EXCEPT ![t] = l]

(* The call of t decodes handle h to slot h[1] and generation h[2]. *)
Valid(h) == ptr[h[1]] # NULL /\ gen[h[1]] = h[2]

-------------------------------------------------------------------------------
Reusable_Unowned(s) == ptr[s] = NULL   \* mutant: reused while it is drained

(* A slot is reusable only when it is unowned and fully drained. *)
Reusable(s) == ptr[s] = NULL /\ refcount[s] = 0

(* nCreateCorpus and nLoadCorpus: alloc_handle takes the first reusable    *)
(* slot; with none the new corpus is freed.                                *)
Create ==
  \E c \in Corpora :
    /\ corpora[c] = "none" /\ \A d \in 1 .. c - 1 : corpora[d] # "none"
    /\ \/ \E s \in Slot :
            /\ Reusable(s) /\ \A r \in 0 .. s - 1 : ~ Reusable(r)
            /\ ptr' = [ptr EXCEPT ![s] = c]
            /\ gen' = [gen EXCEPT ![s] = @ + 1]
            /\ refcount' = [refcount EXCEPT ![s] = 1]
            /\ issued' = issued \union {<<s, gen[s] + 1>>}
            /\ corpora' = [corpora EXCEPT ![c] = "live"]
       \/ /\ \A s \in Slot : ~ Reusable(s)
          /\ corpora' = [corpora EXCEPT ![c] = "freed"]
          /\ UNCHANGED <<table, issued>>
    /\ UNCHANGED <<pc, handle, corp>>

(* acquire_handle succeeds and the native method works on the corpus; with *)
(* a stale handle the method returns at once, which changes nothing.       *)
Acquire(t, h) ==
  /\ pc[t] = "idle" /\ h \in issued /\ Valid(h)
  /\ refcount' = [refcount EXCEPT ![h[1]] = @ + 1]
  /\ Goto(t, "using")
  /\ handle' = [handle EXCEPT ![t] = h]
  /\ corp' = [corp EXCEPT ![t] = ptr[h[1]]]
  /\ UNCHANGED <<ptr, gen, corpora, issued>>

LastUser_Zero(rc) == rc = 0   \* mutant: the owner's own reference is forgotten

(* One reference, the owner's, is left. *)
LastUser(rc) == rc <= 1

(* release_handle: the decrement, and the broadcast that wakes every       *)
(* closer when a closed slot has been drained.                             *)
Release(t) ==
  LET s == handle[t][1]
      counted == gen[s] = handle[t][2] /\ refcount[s] > 0
  IN  /\ pc[t] = "using"
      /\ IF counted
         THEN refcount' = [refcount EXCEPT ![s] = @ - 1]
         ELSE UNCHANGED refcount
      /\ pc' = [u \in Threads |->
                  IF u = t THEN "idle"
                  ELSE IF counted /\ ptr[s] = NULL /\ LastUser(refcount[s] - 1)
                          /\ pc[u] = "wait"
                  THEN "woken" ELSE pc[u]]
      /\ UNCHANGED <<ptr, gen, corpora, issued, handle, corp>>

Drained_KeepsOwner(s) == UNCHANGED refcount   \* mutant: the owner stays counted

(* The owner's reference goes and the slot can be reused. *)
Drained(s) == refcount' = [refcount EXCEPT ![s] = 0]

(* The loop of take_handle: wait while there are other users. *)
DrainOrWait(t, s) ==
  \/ refcount[s] > 1 /\ Goto(t, "wait") /\ UNCHANGED refcount
  \/ refcount[s] <= 1 /\ Goto(t, "free") /\ Drained(s)

(* take_handle: the pointer is cleared, so nobody can acquire the handle   *)
(* or take it again; a stale handle is ignored.                            *)
Take(t, h) ==
  /\ pc[t] = "idle" /\ h \in issued /\ Valid(h)
  /\ ptr' = [ptr EXCEPT ![h[1]] = NULL]
  /\ DrainOrWait(t, h[1])
  /\ handle' = [handle EXCEPT ![t] = h]
  /\ corp' = [corp EXCEPT ![t] = ptr[h[1]]]
  /\ UNCHANGED <<gen, corpora, issued>>

Recheck(t) ==
  /\ pc[t] = "woken"
  /\ DrainOrWait(t, handle[t][1])
  /\ UNCHANGED <<ptr, gen, corpora, issued, handle, corp>>

(* pthread_cond_wait may return without a broadcast. *)
SpuriousWakeup(t) ==
  /\ pc[t] = "wait" /\ Goto(t, "woken")
  /\ UNCHANGED <<table, corpora, issued, handle, corp>>

(* fce_sem_corpus_free of the pointer taken. *)
Free(t) ==
  /\ pc[t] = "free"
  /\ corpora' = [corpora EXCEPT ![corp[t]] = "freed"]
  /\ Goto(t, "idle")
  /\ UNCHANGED <<table, issued, handle, corp>>

Step(t) == Release(t) \/ Recheck(t) \/ Free(t)

Next ==
  \/ Create
  \/ \E t \in Threads :
       \/ \E h \in issued : Acquire(t, h) \/ Take(t, h)
       \/ Step(t) \/ SpuriousWakeup(t)

(* Native methods return, and a thread that is awake runs on; nothing      *)
(* makes a wake-up without a broadcast happen.                             *)
Spec == Init /\ [][Next]_vars /\ \A t \in Threads : WF_vars(Step(t))

-------------------------------------------------------------------------------
Types ==
  /\ ptr \in [Slot -> 0 .. MaxCorpora]
  /\ gen \in [Slot -> Nat]
  /\ refcount \in [Slot -> Nat]
  /\ corpora \in [Corpora -> {"none", "live", "freed"}]
  /\ issued \subseteq Slot \X Nat
  /\ pc \in [Threads -> {"idle", "using", "wait", "woken", "free"}]
  /\ handle \in [Threads -> Slot \X Nat]
  /\ corp \in [Threads -> 0 .. MaxCorpora]

(* Types; no slot counts more than every thread and the owner.             *)
TypeOK == Types /\ \A s \in Slot : refcount[s] <= Cardinality(Threads) + 1

Users(s) == {t \in Threads : pc[t] = "using" /\ handle[t][1] = s}
Draining(t, s) == pc[t] \in {"wait", "woken"} /\ handle[t][1] = s
Owned(s) == ptr[s] # NULL \/ \E t \in Threads : Draining(t, s)

(* "Omission causes a stuck refcount ... or a use-after-free": a slot's    *)
(* count is the number of calls inside plus one for the owner, who stays   *)
(* counted until the slot is drained, not only until it is closed.         *)
CountExact ==
  \A s \in Slot : refcount[s] = Cardinality(Users(s)) + IF Owned(s) THEN 1 ELSE 0

(* "guaranteeing no outstanding user holds a dangling pointer": whoever is *)
(* inside a native method works on a corpus that is not freed.             *)
NoUseAfterFree ==
  \A t \in Threads : pc[t] = "using" => corpora[corp[t]] = "live"

(* "two threads race close() on the same handle": a corpus is freed by one *)
(* thread only, and only when nobody uses it.                              *)
FreedOnce ==
  \A t \in Threads :
    pc[t] = "free" =>
      /\ corpora[corp[t]] = "live"
      /\ \A u \in Threads \ {t} : pc[u] # "idle" => corp[u] # corp[t]

(* The corpora as the contract sees them: open while a slot points to one. *)
CorpusState ==
  [c \in Corpora |->
     IF corpora[c] # "live" THEN corpora[c]
     ELSE IF \E s \in Slot : ptr[s] = c THEN "open" ELSE "closing"]

CorpusUsers ==
  [c \in Corpora |-> {t \in Threads : pc[t] = "using" /\ corp[t] = c}]

Lifetime == INSTANCE CorpusLifetime WITH state <- CorpusState, users <- CorpusUsers

(* The table keeps the lifetime contract, liveness included: every close   *)
(* that got the corpus ends with the corpus freed.                         *)
ImplementsLifetime == Lifetime!Spec
-------------------------------------------------------------------------------
(* The inductive invariant behind the theorems of HandleTable_proofs.      *)

Closer(t) == pc[t] \in {"wait", "woken", "free"}

(* What the table points to is in memory, and only one slot points to it.  *)
PointerInv ==
  \A s \in Slot :
    ptr[s] # NULL => /\ corpora[ptr[s]] = "live"
                     /\ \A r \in Slot \ {s} : ptr[r] # ptr[s]

(* A closer holds a corpus nobody else will free and no slot points to.    *)
CloserInv ==
  \A t \in Threads :
    Closer(t) => /\ corp[t] \in Corpora /\ corpora[corp[t]] = "live"
                 /\ \A s \in Slot : ptr[s] # corp[t]
                 /\ \A u \in Threads \ {t} : Closer(u) => corp[u] # corp[t]

(* A slot is drained by one closer, and not reused meanwhile: "a stale      *)
(* handle would otherwise decrement the wrong slot's refcount".            *)
DrainInv ==
  \A s \in Slot : \A t \in Threads :
    Draining(t, s) => /\ ptr[s] = NULL /\ gen[s] = handle[t][2]
                      /\ \A u \in Threads \ {t} : ~ Draining(u, s)

(* A call inside works on a corpus that its slot still points to, or that  *)
(* the closer draining the slot holds.                                     *)
UserInv ==
  \A s \in Slot : \A t \in Users(s) :
    /\ corp[t] \in Corpora /\ gen[s] = handle[t][2]
    /\ \/ ptr[s] = corp[t]
       \/ \E u \in Threads : Draining(u, s) /\ corp[u] = corp[t]

IInv == Types /\ CountExact /\ PointerInv /\ CloserInv /\ DrainInv /\ UserInv
===============================================================================
