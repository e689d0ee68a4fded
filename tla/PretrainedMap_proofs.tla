-------------------------- MODULE PretrainedMap_proofs --------------------------
(***************************************************************************)
(* Proofs about PretrainedMap, for any threads, any number of calls and    *)
(* any number of shutdowns, also concurrent with the calls.  The argument  *)
(* rests on the inductive invariant IInv of PretrainedMap: the reader      *)
(* count is exact, a shutdown frees only after it has seen no reader and   *)
(* under the mutex, and without a concurrent shutdown one thread builds    *)
(* the map before anyone can see READY.                                    *)
(***************************************************************************)
EXTENDS PretrainedMap, FiniteSetTheorems, TLAPS

(* The invariant holds before the first call.                              *)
LEMMA InitIInv == Init => IInv
<1> SUFFICES ASSUME Init PROVE IInv
  OBVIOUS
<1>1. TypeOK
  <2>1. <<>> \in Seq(Contents) /\ 0 \in 0 .. Len(<<>>)
    OBVIOUS
  <2>2. /\ tables \in Seq(Contents) /\ g_pretrained_map \in 0 .. Len(tables)
        /\ g_abbrev_ht \in 0 .. Len(tables) /\ at \in [Threads -> 0 .. Len(tables)]
    BY <2>1 DEF Init, NULL
  <2>3. pc \in [Threads -> Places]
    BY DEF Init, Places
  <2>4. kind \in [Threads -> {"none", "lookup", "ensure", "build", "tokenize"}]
    BY DEF Init
  <2>5. /\ g_reader_count \in Int
        /\ g_pretrained_state \in {"UNINIT", "INIT", "READY"}
        /\ g_abbrev_ht_state \in {"UNINIT", "READY", "FAILED"}
        /\ g_init_mutex \in Threads \union {NoThread, Shutter}
        /\ shut_pc \in {"idle", "wait", "lock", "free", "free_abbrev", "unlock", "clear"}
    BY DEF Init
  <2>6. g_shutting_down \in BOOLEAN /\ oom \in BOOLEAN /\ overlapped \in BOOLEAN
    BY DEF Init
  <2> QED
    BY <2>2, <2>3, <2>4, <2>5, <2>6 DEF TypeOK
<1>2. Bracket = {}
  BY DEF Init, Bracket, Reading, Ensuring, Building
<1>3. CountInv
  BY <1>2, FS_EmptySet DEF Init, CountInv
<1>4. KindInv /\ HandshakeInv
  BY <1>2 DEF Init, KindInv, KindOK, HandshakeInv, Ensuring, Building, Abbreviating
<1>5. MutexInv
  BY PretrainedAssumption DEF Init, MutexInv, Holding
<1>6. TableInv /\ QuietInv
  BY DEF Init, TableInv, QuietInv, BuildsAlone, SeenReady, Building
<1>7. NoUseAfterFree /\ ReadsPublished /\ OneTableEach
  BY DEF Init, NoUseAfterFree, ReadsPublished, OneTableEach, NULL
<1> QED
  BY <1>1, <1>3, <1>4, <1>5, <1>6, <1>7 DEF IInv

-------------------------------------------------------------------------------
(* The places a step leads to.                                             *)
LEMMA PlacesAre ==
  /\ "idle" \in Places /\ "enter" \in Places /\ "abbrev" \in Places
  /\ "abbrev_state" \in Places /\ "abbrev_lock" \in Places /\ "check" \in Places
  /\ "check_abbrev" \in Places /\ "read" \in Places /\ "read_abbrev" \in Places
  /\ "exit" \in Places /\ "ensure" \in Places /\ "ensure_state" \in Places
  /\ "cas" \in Places /\ "spin" \in Places /\ "lock" \in Places
  /\ "create" \in Places /\ "fill" \in Places /\ "unlock" \in Places
  /\ "publish" \in Places /\ "abbrev_create" \in Places /\ "abbrev_fill" \in Places
  /\ "abbrev_unlock" \in Places
  BY DEF Places, Reading, Ensuring, Building, Abbreviating

(* Where a call goes on once the map is there.                             *)
LEMMA AfterEnsurePlace ==
  ASSUME NEW t \in Threads
  PROVE  AfterEnsure(t) \in {"read", "enter", "idle"}
  BY DEF AfterEnsure

(* A table is created, filled or freed.                                    *)
LEMMA TablesGrow ==
  ASSUME tables \in Seq(Contents), tables' = Append(tables, "filling")
  PROVE  /\ tables' \in Seq(Contents) /\ Len(tables) \in Nat
         /\ Len(tables') = Len(tables) + 1 /\ Len(tables') \in Nat
         /\ Len(tables) <= Len(tables')
         /\ tables'[Len(tables')] = "filling"
         /\ \A i \in 1 .. Len(tables) : tables'[i] = tables[i]
         /\ DOMAIN tables = 1 .. Len(tables) /\ DOMAIN tables' = 1 .. Len(tables')
<1>1. "filling" \in Contents
  BY DEF Contents
<1> QED
  BY <1>1

(* Filling a table changes it alone.                                       *)
LEMMA TablesFill ==
  ASSUME tables \in Seq(Contents), NEW i \in 1 .. Len(tables),
         tables' = [tables EXCEPT ![i] = "full"]
  PROVE  /\ tables' \in Seq(Contents) /\ Len(tables) \in Nat
         /\ Len(tables') = Len(tables)
         /\ \A j \in 1 .. Len(tables) : tables'[j] = IF j = i THEN "full" ELSE tables[j]
         /\ DOMAIN tables = 1 .. Len(tables) /\ DOMAIN tables' = 1 .. Len(tables')
<1>1. "full" \in Contents
  BY DEF Contents
<1> QED
  BY <1>1

(* Freeing changes one table at most; fce_ht_free of NULL changes none.    *)
LEMMA TablesFree ==
  ASSUME tables \in Seq(Contents), NEW i \in 0 .. Len(tables),
         tables' = FreeTable(tables, i)
  PROVE  /\ tables' \in Seq(Contents) /\ Len(tables) \in Nat
         /\ Len(tables') = Len(tables)
         /\ \A j \in 1 .. Len(tables) : tables'[j] = IF j = i THEN "freed" ELSE tables[j]
         /\ DOMAIN tables = 1 .. Len(tables) /\ DOMAIN tables' = 1 .. Len(tables')
<1>1. "freed" \in Contents
  BY DEF Contents
<1>2. /\ Len(tables) \in Nat /\ DOMAIN tables = 1 .. Len(tables)
      /\ \A j \in 1 .. Len(tables) : tables[j] \in Contents
  OBVIOUS
<1>3. tables' = [j \in 1 .. Len(tables) |-> IF j = i THEN "freed" ELSE tables[j]]
  BY <1>2 DEF FreeTable
<1>4. \A j \in 1 .. Len(tables) : (IF j = i THEN "freed" ELSE tables[j]) \in Contents
  BY <1>1, <1>2
<1>5. tables' \in Seq(Contents) /\ Len(tables') = Len(tables)
  BY <1>2, <1>3, <1>4
<1> QED
  BY <1>2, <1>3, <1>5

-------------------------------------------------------------------------------
(* Types.                                                                  *)

(* Pointers into the tables stay in range when no table disappears.        *)
LEMMA HeapTypes ==
  ASSUME TypeOK, tables' \in Seq(Contents), Len(tables') \in Nat, Len(tables) \in Nat,
         Len(tables) <= Len(tables'), at' = at,
         g_pretrained_map' \in {g_pretrained_map, NULL, Len(tables')},
         g_abbrev_ht' \in {g_abbrev_ht, NULL, Len(tables')}
  PROVE  /\ g_pretrained_map' \in 0 .. Len(tables') /\ g_abbrev_ht' \in 0 .. Len(tables')
         /\ at' \in [Threads -> 0 .. Len(tables')]
<1>1. 0 .. Len(tables) \subseteq 0 .. Len(tables') /\ Len(tables') \in 0 .. Len(tables')
      /\ NULL \in 0 .. Len(tables')
  BY DEF NULL
<1>2. /\ g_pretrained_map \in 0 .. Len(tables) /\ g_abbrev_ht \in 0 .. Len(tables)
      /\ at \in [Threads -> 0 .. Len(tables)]
  BY DEF TypeOK
<1> QED
  BY <1>1, <1>2

(* A thread goes to a place.                                               *)
LEMMA GotoPlace ==
  ASSUME pc \in [Threads -> Places], NEW t \in Threads, NEW l \in Places, Goto(t, l)
  PROVE  pc' \in [Threads -> Places] /\ UNCHANGED <<kind, at, calls>>
  BY DEF Goto

(* Every step keeps the types.                                             *)
LEMMA TypeStep == IInv /\ [Next]_vars => TypeOK'
<1> SUFFICES ASSUME IInv, [Next]_vars PROVE TypeOK'
  OBVIOUS
<1> USE PlacesAre, GotoPlace
    DEF IInv, TypeOK, vars, flags, states, memory, tables_and_oom, thread, shutter
<1>1. CASE UNCHANGED vars
  BY <1>1
<1>2. CASE ShutBegin \/ ShutWait \/ ShutLock \/ ShutUnlock \/ ShutClear
  BY <1>2 DEF ShutBegin, ShutWait, ShutLock, ShutUnlock, ShutClear
<1>3. CASE ShutFreeMap
  <2>1. tables' \in Seq(Contents) /\ Len(tables') = Len(tables) /\ Len(tables) \in Nat
    BY <1>3, TablesFree DEF ShutFreeMap
  <2> QED
    <3>1. /\ at' = at /\ g_pretrained_map' = NULL /\ g_abbrev_ht' = g_abbrev_ht
          /\ pc' = pc /\ kind' = kind /\ g_pretrained_state' = "UNINIT"
          /\ UNCHANGED <<flags, g_abbrev_ht_state, g_init_mutex, overlapped>>
          /\ shut_pc' = "free_abbrev"
      BY <1>3 DEF ShutFreeMap, MapReset
    <3>2. oom' \in BOOLEAN
      BY <1>3 DEF ShutFreeMap
    <3> QED
      BY <2>1, <3>1, <3>2, HeapTypes
<1>4. CASE ShutFreeAbbrev
  <2>1. tables' \in Seq(Contents) /\ Len(tables') = Len(tables) /\ Len(tables) \in Nat
    BY <1>4, TablesFree DEF ShutFreeAbbrev
  <2> QED
    BY <1>4, <2>1, HeapTypes DEF ShutFreeAbbrev
<1>5. ASSUME NEW t \in Threads, Call(t) PROVE TypeOK'
  BY <1>5, PretrainedAssumption DEF Call
<1>6. ASSUME NEW t \in Threads, Enter(t) \/ CheckAbbrev(t) PROVE TypeOK'
  BY <1>6 DEF Enter, CheckAbbrev, Goto
<1>7. ASSUME NEW t \in Threads, Check(t) PROVE TypeOK'
  <2>1. kind[t] \in {"lookup", "build", "tokenize"}
    BY <1>7 DEF Check, KindInv, KindOK
  <2> QED
    BY <1>7, <2>1 DEF Check
<1>8. ASSUME NEW t \in Threads, Read(t) \/ Exit(t) PROVE TypeOK'
  <2>1. /\ pc' \in [Threads -> Places] /\ g_reader_count' \in Int
        /\ UNCHANGED <<g_shutting_down, states, g_init_mutex, memory, kind, calls, shutter>>
    BY <1>8 DEF Read, Exit
  <2>2. at' \in [Threads -> 0 .. Len(tables)]
    <3>1. NULL \in 0 .. Len(tables)
      BY DEF NULL
    <3> QED
      BY <1>8, <3>1 DEF Read, Exit
  <2> QED
    BY <2>1, <2>2
<1>9. ASSUME NEW t \in Threads, EnsureFlag(t) \/ EnsureState(t) \/ Cas(t) \/ Spin(t) \/ Publish(t)
      PROVE TypeOK'
  BY SMTT(30), <1>9, AfterEnsurePlace DEF EnsureFlag, EnsureState, Cas, Spin, Publish, Goto
<1>10. ASSUME NEW t \in Threads, Lock(t) \/ Unlock(t) \/ AbbrevFlag(t) \/ AbbrevState(t)
       PROVE TypeOK'
  <2>1. g_init_mutex' \in Threads \union {NoThread, Shutter}
    BY <1>10 DEF Lock, Unlock, AbbrevFlag, AbbrevState
  <2>2. pc' \in [Threads -> Places] /\ UNCHANGED <<flags, states, memory, shutter, kind, at, calls>>
    BY <1>10 DEF Lock, Unlock, AbbrevFlag, AbbrevState
  <2> QED
    BY <2>1, <2>2
<1>11. ASSUME NEW t \in Threads, Create(t) PROVE TypeOK'
  <2>1. /\ pc' \in [Threads -> Places] /\ oom' \in BOOLEAN
        /\ UNCHANGED <<flags, states, g_init_mutex, g_abbrev_ht, overlapped, shutter, kind, at>>
    BY <1>11 DEF Create
  <2>2. CASE tables' = tables
    <3>1. g_pretrained_map' \in {g_pretrained_map, Len(tables')}
      BY <1>11 DEF Create
    <3>2. Len(tables) \in Nat
      OBVIOUS
    <3> QED
      BY <2>1, <2>2, <3>1, <3>2, HeapTypes
  <2>3. CASE tables' = Append(tables, "filling")
    <3>1. g_pretrained_map' \in {g_pretrained_map, Len(tables')}
      BY <1>11 DEF Create
    <3>2. /\ tables' \in Seq(Contents) /\ Len(tables) \in Nat /\ Len(tables') \in Nat
          /\ Len(tables) <= Len(tables')
      BY <2>3, TablesGrow
    <3> QED
      BY <2>1, <3>1, <3>2, HeapTypes
  <2> QED
    BY <1>11, <2>2, <2>3 DEF Create
<1>12. ASSUME NEW t \in Threads, AbbrevCreate(t) PROVE TypeOK'
  <2>1. /\ pc' \in [Threads -> Places] /\ g_abbrev_ht_state' \in {"UNINIT", "READY", "FAILED"}
        /\ UNCHANGED <<flags, g_pretrained_state, g_init_mutex, g_pretrained_map, oom,
                       overlapped, shutter, kind, at>>
    BY <1>12 DEF AbbrevCreate
  <2>2. g_abbrev_ht' \in {g_abbrev_ht, NULL, Len(tables')}
    BY <1>12 DEF AbbrevCreate
  <2>3. CASE tables' = tables
    <3>1. Len(tables) \in Nat
      OBVIOUS
    <3> QED
      BY <2>1, <2>2, <2>3, <3>1, HeapTypes
  <2>4. CASE tables' = Append(tables, "filling")
    <3>1. /\ tables' \in Seq(Contents) /\ Len(tables) \in Nat /\ Len(tables') \in Nat
          /\ Len(tables) <= Len(tables')
      BY <2>4, TablesGrow
    <3> QED
      BY <2>1, <2>2, <3>1, HeapTypes
  <2> QED
    BY <1>12, <2>3, <2>4 DEF AbbrevCreate
<1>13. ASSUME NEW t \in Threads, Fill(t) PROVE TypeOK'
  <2>1. g_pretrained_map \in 1 .. Len(tables)
    BY <1>13 DEF Fill, TableInv, NULL
  <2>2. tables' \in Seq(Contents) /\ Len(tables') = Len(tables)
    BY <1>13, <2>1, TablesFill DEF Fill
  <2>3. pc' \in [Threads -> Places]
        /\ UNCHANGED <<flags, states, g_init_mutex, g_pretrained_map, g_abbrev_ht, oom,
                       overlapped, shutter, kind, at>>
    BY <1>13 DEF Fill
  <2> QED
    BY <2>2, <2>3
<1>14. ASSUME NEW t \in Threads, AbbrevFill(t) PROVE TypeOK'
  <2>1. g_abbrev_ht \in 1 .. Len(tables)
    BY <1>14 DEF AbbrevFill, TableInv, NULL
  <2>2. tables' \in Seq(Contents) /\ Len(tables') = Len(tables)
    BY <1>14, <2>1, TablesFill DEF AbbrevFill
  <2>3. pc' \in [Threads -> Places] /\ g_abbrev_ht_state' \in {"UNINIT", "READY", "FAILED"}
        /\ UNCHANGED <<flags, g_pretrained_state, g_init_mutex, g_pretrained_map, g_abbrev_ht,
                       oom, overlapped, shutter, kind, at>>
    BY <1>14 DEF AbbrevFill
  <2> QED
    BY <2>2, <2>3
<1> QED
  BY <1>1, <1>2, <1>3, <1>4, <1>5, <1>6, <1>7, <1>8, <1>9, <1>10, <1>11, <1>12, <1>13, <1>14
  DEF Next, Step, ShutStep

-------------------------------------------------------------------------------
(* How a call of kind k moves from place a to place b.                     *)
Edge(k, a, b) ==
  \/ a = "enter" /\ b = "check"
  \/ a = "check" /\ \/ b = "exit"
                    \/ k = "lookup" /\ b = "ensure"
                    \/ k = "tokenize" /\ b = "check_abbrev"
                    \/ k = "build" /\ b = "read"
  \/ a = "check_abbrev" /\ b \in {"read_abbrev", "exit"}
  \/ a \in {"read", "read_abbrev"} /\ b = "exit"
  \/ a = "exit" /\ b = "idle"
  \/ a \in Ensuring /\ b \in Ensuring
  \/ a \in Ensuring /\ \/ k = "lookup" /\ b = "read"
                       \/ k = "build" /\ b = "enter"
                       \/ k = "ensure" /\ b = "idle"
  \/ a \in Abbreviating /\ b \in Abbreviating \union {"enter"}

(* Goto moves one thread.                                                  *)
LEMMA Moved ==
  ASSUME TypeOK, NEW t \in Threads, NEW l, Goto(t, l)
  PROVE  /\ pc'[t] = l /\ kind' = kind /\ at' = at
         /\ \A u \in Threads : u # t => pc'[u] = pc[u]
  BY DEF Goto, TypeOK

(* Every place of ensure_pretrained_map may return to its caller.          *)
LEMMA EnsureEdge ==
  ASSUME NEW k \in {"lookup", "ensure", "build"}, NEW t \in Threads, kind[t] = k,
         NEW a \in Ensuring
  PROVE  Edge(k, a, AfterEnsure(t))
  BY DEF AfterEnsure, Edge

(* A step of a thread moves that thread along an edge.                     *)
LEMMA StepEdge ==
  ASSUME IInv, NEW t \in Threads, Step(t)
  PROVE  /\ Edge(kind[t], pc[t], pc'[t]) /\ kind' = kind
         /\ \A u \in Threads : u # t => pc'[u] = pc[u] /\ at'[u] = at[u]
         /\ UNCHANGED shutter /\ g_shutting_down' = g_shutting_down /\ overlapped' = overlapped
<1> USE Moved DEF IInv, flags, memory, shutter
<1>1. CASE Enter(t) \/ CheckAbbrev(t)
  BY <1>1 DEF Enter, CheckAbbrev, Edge
<1>2. CASE Check(t)
  <2>1. kind[t] \in {"lookup", "build", "tokenize"}
    BY <1>2 DEF Check, KindInv, KindOK
  <2> QED
    BY <1>2, <2>1 DEF Check, Edge
<1>3. CASE Read(t) \/ Exit(t)
  <2>1. pc \in [Threads -> Places] /\ at \in [Threads -> 0 .. Len(tables)]
    BY DEF TypeOK
  <2> QED
    BY <1>3, <2>1 DEF Read, Exit, Edge
<1>4. CASE EnsureFlag(t) \/ EnsureState(t) \/ Cas(t) \/ Spin(t) \/ Publish(t)
  <2>1. pc[t] \in Ensuring /\ kind[t] \in {"lookup", "ensure", "build"}
    BY <1>4 DEF EnsureFlag, EnsureState, Cas, Spin, Publish, KindInv, KindOK, Ensuring, Building
  <2>2. pc'[t] \in Ensuring \union {AfterEnsure(t)}
    BY <1>4 DEF EnsureFlag, EnsureState, Cas, Spin, Publish, Ensuring, Building
  <2>3. Edge(kind[t], pc[t], pc'[t])
    <3>1. CASE pc'[t] \in Ensuring
      BY <2>1, <3>1 DEF Edge
    <3> QED
      BY <2>1, <2>2, <3>1, EnsureEdge
  <2> QED
    BY <1>4, <2>3 DEF EnsureFlag, EnsureState, Cas, Spin, Publish
<1>5. CASE Lock(t) \/ Unlock(t)
  <2>1. Edge(kind[t], pc[t], pc'[t])
    BY <1>5 DEF Lock, Unlock, Edge, Ensuring, Building, Abbreviating
  <2> QED
    BY <1>5, <2>1 DEF Lock, Unlock
<1>6. CASE Create(t) \/ Fill(t)
  <2>1. Edge(kind[t], pc[t], pc'[t])
    BY <1>6 DEF Create, Fill, Edge, Ensuring, Building
  <2> QED
    BY <1>6, <2>1 DEF Create, Fill
<1>7. CASE AbbrevFlag(t) \/ AbbrevState(t) \/ AbbrevCreate(t) \/ AbbrevFill(t)
  <2>1. Edge(kind[t], pc[t], pc'[t])
    BY <1>7 DEF AbbrevFlag, AbbrevState, AbbrevCreate, AbbrevFill, Edge, Abbreviating
  <2> QED
    BY <1>7, <2>1 DEF AbbrevFlag, AbbrevState, AbbrevCreate, AbbrevFill
<1> QED
  BY <1>1, <1>2, <1>3, <1>4, <1>5, <1>6, <1>7 DEF Step

(* A new call, and the shutdown, which leaves the threads alone.           *)
LEMMA CallEdge ==
  ASSUME IInv, NEW t \in Threads, Call(t)
  PROVE  /\ pc[t] = "idle" /\ at' = at
         /\ \/ kind'[t] = "lookup" /\ pc'[t] = "enter"
            \/ kind'[t] = "tokenize" /\ pc'[t] = "abbrev"
            \/ kind'[t] \in {"ensure", "build"} /\ pc'[t] = "ensure"
         /\ \A u \in Threads : u # t => pc'[u] = pc[u] /\ kind'[u] = kind[u]
         /\ UNCHANGED <<flags, states, g_init_mutex, tables_and_oom, shutter>>
<1>1. /\ pc \in [Threads -> Places]
      /\ kind \in [Threads -> {"none", "lookup", "ensure", "build", "tokenize"}]
  BY DEF IInv, TypeOK
<1>2. PICK k \in Kinds :
        /\ kind' = [kind EXCEPT ![t] = k]
        /\ pc' = [pc EXCEPT ![t] = CASE k = "lookup" -> "enter"
                                     [] k = "tokenize" -> "abbrev"
                                     [] OTHER -> "ensure"]
  BY DEF Call
<1>3. k \in {"lookup", "ensure", "build", "tokenize"}
  BY PretrainedAssumption
<1> QED
  BY <1>1, <1>2, <1>3 DEF Call

(* The steps of the shutdown move no other thread and count no reader.     *)
LEMMA ShutEdge ==
  ASSUME ShutBegin \/ ShutStep
  PROVE  /\ pc' = pc /\ kind' = kind /\ at' = at /\ g_reader_count' = g_reader_count
         /\ Bracket' = Bracket
<1>1. /\ pc' = pc /\ kind' = kind /\ at' = at /\ g_reader_count' = g_reader_count
  BY DEF ShutStep, ShutBegin, ShutWait, ShutLock, ShutFreeMap, ShutFreeAbbrev, ShutUnlock,
         ShutClear, thread, flags
<1> QED
  BY <1>1 DEF Bracket

-------------------------------------------------------------------------------
(* Every call is at a place its kind can reach.                            *)
LEMMA KindStep == IInv /\ [Next]_vars => KindInv'
<1> SUFFICES ASSUME IInv, [Next]_vars, NEW u \in Threads
             PROVE  KindOK(u)'
  BY DEF KindInv
<1>1. KindOK(u)
  BY DEF IInv, KindInv
<1>2. CASE UNCHANGED vars \/ ShutBegin \/ ShutStep
  BY <1>1, <1>2, ShutEdge DEF vars, thread, KindOK
<1>3. ASSUME NEW t \in Threads, Call(t) PROVE KindOK(u)'
  <2>1. CASE u # t
    BY <1>1, <1>3, <2>1, CallEdge DEF KindOK
  <2>2. CASE u = t
    BY <1>3, <2>2, CallEdge DEF KindOK, Ensuring, Building, Abbreviating
  <2> QED
    BY <2>1, <2>2
<1>4. ASSUME NEW t \in Threads, Step(t) PROVE KindOK(u)'
  <2>1. CASE u # t
    BY <1>1, <1>4, <2>1, StepEdge DEF KindOK
  <2>2. CASE u = t
    <3> DEFINE a == pc[u]
               b == pc'[u]
               k == kind[u]
    <3>1. Edge(k, a, b) /\ kind'[u] = k
      BY <1>4, <2>2, StepEdge
    <3>2. /\ b \in Ensuring => (a = "check" /\ k = "lookup") \/ a \in Ensuring
          /\ b \in Abbreviating => a \in Abbreviating
          /\ b = "enter" => a \in Abbreviating \/ (a \in Ensuring /\ k = "build")
          /\ b = "check" => a = "enter"
      BY <3>1 DEF Edge, Ensuring, Building, Abbreviating
    <3> QED
      BY <1>1, <3>1, <3>2 DEF KindOK
  <2> QED
    BY <2>1, <2>2
<1> QED
  BY <1>2, <1>3, <1>4 DEF Next

-------------------------------------------------------------------------------
(* A thread is inside the reader bracket.                                  *)
InBracket(t) == pc[t] \in Reading \/ (kind[t] = "lookup" /\ pc[t] \in Ensuring)

(* The threads in the reader bracket, before and after a step.             *)
LEMMA BracketIs ==
  /\ Bracket = {t \in Threads : InBracket(t)}
  /\ Bracket' = {t \in Threads : InBracket(t)'}
  BY DEF Bracket, InBracket

(* Entering opens the bracket, leaving closes it, no other step does.      *)
LEMMA EnterOpens ==
  ASSUME IInv, NEW t \in Threads, Enter(t)
  PROVE  t \notin Bracket /\ Bracket' = Bracket \union {t} /\ g_reader_count' = g_reader_count + 1
<1>1. pc[t] = "enter" /\ pc'[t] = "check" /\ kind' = kind
      /\ \A u \in Threads : u # t => pc'[u] = pc[u]
  BY Moved DEF IInv, Enter
<1>2. ~ InBracket(t) /\ InBracket(t)'
  BY <1>1 DEF InBracket, Reading, Ensuring, Building
<1>3. \A u \in Threads : u # t => InBracket(u)' = InBracket(u)
  BY <1>1 DEF InBracket
<1>4. g_reader_count' = g_reader_count + 1
  BY DEF Enter
<1> QED
  BY <1>2, <1>3, <1>4, BracketIs

(* A thread that leaves is the only one that leaves the bracket.           *)
LEMMA ExitCloses ==
  ASSUME IInv, NEW t \in Threads, Exit(t)
  PROVE  t \in Bracket /\ Bracket' = Bracket \ {t} /\ g_reader_count' = g_reader_count - 1
<1>1. pc[t] = "exit" /\ pc'[t] = "idle" /\ kind' = kind
      /\ \A u \in Threads : u # t => pc'[u] = pc[u]
  BY DEF IInv, TypeOK, Exit
<1>2. InBracket(t) /\ ~ InBracket(t)'
  BY <1>1 DEF InBracket, Reading, Ensuring, Building
<1>3. \A u \in Threads : u # t => InBracket(u)' = InBracket(u)
  BY <1>1 DEF InBracket
<1>4. g_reader_count' = g_reader_count - 1
  BY DEF Exit
<1> QED
  BY <1>2, <1>3, <1>4, BracketIs

(* The other steps of a thread neither enter nor leave the bracket.        *)
LEMMA OthersKeep ==
  ASSUME IInv, NEW t \in Threads, Step(t), ~ Enter(t), ~ Exit(t)
  PROVE  Bracket' = Bracket /\ g_reader_count' = g_reader_count
<1>1. pc[t] \notin {"enter", "exit"} /\ g_reader_count' = g_reader_count
  <2>1. CASE Check(t) \/ CheckAbbrev(t) \/ Read(t)
    BY <2>1 DEF Check, CheckAbbrev, Read, flags
  <2>2. CASE EnsureFlag(t) \/ EnsureState(t) \/ Cas(t) \/ Spin(t) \/ Publish(t)
    BY <2>2 DEF EnsureFlag, EnsureState, Cas, Spin, Publish, flags
  <2>3. CASE Lock(t) \/ Unlock(t) \/ Create(t) \/ Fill(t)
    BY <2>3 DEF Lock, Unlock, Create, Fill, flags
  <2>4. CASE AbbrevFlag(t) \/ AbbrevState(t) \/ AbbrevCreate(t) \/ AbbrevFill(t)
    BY <2>4 DEF AbbrevFlag, AbbrevState, AbbrevCreate, AbbrevFill, flags
  <2> QED
    BY <2>1, <2>2, <2>3, <2>4 DEF Step
<1>2. /\ Edge(kind[t], pc[t], pc'[t]) /\ kind' = kind
      /\ \A u \in Threads : u # t => pc'[u] = pc[u]
  BY StepEdge
<1>3. InBracket(t)' <=> InBracket(t)
  <2> DEFINE a == pc[t]
             b == pc'[t]
             k == kind[t]
  <2>1. Edge(k, a, b) /\ KindOK(t) /\ a \notin {"enter", "exit"}
    BY <1>1, <1>2 DEF IInv, KindInv
  <2>2. \/ a = "check" /\ b = "exit"
        \/ a = "check" /\ k = "lookup" /\ b = "ensure"
        \/ a = "check" /\ k = "tokenize" /\ b = "check_abbrev"
        \/ a = "check" /\ k = "build" /\ b = "read"
        \/ a = "check_abbrev" /\ b \in {"read_abbrev", "exit"}
        \/ a \in {"read", "read_abbrev"} /\ b = "exit"
        \/ a \in Ensuring /\ b \in Ensuring
        \/ a \in Ensuring /\ k = "lookup" /\ b = "read"
        \/ a \in Ensuring /\ k = "build" /\ b = "enter"
        \/ a \in Ensuring /\ k = "ensure" /\ b = "idle"
        \/ a \in Abbreviating /\ b \in Abbreviating \union {"enter"} /\ k = "tokenize"
    BY <2>1 DEF Edge, KindOK
  <2>3. (a \in Reading \/ (k = "lookup" /\ a \in Ensuring))
          <=> (b \in Reading \/ (k = "lookup" /\ b \in Ensuring))
    BY <2>2 DEF Reading, Ensuring, Building, Abbreviating
  <2> QED
    BY <1>2, <2>3 DEF InBracket
<1>4. \A u \in Threads : u # t => (InBracket(u)' <=> InBracket(u))
  BY <1>2 DEF InBracket
<1> QED
  BY <1>1, <1>3, <1>4, BracketIs

(* The reader count counts the threads in the bracket.                     *)
LEMMA CountStep == IInv /\ [Next]_vars => CountInv'
<1> SUFFICES ASSUME IInv, [Next]_vars PROVE CountInv'
  OBVIOUS
<1>1. IsFiniteSet(Bracket) /\ g_reader_count = Cardinality(Bracket)
  BY DEF IInv, CountInv
<1>2. CASE UNCHANGED vars \/ ShutBegin \/ ShutStep
  <2>1. Bracket' = Bracket /\ g_reader_count' = g_reader_count
    BY <1>2, ShutEdge DEF vars, thread, flags, Bracket
  <2> QED
    BY <1>1, <2>1 DEF CountInv
<1>3. ASSUME NEW t \in Threads, Call(t) PROVE CountInv'
  <2>1. \A u \in Threads : InBracket(u)' <=> InBracket(u)
    BY <1>3, CallEdge DEF InBracket, Reading, Ensuring, Building
  <2>2. Bracket' = Bracket /\ g_reader_count' = g_reader_count
    BY <1>3, <2>1, BracketIs, CallEdge DEF flags
  <2> QED
    BY <1>1, <2>2 DEF CountInv
<1>4. ASSUME NEW t \in Threads, Step(t) PROVE CountInv'
  <2>1. CASE Enter(t)
    BY <1>1, <2>1, EnterOpens, FS_AddElement DEF CountInv
  <2>2. CASE Exit(t)
    BY <1>1, <2>2, ExitCloses, FS_RemoveElement DEF CountInv
  <2>3. CASE ~ Enter(t) /\ ~ Exit(t)
    BY <1>1, <1>4, <2>3, OthersKeep DEF CountInv
  <2> QED
    BY <2>1, <2>2, <2>3
<1> QED
  BY <1>2, <1>3, <1>4 DEF Next

-------------------------------------------------------------------------------
(* The flag is up exactly while a shutdown is under way.                   *)
LEMMA FlagStep == IInv /\ [Next]_vars => (g_shutting_down <=> shut_pc # "idle")'
<1> SUFFICES ASSUME IInv, [Next]_vars PROVE (g_shutting_down <=> shut_pc # "idle")'
  OBVIOUS
<1>1. g_shutting_down <=> shut_pc # "idle"
  BY DEF IInv, HandshakeInv
<1>2. CASE UNCHANGED vars
  BY <1>1, <1>2 DEF vars, flags, shutter
<1>3. CASE ShutBegin
  BY <1>3 DEF ShutBegin
<1>4. CASE ShutClear
  BY <1>4 DEF ShutClear
<1>5. CASE ShutWait \/ ShutLock \/ ShutFreeMap \/ ShutFreeAbbrev \/ ShutUnlock
  <2>1. g_shutting_down' = g_shutting_down
    BY <1>5 DEF ShutWait, ShutLock, ShutFreeMap, ShutFreeAbbrev, ShutUnlock, flags
  <2>2. shut_pc # "idle" /\ shut_pc' # "idle"
    BY <1>5 DEF ShutWait, ShutLock, ShutFreeMap, ShutFreeAbbrev, ShutUnlock
  <2> QED
    BY <1>1, <2>1, <2>2
<1>6. ASSUME NEW t \in Threads, Call(t) PROVE (g_shutting_down <=> shut_pc # "idle")'
  BY <1>1, <1>6 DEF Call, flags, shutter
<1>7. ASSUME NEW t \in Threads, Step(t) PROVE (g_shutting_down <=> shut_pc # "idle")'
  <2>1. g_shutting_down' = g_shutting_down /\ UNCHANGED shutter
    BY <1>7, StepEdge
  <2> QED
    BY <1>1, <2>1 DEF shutter
<1> QED
  BY <1>2, <1>3, <1>4, <1>5, <1>6, <1>7 DEF Next, ShutStep

(* Only Read and Exit touch the table a thread has in hand.                *)
LEMMA AtKeeps ==
  ASSUME IInv, NEW t \in Threads, Step(t), ~ Read(t), ~ Exit(t)
  PROVE  at' = at /\ pc[t] # "exit"
<1>1. CASE Enter(t) \/ Check(t) \/ CheckAbbrev(t)
  BY <1>1, Moved DEF Enter, Check, CheckAbbrev, IInv
<1>2. CASE EnsureFlag(t) \/ EnsureState(t) \/ Cas(t) \/ Spin(t) \/ Publish(t)
  BY <1>2, Moved DEF EnsureFlag, EnsureState, Cas, Spin, Publish, IInv
<1>3. CASE Lock(t) \/ Unlock(t) \/ Create(t) \/ Fill(t)
  BY <1>3, Moved DEF Lock, Unlock, Create, Fill, IInv
<1>4. CASE AbbrevFlag(t) \/ AbbrevState(t) \/ AbbrevCreate(t) \/ AbbrevFill(t)
  BY <1>4, Moved DEF AbbrevFlag, AbbrevState, AbbrevCreate, AbbrevFill, IInv
<1> QED
  BY <1>1, <1>2, <1>3, <1>4 DEF Step

(* A lookup takes the pointer of its table in hand.                        *)
LEMMA ReadIs ==
  ASSUME IInv, NEW t \in Threads, Read(t)
  PROVE  /\ \/ pc[t] = "read" /\ at'[t] = g_pretrained_map
            \/ pc[t] = "read_abbrev" /\ at'[t] = g_abbrev_ht
         /\ pc'[t] = "exit"
         /\ \A u \in Threads : u # t => at'[u] = at[u] /\ pc'[u] = pc[u]
         /\ UNCHANGED <<flags, states, g_init_mutex, memory, kind, calls, shutter>>
  BY DEF Read, IInv, TypeOK

(* A lookup that leaves has no table in hand any more.                     *)
LEMMA ExitIs ==
  ASSUME IInv, NEW t \in Threads, Exit(t)
  PROVE  /\ pc[t] = "exit" /\ pc'[t] = "idle" /\ at'[t] = NULL
         /\ \A u \in Threads : u # t => at'[u] = at[u] /\ pc'[u] = pc[u]
         /\ UNCHANGED <<g_shutting_down, states, g_init_mutex, memory, kind, calls, shutter>>
  BY DEF Exit, IInv, TypeOK

(* A thread has a table in hand only until it leaves the bracket.          *)
LEMMA InHandStep ==
  IInv /\ [Next]_vars => (\A u \in Threads : at[u] # NULL => pc[u] = "exit")'
<1> SUFFICES ASSUME IInv, [Next]_vars, NEW u \in Threads
             PROVE  (at[u] # NULL => pc[u] = "exit")'
  BY DEF NULL
<1>1. at[u] # NULL => pc[u] = "exit"
  BY DEF IInv, HandshakeInv
<1>2. CASE UNCHANGED vars \/ ShutBegin \/ ShutStep
  BY <1>1, <1>2, ShutEdge DEF vars, thread, NULL
<1>3. ASSUME NEW t \in Threads, Call(t) PROVE (at[u] # NULL => pc[u] = "exit")'
  BY <1>1, <1>3, CallEdge DEF NULL
<1>4. ASSUME NEW t \in Threads, Step(t) PROVE (at[u] # NULL => pc[u] = "exit")'
  <2>1. CASE u # t
    BY <1>1, <1>4, <2>1, StepEdge DEF NULL
  <2>2. CASE Read(t) /\ u = t
    BY <2>2, ReadIs
  <2>3. CASE Exit(t) /\ u = t
    BY <2>3, ExitIs DEF NULL
  <2>4. CASE ~ Read(t) /\ ~ Exit(t) /\ u = t
    BY <1>1, <1>4, <2>4, AtKeeps DEF NULL
  <2> QED
    BY <2>1, <2>2, <2>3, <2>4
<1> QED
  BY <1>2, <1>3, <1>4 DEF Next

(* A shutdown past its wait has readers only on their way out.             *)
Leaving == \A u \in Bracket : pc[u] \in {"check", "exit"} /\ at[u] = NULL

(* Past its wait a shutdown knows that whoever is in the bracket only      *)
(* leaves it: a later caller sees the flag.                                *)
LEMMA LeavingStep ==
  IInv /\ [Next]_vars => (shut_pc \notin {"idle", "wait"} => Leaving)'
<1> SUFFICES ASSUME IInv, [Next]_vars, shut_pc' \notin {"idle", "wait"} PROVE Leaving'
  OBVIOUS
<1>1. shut_pc \notin {"idle", "wait"} => Leaving
  BY DEF IInv, HandshakeInv, Leaving
<1>2. CASE UNCHANGED vars
  BY <1>1, <1>2 DEF vars, thread, shutter, Leaving, Bracket, NULL
<1>3. CASE ShutWait
  <2>1. Bracket = {}
    BY <1>3, FS_EmptySet DEF ShutWait, IInv, CountInv
  <2> QED
    BY <1>3, <2>1, ShutEdge DEF Leaving, ShutStep
<1>4. CASE ShutBegin
  BY <1>4 DEF ShutBegin
<1>5. CASE ShutLock \/ ShutFreeMap \/ ShutFreeAbbrev \/ ShutUnlock \/ ShutClear
  <2>1. shut_pc \notin {"idle", "wait"}
    BY <1>5 DEF ShutLock, ShutFreeMap, ShutFreeAbbrev, ShutUnlock, ShutClear
  <2> QED
    BY <1>1, <1>5, <2>1, ShutEdge DEF Leaving, ShutStep, NULL
<1>6. ASSUME NEW t \in Threads, Call(t) PROVE Leaving'
  <2>1. shut_pc' = shut_pc /\ at' = at
    BY <1>6, CallEdge DEF shutter
  <2>2. \A u \in Threads : InBracket(u)' <=> InBracket(u)
    BY <1>6, CallEdge DEF InBracket, Reading, Ensuring, Building
  <2>3. Bracket' = Bracket /\ ~ InBracket(t)
    BY <1>6, <2>2, BracketIs, CallEdge DEF InBracket, Reading, Ensuring, Building
  <2>4. \A u \in Bracket : u \in Threads /\ u # t /\ pc'[u] = pc[u]
    BY <1>6, <2>3, BracketIs, CallEdge
  <2> QED
    BY <1>1, <2>1, <2>3, <2>4 DEF Leaving, NULL
<1>7. ASSUME NEW t \in Threads, Step(t) PROVE Leaving'
  <2>1. shut_pc' = shut_pc /\ Leaving /\ g_shutting_down
        /\ \A u \in Threads : u # t => pc'[u] = pc[u] /\ at'[u] = at[u]
    BY <1>1, <1>7, StepEdge DEF IInv, HandshakeInv, shutter
  <2>2. CASE Enter(t)
    <3>1. pc'[t] = "check" /\ at' = at /\ pc[t] = "enter"
      BY <2>2, Moved DEF IInv, Enter
    <3>2. at[t] = NULL
      BY <3>1 DEF IInv, HandshakeInv
    <3>3. Bracket' = Bracket \union {t} /\ t \notin Bracket /\ Bracket \subseteq Threads
      BY <2>2, EnterOpens DEF Bracket
    <3>4. \A u \in Bracket' : pc'[u] \in {"check", "exit"} /\ at'[u] = NULL
      BY <2>1, <3>1, <3>2, <3>3 DEF Leaving
    <3> QED
      BY <3>4 DEF Leaving, NULL
  <2>3. CASE Exit(t)
    <3>1. Bracket' = Bracket \ {t} /\ Bracket \subseteq Threads
      BY <2>3, ExitCloses DEF Bracket
    <3> QED
      BY <2>1, <3>1 DEF Leaving, NULL
  <2>4. CASE ~ Enter(t) /\ ~ Exit(t)
    <3>1. Bracket' = Bracket /\ Bracket \subseteq Threads
      BY <1>7, <2>4, OthersKeep DEF Bracket
    <3>2. CASE t \notin Bracket
      BY <2>1, <3>1, <3>2 DEF Leaving, NULL
    <3>3. CASE t \in Bracket
      <4>1. pc[t] \in {"check", "exit"} /\ at[t] = NULL
        BY <2>1, <3>3 DEF Leaving
      <4>2. ~ Read(t)
        BY <4>1 DEF Read
      <4>3. at' = at /\ pc[t] = "check"
        BY <1>7, <2>4, <4>1, <4>2, AtKeeps
      <4>4. Check(t)
        BY <1>7, <4>3 DEF Step, Enter, CheckAbbrev, Read, Exit, EnsureFlag, EnsureState, Cas,
           Spin, Lock, Create, Fill, Unlock, Publish, AbbrevFlag, AbbrevState, AbbrevCreate,
           AbbrevFill
      <4>5. pc'[t] = "exit"
        BY <2>1, <4>4, Moved DEF Check, IInv
      <4>6. \A u \in Bracket : pc'[u] \in {"check", "exit"} /\ at'[u] = NULL
        BY <2>1, <3>1, <4>1, <4>3, <4>5 DEF Leaving
      <4> QED
        BY <3>1, <4>6 DEF Leaving, NULL
    <3> QED
      BY <3>2, <3>3
  <2> QED
    BY <2>2, <2>3, <2>4
<1> QED
  BY <1>2, <1>3, <1>4, <1>5, <1>6, <1>7 DEF Next, ShutStep

(* The handshake between the readers and a shutdown holds.                 *)
LEMMA HandshakeStep == IInv /\ [Next]_vars => HandshakeInv'
<1> SUFFICES ASSUME IInv, [Next]_vars PROVE HandshakeInv'
  OBVIOUS
<1>1. (g_shutting_down <=> shut_pc # "idle")'
  BY FlagStep
<1>2. (shut_pc \notin {"idle", "wait"} => Leaving)'
  BY LeavingStep
<1>3. (\A u \in Threads : at[u] # NULL => pc[u] = "exit")'
  BY InHandStep
<1> QED
  BY <1>1, <1>2, <1>3 DEF HandshakeInv, Leaving

-------------------------------------------------------------------------------
(* Only Lock and Unlock touch the mutex and cross the border of Holding.   *)
LEMMA HoldingKeeps ==
  ASSUME IInv, NEW t \in Threads, Step(t), ~ Lock(t), ~ Unlock(t)
  PROVE  g_init_mutex' = g_init_mutex /\ (pc'[t] \in Holding <=> pc[t] \in Holding)
<1>1. CASE Enter(t) \/ Check(t) \/ CheckAbbrev(t) \/ Read(t) \/ Exit(t)
  <2>1. /\ pc[t] \in {"enter", "check", "check_abbrev", "read", "read_abbrev", "exit"}
        /\ g_init_mutex' = g_init_mutex
    BY <1>1 DEF Enter, Check, CheckAbbrev, Read, Exit
  <2>2. Edge(kind[t], pc[t], pc'[t])
    BY StepEdge
  <2>3. pc'[t] \in {"check", "ensure", "check_abbrev", "read", "read_abbrev", "exit", "idle"}
    BY <2>1, <2>2 DEF Edge, Ensuring, Building, Abbreviating
  <2> QED
    BY <2>1, <2>3 DEF Holding
<1>2. CASE EnsureFlag(t) \/ EnsureState(t) \/ Cas(t) \/ Spin(t) \/ Publish(t)
  <2>1. /\ pc[t] \in {"ensure", "ensure_state", "cas", "spin", "publish"}
        /\ g_init_mutex' = g_init_mutex
    BY <1>2 DEF EnsureFlag, EnsureState, Cas, Spin, Publish
  <2>2. pc'[t] \in {AfterEnsure(t), "ensure_state", "cas", "lock", "spin"}
    BY <1>2, Moved DEF IInv, EnsureFlag, EnsureState, Cas, Spin, Publish
  <2> QED
    BY <2>1, <2>2, AfterEnsurePlace DEF Holding
<1>3. CASE Create(t) \/ Fill(t)
  BY <1>3, Moved DEF IInv, Create, Fill, Holding
<1>4. CASE AbbrevFlag(t) \/ AbbrevState(t)
  BY <1>4, Moved DEF IInv, AbbrevFlag, AbbrevState, Holding
<1>5. CASE AbbrevCreate(t) \/ AbbrevFill(t)
  BY <1>5, Moved DEF IInv, AbbrevCreate, AbbrevFill, Holding
<1> QED
  BY <1>1, <1>2, <1>3, <1>4, <1>5 DEF Step

(* g_init_mutex names the one thread between its lock and its unlock.      *)
LEMMA MutexStep == IInv /\ [Next]_vars => MutexInv'
<1> SUFFICES ASSUME IInv, [Next]_vars PROVE MutexInv'
  OBVIOUS
<1>1. /\ \A t \in Threads : g_init_mutex = t <=> pc[t] \in Holding
      /\ g_init_mutex = Shutter <=> shut_pc \in {"free", "free_abbrev", "unlock"}
  BY DEF IInv, MutexInv
<1>2. NoThread \notin Threads /\ Shutter \notin Threads /\ NoThread # Shutter
  BY PretrainedAssumption
<1>3. CASE UNCHANGED vars
  BY <1>1, <1>3 DEF vars, thread, shutter, MutexInv
<1>4. CASE ShutBegin \/ ShutWait \/ ShutFreeMap \/ ShutFreeAbbrev \/ ShutClear
  <2>1. g_init_mutex' = g_init_mutex
    BY <1>4 DEF ShutBegin, ShutWait, ShutFreeMap, ShutFreeAbbrev, ShutClear
  <2>2. shut_pc' \in {"free", "free_abbrev", "unlock"} <=> shut_pc \in {"free", "free_abbrev", "unlock"}
    BY <1>4 DEF ShutBegin, ShutWait, ShutFreeMap, ShutFreeAbbrev, ShutClear
  <2> QED
    BY <1>1, <1>4, <2>1, <2>2, ShutEdge DEF MutexInv, ShutStep
<1>5. CASE ShutLock
  BY <1>1, <1>2, <1>5, ShutEdge DEF ShutLock, ShutStep, MutexInv
<1>6. CASE ShutUnlock
  BY <1>1, <1>2, <1>6, ShutEdge DEF ShutUnlock, ShutStep, MutexInv
<1>7. ASSUME NEW t \in Threads, Call(t) PROVE MutexInv'
  <2>1. /\ pc[t] \notin Holding /\ pc'[t] \notin Holding
        /\ g_init_mutex' = g_init_mutex /\ shut_pc' = shut_pc
        /\ \A u \in Threads : u # t => pc'[u] = pc[u]
    BY <1>7, CallEdge DEF Holding, shutter
  <2> QED
    BY <1>1, <2>1 DEF MutexInv
<1>8. ASSUME NEW t \in Threads, Step(t) PROVE MutexInv'
  <2>1. shut_pc' = shut_pc /\ \A u \in Threads : u # t => pc'[u] = pc[u]
    BY <1>8, StepEdge DEF shutter
  <2>2. CASE Lock(t)
    <3>1. g_init_mutex = NoThread /\ g_init_mutex' = t /\ pc'[t] \in Holding
      BY <2>2, Moved DEF Lock, IInv, Holding
    <3> QED
      BY <1>1, <1>2, <2>1, <3>1 DEF MutexInv
  <2>3. CASE Unlock(t)
    <3>1. pc[t] \in Holding /\ g_init_mutex' = NoThread /\ pc'[t] \notin Holding
      BY <2>3, Moved DEF Unlock, IInv, Holding
    <3> QED
      BY <1>1, <1>2, <2>1, <3>1 DEF MutexInv
  <2>4. CASE ~ Lock(t) /\ ~ Unlock(t)
    <3>1. g_init_mutex' = g_init_mutex /\ (pc'[t] \in Holding <=> pc[t] \in Holding)
      BY <1>8, <2>4, HoldingKeeps
    <3> QED
      BY <1>1, <2>1, <3>1 DEF MutexInv
  <2> QED
    BY <2>2, <2>3, <2>4
<1> QED
  BY <1>3, <1>4, <1>5, <1>6, <1>7, <1>8 DEF Next, ShutStep

-------------------------------------------------------------------------------
(* The mutex excludes; and a shutdown that frees finds no table in hand.   *)
LEMMA Exclusive ==
  ASSUME IInv
  PROVE  /\ \A t, u \in Threads : pc[t] \in Holding /\ pc[u] \in Holding => t = u
         /\ shut_pc \in {"free", "free_abbrev", "unlock"} =>
              \A t \in Threads : pc[t] \notin Holding /\ at[t] = NULL
<1>1. /\ \A t \in Threads : g_init_mutex = t <=> pc[t] \in Holding
      /\ g_init_mutex = Shutter <=> shut_pc \in {"free", "free_abbrev", "unlock"}
  BY DEF IInv, MutexInv
<1>2. ASSUME shut_pc \in {"free", "free_abbrev", "unlock"}, NEW t \in Threads
      PROVE  at[t] = NULL
  <2>1. at[t] # NULL => t \in Bracket
    BY DEF IInv, HandshakeInv, Bracket, Reading
  <2> QED
    BY <1>2, <2>1 DEF IInv, HandshakeInv
<1> QED
  BY <1>1, <1>2, PretrainedAssumption

(* What the steps that touch the tables do to them.                        *)
LEMMA HeapKeeps ==
  ASSUME IInv, NEW t \in Threads, Step(t),
         ~ Create(t), ~ Fill(t), ~ AbbrevCreate(t), ~ AbbrevFill(t)
  PROVE  /\ UNCHANGED <<tables, g_pretrained_map, g_abbrev_ht, oom, g_abbrev_ht_state>>
         /\ pc[t] \notin {"create", "fill", "abbrev_create", "abbrev_fill"}
         /\ pc'[t] \notin {"fill", "abbrev_fill"}
<1> USE Moved DEF IInv, memory, tables_and_oom, states
<1>1. CASE Enter(t) \/ Check(t) \/ CheckAbbrev(t) \/ Read(t) \/ Exit(t)
  <2>1. /\ pc[t] \in {"enter", "check", "check_abbrev", "read", "read_abbrev", "exit"}
        /\ UNCHANGED <<tables, g_pretrained_map, g_abbrev_ht, oom, g_abbrev_ht_state>>
    BY <1>1 DEF Enter, Check, CheckAbbrev, Read, Exit
  <2>2. Edge(kind[t], pc[t], pc'[t])
    BY StepEdge
  <2>3. pc'[t] \in {"check", "ensure", "check_abbrev", "read", "read_abbrev", "exit", "idle"}
    BY <2>1, <2>2 DEF Edge, Ensuring, Building, Abbreviating
  <2> QED
    BY <2>1, <2>3
<1>2. CASE EnsureFlag(t) \/ EnsureState(t) \/ Cas(t) \/ Spin(t) \/ Publish(t)
  <2>1. /\ pc[t] \in {"ensure", "ensure_state", "cas", "spin", "publish"}
        /\ UNCHANGED <<tables, g_pretrained_map, g_abbrev_ht, oom, g_abbrev_ht_state>>
    BY <1>2 DEF EnsureFlag, EnsureState, Cas, Spin, Publish
  <2>2. pc'[t] \in {AfterEnsure(t), "ensure_state", "cas", "lock", "spin"}
    BY <1>2 DEF EnsureFlag, EnsureState, Cas, Spin, Publish
  <2> QED
    BY <2>1, <2>2, AfterEnsurePlace
<1>3. CASE Lock(t) \/ Unlock(t)
  BY <1>3 DEF Lock, Unlock
<1>4. CASE AbbrevFlag(t) \/ AbbrevState(t)
  BY <1>4 DEF AbbrevFlag, AbbrevState
<1> QED
  BY <1>1, <1>2, <1>3, <1>4 DEF Step

(* What init_pretrained_map does to the tables: a new one, or none.        *)
LEMMA CreateIs ==
  ASSUME IInv, NEW t \in Threads, Create(t)
  PROVE  /\ pc[t] = "create"
         /\ UNCHANGED <<states, g_abbrev_ht, at>>
         /\ \/ /\ tables' = Append(tables, "filling") /\ g_pretrained_map' = Len(tables')
               /\ pc'[t] = "fill" /\ oom' = oom
            \/ /\ oom' = TRUE /\ pc'[t] = "unlock"
               /\ g_pretrained_map' = g_pretrained_map /\ tables' = tables
  BY Moved DEF Create, IInv

(* The map is filled by the thread that created it.                        *)
LEMMA FillIs ==
  ASSUME IInv, NEW t \in Threads, Fill(t)
  PROVE  /\ pc[t] = "fill" /\ pc'[t] = "unlock" /\ g_pretrained_map \in 1 .. Len(tables)
         /\ tables' = [tables EXCEPT ![g_pretrained_map] = "full"]
         /\ UNCHANGED <<states, g_pretrained_map, g_abbrev_ht, oom, at>>
<1>1. pc[t] = "fill" /\ g_pretrained_map \in 0 .. Len(tables) /\ g_pretrained_map # 0
  BY DEF Fill, IInv, TableInv, TypeOK, NULL
<1> QED
  BY <1>1, Moved DEF Fill, IInv

(* What ensure_abbrev_ht does to the tables under the mutex.               *)
LEMMA AbbrevCreateIs ==
  ASSUME IInv, NEW t \in Threads, AbbrevCreate(t)
  PROVE  /\ pc[t] = "abbrev_create"
         /\ UNCHANGED <<g_pretrained_state, g_pretrained_map, oom, at>>
         /\ \/ /\ pc'[t] = "abbrev_unlock"
               /\ UNCHANGED <<g_abbrev_ht, tables, g_abbrev_ht_state>>
            \/ /\ g_abbrev_ht_state = "UNINIT" /\ g_abbrev_ht_state' = "UNINIT"
               /\ g_abbrev_ht = NULL /\ pc'[t] = "abbrev_fill"
               /\ tables' = Append(tables, "filling") /\ g_abbrev_ht' = Len(tables')
            \/ /\ g_abbrev_ht_state = "UNINIT" /\ g_abbrev_ht_state' = "FAILED"
               /\ g_abbrev_ht = NULL /\ pc'[t] = "abbrev_unlock"
               /\ g_abbrev_ht' = NULL /\ tables' = tables
<1>1. pc[t] = "abbrev_create" /\ UNCHANGED <<g_pretrained_state, g_pretrained_map, oom, at>>
  BY Moved DEF AbbrevCreate, IInv
<1>2. AbbrevRecheck => g_abbrev_ht_state = "UNINIT"
  BY DEF AbbrevRecheck, IInv, TypeOK
<1>3. AbbrevRecheck => g_abbrev_ht = NULL
  <2>1. \A u \in Threads : pc[u] \in Holding => u = t
    BY <1>1, Exclusive DEF Holding
  <2>2. \A u \in Threads : pc[u] # "abbrev_fill"
    BY <1>1, <2>1 DEF Holding
  <2> QED
    BY <1>2, <2>2 DEF IInv, TableInv
<1> QED
  BY <1>1, <1>2, <1>3, Moved DEF AbbrevCreate, IInv

(* The abbreviation table is filled and then said to be READY.             *)
LEMMA AbbrevFillIs ==
  ASSUME IInv, NEW t \in Threads, AbbrevFill(t)
  PROVE  /\ pc[t] = "abbrev_fill" /\ pc'[t] = "abbrev_unlock"
         /\ g_abbrev_ht \in 1 .. Len(tables) /\ g_abbrev_ht_state' = "READY"
         /\ tables' = [tables EXCEPT ![g_abbrev_ht] = "full"]
         /\ UNCHANGED <<g_pretrained_state, g_pretrained_map, g_abbrev_ht, oom, at>>
<1>1. pc[t] = "abbrev_fill" /\ g_abbrev_ht \in 0 .. Len(tables) /\ g_abbrev_ht # 0
  BY DEF AbbrevFill, IInv, TableInv, TypeOK, NULL
<1> QED
  BY <1>1, Moved DEF AbbrevFill, IInv

(* The shutdown frees the map and resets pointer and state.                *)
LEMMA FreeMapIs ==
  ASSUME IInv, ShutFreeMap
  PROVE  /\ shut_pc = "free" /\ g_pretrained_map \in 0 .. Len(tables)
         /\ tables' = FreeTable(tables, g_pretrained_map)
         /\ g_pretrained_map' = NULL /\ g_pretrained_state' = "UNINIT"
         /\ UNCHANGED <<g_abbrev_ht, g_abbrev_ht_state, at, pc>>
  BY DEF ShutFreeMap, MapReset, IInv, TypeOK, thread

(* The shutdown frees the abbreviations and resets pointer and state.      *)
LEMMA FreeAbbrevIs ==
  ASSUME IInv, ShutFreeAbbrev
  PROVE  /\ shut_pc = "free_abbrev" /\ g_abbrev_ht \in 0 .. Len(tables)
         /\ tables' = FreeTable(tables, g_abbrev_ht)
         /\ g_abbrev_ht' = NULL /\ g_abbrev_ht_state' = "UNINIT"
         /\ UNCHANGED <<g_pretrained_map, g_pretrained_state, oom, at, pc>>
  BY DEF ShutFreeAbbrev, IInv, TypeOK, thread

(* The other steps of the shutdown leave the memory alone.                 *)
LEMMA ShutKeeps ==
  ASSUME ShutBegin \/ ShutWait \/ ShutLock \/ ShutUnlock \/ ShutClear
  PROVE  UNCHANGED <<tables, g_pretrained_map, g_abbrev_ht, oom, states, pc, kind, at>>
  BY DEF ShutBegin, ShutWait, ShutLock, ShutUnlock, ShutClear, thread, memory, tables_and_oom

(* The globals stay apart, alive, and point to what is being filled.       *)
LEMMA TableStep == IInv /\ [Next]_vars => TableInv'
<1> SUFFICES ASSUME IInv, [Next]_vars PROVE TableInv'
  OBVIOUS
<1>1. /\ tables \in Seq(Contents) /\ g_pretrained_map \in 0 .. Len(tables)
      /\ g_abbrev_ht \in 0 .. Len(tables) /\ NULL = 0
      /\ g_pretrained_map # NULL => /\ tables[g_pretrained_map] # "freed"
                                    /\ g_pretrained_map # g_abbrev_ht
      /\ g_abbrev_ht # NULL => tables[g_abbrev_ht] # "freed"
      /\ \A t \in Threads : pc[t] = "fill" => g_pretrained_map # NULL
      /\ \A t \in Threads : pc[t] = "abbrev_fill" =>
           g_abbrev_ht # NULL /\ g_abbrev_ht_state = "UNINIT"
      /\ g_abbrev_ht_state = "READY" => g_abbrev_ht # NULL /\ tables[g_abbrev_ht] = "full"
      /\ g_abbrev_ht_state # "READY" /\ g_abbrev_ht # NULL =>
           \E t \in Threads : pc[t] = "abbrev_fill"
  BY DEF IInv, TypeOK, TableInv, NULL
<1>2. CASE UNCHANGED vars \/ ShutBegin \/ ShutWait \/ ShutLock \/ ShutUnlock \/ ShutClear
  <2>1. UNCHANGED <<tables, g_pretrained_map, g_abbrev_ht, g_abbrev_ht_state, pc>>
    BY <1>2, ShutKeeps DEF vars, memory, tables_and_oom, states, thread
  <2> QED
    BY <1>1, <2>1 DEF TableInv, NULL
<1>3. CASE ShutFreeMap
  <2>1. \A t \in Threads : pc[t] # "fill"
    BY <1>3, FreeMapIs, Exclusive DEF Holding
  <2>2. \A j \in 1 .. Len(tables) :
          tables'[j] = IF j = g_pretrained_map THEN "freed" ELSE tables[j]
    BY <1>1, <1>3, FreeMapIs, TablesFree
  <2> QED
    BY <1>1, <1>3, <2>1, <2>2, FreeMapIs DEF TableInv, NULL
<1>4. CASE ShutFreeAbbrev
  <2>1. \A t \in Threads : pc[t] # "abbrev_fill"
    BY <1>4, FreeAbbrevIs, Exclusive DEF Holding
  <2>2. \A j \in 1 .. Len(tables) :
          tables'[j] = IF j = g_abbrev_ht THEN "freed" ELSE tables[j]
    BY <1>1, <1>4, FreeAbbrevIs, TablesFree
  <2> QED
    BY <1>1, <1>4, <2>1, <2>2, FreeAbbrevIs DEF TableInv, NULL
<1>5. ASSUME NEW t \in Threads, Call(t) PROVE TableInv'
  <2>1. /\ UNCHANGED <<tables, g_pretrained_map, g_abbrev_ht, g_abbrev_ht_state>>
        /\ \A u \in Threads : pc'[u] = "fill" <=> pc[u] = "fill"
        /\ \A u \in Threads : pc'[u] = "abbrev_fill" <=> pc[u] = "abbrev_fill"
    BY <1>5, CallEdge DEF tables_and_oom, states
  <2> QED
    BY <1>1, <2>1 DEF TableInv, NULL
<1>6. ASSUME NEW t \in Threads, Step(t) PROVE TableInv'
  <2>1. \A u \in Threads : u # t => pc'[u] = pc[u]
    BY <1>6, StepEdge
  <2>2. \A u \in Threads : pc[t] \in Holding /\ pc[u] \in Holding => u = t
    BY Exclusive
  <2>3. CASE Create(t)
    <3>1. CASE tables' = Append(tables, "filling") /\ pc'[t] = "fill"
      <4>1. /\ Len(tables') = Len(tables) + 1 /\ Len(tables) \in Nat
            /\ tables'[Len(tables')] = "filling"
            /\ \A i \in 1 .. Len(tables) : tables'[i] = tables[i]
        BY <1>1, <3>1, TablesGrow
      <4>2. /\ g_pretrained_map' = Len(tables') /\ pc[t] = "create"
            /\ UNCHANGED <<g_abbrev_ht, g_abbrev_ht_state>>
        BY <2>3, <3>1, CreateIs DEF states
      <4> QED
        BY <1>1, <2>1, <3>1, <4>1, <4>2 DEF TableInv, NULL
    <3>2. CASE tables' = tables /\ g_pretrained_map' = g_pretrained_map /\ pc'[t] = "unlock"
      <4>1. pc[t] = "create" /\ UNCHANGED <<g_abbrev_ht, g_abbrev_ht_state>>
        BY <2>3, CreateIs DEF states
      <4> QED
        BY <1>1, <2>1, <3>2, <4>1 DEF TableInv, NULL
    <3> QED
      BY <2>3, <3>1, <3>2, CreateIs
  <2>4. CASE Fill(t)
    <3>1. \A j \in 1 .. Len(tables) :
            tables'[j] = IF j = g_pretrained_map THEN "full" ELSE tables[j]
      BY <1>1, <2>4, FillIs, TablesFill
    <3>2. /\ pc[t] = "fill" /\ pc'[t] = "unlock"
          /\ UNCHANGED <<g_pretrained_map, g_abbrev_ht, g_abbrev_ht_state>>
      BY <2>4, FillIs DEF states
    <3> QED
      BY <1>1, <2>1, <3>1, <3>2 DEF TableInv, NULL
  <2>5. CASE AbbrevCreate(t)
    <3>1. pc[t] = "abbrev_create" /\ g_pretrained_map' = g_pretrained_map
      BY <2>5, AbbrevCreateIs
    <3>2. \A u \in Threads : pc[u] # "abbrev_fill" /\ (u # t => pc'[u] # "abbrev_fill")
      BY <2>1, <2>2, <3>1 DEF Holding
    <3>3. CASE pc'[t] = "abbrev_unlock" /\ UNCHANGED <<g_abbrev_ht, tables, g_abbrev_ht_state>>
      BY <1>1, <2>1, <3>1, <3>2, <3>3 DEF TableInv, NULL
    <3>4. CASE /\ g_abbrev_ht_state' = "UNINIT" /\ pc'[t] = "abbrev_fill"
               /\ tables' = Append(tables, "filling") /\ g_abbrev_ht' = Len(tables')
      <4>1. /\ Len(tables') = Len(tables) + 1 /\ Len(tables) \in Nat
            /\ tables'[Len(tables')] = "filling"
            /\ \A i \in 1 .. Len(tables) : tables'[i] = tables[i]
        BY <1>1, <3>4, TablesGrow
      <4> QED
        BY <1>1, <2>1, <3>1, <3>4, <4>1 DEF TableInv, NULL
    <3>5. CASE /\ g_abbrev_ht_state' = "FAILED" /\ pc'[t] = "abbrev_unlock"
               /\ g_abbrev_ht' = NULL /\ tables' = tables
      BY <1>1, <2>1, <3>1, <3>2, <3>5 DEF TableInv, NULL
    <3> QED
      BY <2>5, <3>3, <3>4, <3>5, AbbrevCreateIs
  <2>6. CASE AbbrevFill(t)
    <3>1. \A j \in 1 .. Len(tables) :
            tables'[j] = IF j = g_abbrev_ht THEN "full" ELSE tables[j]
      BY <1>1, <2>6, AbbrevFillIs, TablesFill
    <3>2. /\ pc[t] = "abbrev_fill" /\ pc'[t] = "abbrev_unlock" /\ g_abbrev_ht_state' = "READY"
          /\ g_abbrev_ht \in 1 .. Len(tables) /\ UNCHANGED <<g_pretrained_map, g_abbrev_ht>>
      BY <2>6, AbbrevFillIs
    <3>3. \A u \in Threads : pc'[u] # "abbrev_fill"
      BY <2>1, <2>2, <3>2 DEF Holding
    <3> QED
      BY <1>1, <2>1, <3>1, <3>2, <3>3 DEF TableInv, NULL
  <2>7. CASE ~ Create(t) /\ ~ Fill(t) /\ ~ AbbrevCreate(t) /\ ~ AbbrevFill(t)
    <3>1. /\ UNCHANGED <<tables, g_pretrained_map, g_abbrev_ht, g_abbrev_ht_state>>
          /\ \A u \in Threads : pc'[u] = "fill" <=> pc[u] = "fill"
          /\ \A u \in Threads : pc'[u] = "abbrev_fill" <=> pc[u] = "abbrev_fill"
      BY <1>6, <2>1, <2>7, HeapKeeps
    <3> QED
      BY <1>1, <3>1 DEF TableInv, NULL
  <2> QED
    BY <2>3, <2>4, <2>5, <2>6, <2>7
<1> QED
  BY <1>2, <1>3, <1>4, <1>5, <1>6 DEF Next, ShutStep

-------------------------------------------------------------------------------
(* No step of a call frees a table or takes one back that is full.         *)
LEMMA TablesKept ==
  ASSUME IInv, NEW t \in Threads, Step(t)
  PROVE  /\ Len(tables) \in Nat
         /\ \A i \in 1 .. Len(tables) : /\ tables[i] # "freed" => tables'[i] # "freed"
                                        /\ tables[i] = "full" => tables'[i] = "full"
<1>1. /\ tables \in Seq(Contents) /\ Len(tables) \in Nat
  BY DEF IInv, TypeOK
<1>2. CASE tables' = tables
  BY <1>1, <1>2
<1>3. CASE tables' = Append(tables, "filling")
  BY <1>1, <1>3, TablesGrow
<1>4. CASE Fill(t)
  BY <1>1, <1>4, FillIs, TablesFill
<1>5. CASE AbbrevFill(t)
  BY <1>1, <1>5, AbbrevFillIs, TablesFill
<1>6. CASE Create(t)
  BY <1>2, <1>3, <1>6, CreateIs
<1>7. CASE AbbrevCreate(t)
  BY <1>2, <1>3, <1>7, AbbrevCreateIs
<1>8. CASE ~ Create(t) /\ ~ Fill(t) /\ ~ AbbrevCreate(t) /\ ~ AbbrevFill(t)
  BY <1>2, <1>8, HeapKeeps
<1> QED
  BY <1>4, <1>5, <1>6, <1>7, <1>8

(* Nobody uses a freed table.                                              *)
LEMMA NoUseAfterFreeStep == IInv /\ [Next]_vars => NoUseAfterFree'
<1> SUFFICES ASSUME IInv, [Next]_vars, NEW u \in Threads, at'[u] # NULL
             PROVE  tables'[at'[u]] # "freed"
  BY DEF NoUseAfterFree, NULL
<1>1. /\ at[u] # NULL => tables[at[u]] # "freed"
      /\ at[u] # NULL => at[u] \in 1 .. Len(tables)
  BY DEF IInv, NoUseAfterFree, TypeOK, NULL
<1>2. CASE UNCHANGED vars \/ ShutBegin \/ ShutWait \/ ShutLock \/ ShutUnlock \/ ShutClear
  BY <1>1, <1>2, ShutKeeps DEF vars, memory, tables_and_oom, thread
<1>3. CASE ShutFreeMap \/ ShutFreeAbbrev
  <2>1. at'[u] = NULL
    BY <1>3, FreeMapIs, FreeAbbrevIs, Exclusive
  <2> QED
    BY <2>1
<1>4. ASSUME NEW t \in Threads, Call(t) PROVE tables'[at'[u]] # "freed"
  BY <1>1, <1>4, CallEdge DEF tables_and_oom
<1>5. ASSUME NEW t \in Threads, Step(t) PROVE tables'[at'[u]] # "freed"
  <2>1. CASE at'[u] = at[u]
    BY <1>1, <1>5, <2>1, TablesKept
  <2>2. CASE Read(t) /\ u = t
    <3>1. at'[u] \in {g_pretrained_map, g_abbrev_ht} /\ tables' = tables
      BY <2>2, ReadIs DEF memory, tables_and_oom
    <3> QED
      BY <3>1 DEF IInv, TableInv
  <2>3. CASE Exit(t) /\ u = t
    BY <2>3, ExitIs
  <2> QED
    BY <1>5, <2>1, <2>2, <2>3, AtKeeps, StepEdge
<1> QED
  BY <1>2, <1>3, <1>4, <1>5 DEF Next, ShutStep

(* A run without overlap so far had none before.                           *)
LEMMA OverlapStays == IInv /\ [Next]_vars /\ ~ overlapped' => ~ overlapped
<1> SUFFICES ASSUME IInv, [Next]_vars PROVE overlapped => overlapped'
  OBVIOUS
<1>1. CASE UNCHANGED vars
  BY <1>1 DEF vars, memory
<1>2. CASE ShutBegin
  BY <1>2 DEF ShutBegin
<1>3. CASE ShutStep
  BY <1>3 DEF ShutStep, ShutWait, ShutLock, ShutFreeMap, ShutFreeAbbrev, ShutUnlock,
     ShutClear, memory
<1>4. ASSUME NEW t \in Threads, Call(t) PROVE overlapped => overlapped'
  BY <1>4 DEF Call
<1>5. ASSUME NEW t \in Threads, Step(t) PROVE overlapped => overlapped'
  BY <1>5, StepEdge
<1> QED
  BY <1>1, <1>2, <1>3, <1>4, <1>5 DEF Next

(* Without overlap a lookup finds a finished table.                        *)
LEMMA ReadsPublishedStep == IInv /\ [Next]_vars => ReadsPublished'
<1> SUFFICES ASSUME IInv, [Next]_vars, ~ overlapped, NEW u \in Threads, at'[u] # NULL
             PROVE  tables'[at'[u]] = "full"
  BY OverlapStays DEF ReadsPublished, NULL
<1>1. /\ at[u] # NULL => tables[at[u]] = "full"
      /\ at[u] # NULL => at[u] \in 1 .. Len(tables)
  BY DEF IInv, ReadsPublished, TypeOK, NULL
<1>2. CASE UNCHANGED vars \/ ShutBegin \/ ShutWait \/ ShutLock \/ ShutUnlock \/ ShutClear
  BY <1>1, <1>2, ShutKeeps DEF vars, memory, tables_and_oom, thread
<1>3. CASE ShutFreeMap \/ ShutFreeAbbrev
  <2>1. at'[u] = NULL
    BY <1>3, FreeMapIs, FreeAbbrevIs, Exclusive
  <2> QED
    BY <2>1
<1>4. ASSUME NEW t \in Threads, Call(t) PROVE tables'[at'[u]] = "full"
  BY <1>1, <1>4, CallEdge DEF tables_and_oom
<1>5. ASSUME NEW t \in Threads, Step(t) PROVE tables'[at'[u]] = "full"
  <2>1. CASE at'[u] = at[u]
    BY <1>1, <1>5, <2>1, TablesKept
  <2>2. CASE Read(t) /\ u = t
    <3>1. /\ tables' = tables
          /\ \/ pc[t] = "read" /\ at'[u] = g_pretrained_map
             \/ pc[t] = "read_abbrev" /\ at'[u] = g_abbrev_ht
      BY <2>2, ReadIs DEF memory, tables_and_oom
    <3>2. /\ pc[t] = "read" => g_pretrained_state = "READY" /\ Built
          /\ pc[t] = "read_abbrev" => g_abbrev_ht_state = "READY"
      BY DEF IInv, QuietInv, SeenReady
    <3> QED
      BY <3>1, <3>2 DEF IInv, TableInv, Built
  <2>3. CASE Exit(t) /\ u = t
    BY <2>3, ExitIs
  <2> QED
    BY <1>5, <2>1, <2>2, <2>3, AtKeeps, StepEdge
<1> QED
  BY <1>2, <1>3, <1>4, <1>5 DEF Next, ShutStep

-------------------------------------------------------------------------------
(* The live tables.                                                        *)
Live == {i \in DOMAIN tables : tables[i] # "freed"}

(* OneTableEach in terms of the live tables, before and after a step.      *)
LEMMA LiveIs ==
  /\ IInv => Live = {i \in 1 .. Len(tables) : tables[i] # "freed"}
  /\ OneTableEach <=> (~ overlapped => Live = {g_pretrained_map, g_abbrev_ht} \ {NULL})
  /\ OneTableEach' <=> (~ overlapped' => Live' = {g_pretrained_map', g_abbrev_ht'} \ {NULL})
<1>1. IInv => DOMAIN tables = 1 .. Len(tables)
  BY DEF IInv, TypeOK
<1> QED
  BY <1>1 DEF Live, OneTableEach, NULL

(* A table created is one more live table.                                 *)
LEMMA LiveGrow ==
  ASSUME tables \in Seq(Contents), tables' = Append(tables, "filling")
  PROVE  Live' = Live \union {Len(tables')} /\ Len(tables') \in Nat \ {0}
<1>1. \A i \in DOMAIN tables' : i \in DOMAIN tables \/ i = Len(tables')
  BY TablesGrow
<1> QED
  BY <1>1, TablesGrow DEF Live

(* Filling a live table keeps the live tables.                             *)
LEMMA LiveFill ==
  ASSUME tables \in Seq(Contents), NEW p \in 1 .. Len(tables), tables[p] # "freed",
         tables' = [tables EXCEPT ![p] = "full"]
  PROVE  Live' = Live
  BY TablesFill DEF Live

(* Freeing takes at most the freed table from the live ones.               *)
LEMMA LiveFree ==
  ASSUME tables \in Seq(Contents), NEW p \in 0 .. Len(tables),
         tables' = FreeTable(tables, p)
  PROVE  Live' = Live \ {p}
  BY TablesFree DEF Live

(* Without overlap each table is built once.                               *)
LEMMA OneTableEachStep == IInv /\ [Next]_vars => OneTableEach'
<1> SUFFICES ASSUME IInv, [Next]_vars, ~ overlapped
             PROVE  Live' = {g_pretrained_map', g_abbrev_ht'} \ {NULL}
  BY OverlapStays, LiveIs
<1>1. /\ Live = {g_pretrained_map, g_abbrev_ht} \ {NULL} /\ NULL = 0
      /\ tables \in Seq(Contents)
      /\ g_pretrained_map = g_abbrev_ht => g_pretrained_map = NULL
  BY LiveIs DEF IInv, TypeOK, TableInv, NULL
<1>2. CASE UNCHANGED vars \/ ShutBegin \/ ShutWait \/ ShutLock \/ ShutUnlock \/ ShutClear
  BY <1>1, <1>2, ShutKeeps DEF vars, memory, tables_and_oom, Live
<1>3. CASE ShutFreeMap
  BY <1>1, <1>3, FreeMapIs, LiveFree
<1>4. CASE ShutFreeAbbrev
  BY <1>1, <1>4, FreeAbbrevIs, LiveFree
<1>5. ASSUME NEW t \in Threads, Call(t) PROVE Live' = {g_pretrained_map', g_abbrev_ht'} \ {NULL}
  BY <1>1, <1>5, CallEdge DEF tables_and_oom, Live
<1>6. ASSUME NEW t \in Threads, Step(t) PROVE Live' = {g_pretrained_map', g_abbrev_ht'} \ {NULL}
  <2>1. CASE Create(t)
    <3>1. g_pretrained_map = NULL /\ g_abbrev_ht' = g_abbrev_ht
      BY <2>1, CreateIs DEF IInv, QuietInv, BuildsAlone, Building
    <3>2. \/ tables' = Append(tables, "filling") /\ g_pretrained_map' = Len(tables')
          \/ tables' = tables /\ g_pretrained_map' = g_pretrained_map
      BY <2>1, CreateIs
    <3>3. CASE tables' = tables /\ g_pretrained_map' = g_pretrained_map
      BY <1>1, <3>1, <3>3 DEF Live
    <3>4. CASE tables' = Append(tables, "filling") /\ g_pretrained_map' = Len(tables')
      BY <1>1, <3>1, <3>4, LiveGrow
    <3> QED
      BY <3>2, <3>3, <3>4
  <2>2. CASE Fill(t)
    <3>1. tables[g_pretrained_map] # "freed"
      BY <1>1, <2>2, FillIs DEF IInv, TableInv
    <3> QED
      BY <1>1, <2>2, <3>1, FillIs, LiveFill
  <2>3. CASE AbbrevCreate(t)
    <3>1. g_pretrained_map' = g_pretrained_map
      BY <2>3, AbbrevCreateIs
    <3>2. \/ tables' = tables /\ g_abbrev_ht' = g_abbrev_ht
          \/ /\ g_abbrev_ht = NULL
             /\ tables' = Append(tables, "filling") /\ g_abbrev_ht' = Len(tables')
      BY <2>3, AbbrevCreateIs
    <3>3. CASE tables' = tables /\ g_abbrev_ht' = g_abbrev_ht
      BY <1>1, <3>1, <3>3 DEF Live
    <3>4. CASE /\ g_abbrev_ht = NULL
               /\ tables' = Append(tables, "filling") /\ g_abbrev_ht' = Len(tables')
      BY <1>1, <3>1, <3>4, LiveGrow
    <3> QED
      BY <3>2, <3>3, <3>4
  <2>4. CASE AbbrevFill(t)
    <3>1. tables[g_abbrev_ht] # "freed"
      BY <1>1, <2>4, AbbrevFillIs DEF IInv, TableInv
    <3> QED
      BY <1>1, <2>4, <3>1, AbbrevFillIs, LiveFill
  <2>5. CASE ~ Create(t) /\ ~ Fill(t) /\ ~ AbbrevCreate(t) /\ ~ AbbrevFill(t)
    BY <1>1, <1>6, <2>5, HeapKeeps DEF Live
  <2> QED
    BY <2>1, <2>2, <2>3, <2>4, <2>5
<1> QED
  BY <1>2, <1>3, <1>4, <1>5, <1>6 DEF Next, ShutStep

-------------------------------------------------------------------------------
(* READY is raised by Publish, INIT by Cas, and by nobody else.            *)
LEMMA StateKeeps ==
  ASSUME IInv, NEW t \in Threads, Step(t), ~ Cas(t), ~ Publish(t)
  PROVE  g_pretrained_state' = g_pretrained_state
<1>1. CASE Enter(t) \/ Check(t) \/ CheckAbbrev(t) \/ Read(t) \/ Exit(t)
  BY <1>1 DEF Enter, Check, CheckAbbrev, Read, Exit, states
<1>2. CASE EnsureFlag(t) \/ EnsureState(t) \/ Spin(t) \/ Lock(t) \/ Unlock(t)
  BY <1>2 DEF EnsureFlag, EnsureState, Spin, Lock, Unlock, states
<1>3. CASE Create(t) \/ Fill(t) \/ AbbrevCreate(t) \/ AbbrevFill(t)
  BY <1>3, CreateIs, FillIs, AbbrevCreateIs, AbbrevFillIs DEF states
<1>4. CASE AbbrevFlag(t) \/ AbbrevState(t)
  BY <1>4 DEF AbbrevFlag, AbbrevState, states
<1> QED
  BY <1>1, <1>2, <1>3, <1>4 DEF Step

(* What QuietInv says of a state without overlap.                          *)
Quietly ==
  /\ g_pretrained_state = "UNINIT" => g_pretrained_map = NULL
  /\ g_pretrained_state = "READY" => Built
  /\ BuildsAlone /\ SeenReady

(* A step of a call that neither builds a table nor raises a state.        *)
LEMMA QuietElsewhere ==
  ASSUME IInv, ~ overlapped, NEW t \in Threads,
         Enter(t) \/ Check(t) \/ CheckAbbrev(t) \/ Read(t) \/ Exit(t) \/ EnsureFlag(t)
         \/ EnsureState(t) \/ Spin(t) \/ AbbrevFlag(t) \/ AbbrevState(t)
  PROVE  /\ UNCHANGED <<tables, g_pretrained_map, g_abbrev_ht, oom, states>>
         /\ pc[t] \notin Building /\ pc'[t] \notin Building
         /\ pc'[t] = "read" \/ (kind[t] = "build" /\ pc'[t] \in {"enter", "check"}) =>
              g_pretrained_state = "READY"
         /\ pc'[t] = "read_abbrev" => g_abbrev_ht_state = "READY"
<1>1. UNCHANGED <<tables, g_pretrained_map, g_abbrev_ht, oom, states>>
  BY DEF Enter, Check, CheckAbbrev, Read, Exit, EnsureFlag, EnsureState, Spin, AbbrevFlag,
     AbbrevState, memory, tables_and_oom
<1>2. KindOK(t) /\ SeenReady /\ (g_shutting_down => pc[t] = "idle")
  BY DEF IInv, KindInv, QuietInv, HandshakeInv
<1> USE Moved, AfterEnsurePlace DEF IInv, Building
<1>3. CASE Enter(t) \/ Check(t)
  BY <1>1, <1>2, <1>3 DEF Enter, Check, KindOK, SeenReady
<1>4. CASE CheckAbbrev(t)
  BY <1>1, <1>4 DEF CheckAbbrev
<1>5. CASE Read(t) \/ Exit(t)
  BY <1>1, <1>5, ReadIs, ExitIs
<1>6. CASE EnsureFlag(t)
  BY <1>1, <1>2, <1>6 DEF EnsureFlag
<1>7. CASE EnsureState(t) \/ Spin(t)
  <2>1. /\ pc[t] \in {"ensure_state", "spin"}
        /\ \/ pc'[t] = "cas"
           \/ pc'[t] = AfterEnsure(t) /\ g_pretrained_state = "READY"
    BY <1>7 DEF EnsureState, Spin
  <2> QED
    BY <1>1, <2>1
<1>8. CASE AbbrevFlag(t) \/ AbbrevState(t)
  <2>1. pc[t] \in {"abbrev", "abbrev_state"} /\ pc'[t] \in {"enter", "abbrev_state", "abbrev_lock"}
    BY <1>8 DEF AbbrevFlag, AbbrevState
  <2>2. kind[t] = "tokenize"
    BY <1>2, <2>1 DEF KindOK, Abbreviating
  <2> QED
    BY <1>1, <2>1, <2>2
<1> QED
  BY <1>3, <1>4, <1>5, <1>6, <1>7, <1>8

(* A call without a shutdown keeps the map's state true.                   *)
LEMMA QuietlyStep ==
  ASSUME IInv, ~ overlapped, NEW t \in Threads, Step(t)
  PROVE  Quietly'
<1>1. /\ Quietly /\ KindOK(t)
      /\ tables \in Seq(Contents) /\ g_pretrained_map \in 0 .. Len(tables)
      /\ NULL = 0 /\ (g_pretrained_map # NULL => g_pretrained_map # g_abbrev_ht)
  BY DEF IInv, QuietInv, Quietly, KindInv, TypeOK, TableInv, NULL
<1>2. kind' = kind /\ \A u \in Threads : u # t => pc'[u] = pc[u]
  BY StepEdge
<1>3. CASE Enter(t) \/ Check(t) \/ CheckAbbrev(t) \/ Read(t) \/ Exit(t) \/ EnsureFlag(t)
           \/ EnsureState(t) \/ Spin(t) \/ AbbrevFlag(t) \/ AbbrevState(t)
  <2>1. /\ UNCHANGED <<g_pretrained_map, g_pretrained_state, g_abbrev_ht_state>>
        /\ Built' = Built
    BY <1>3, QuietElsewhere DEF states, Built, NULL
  <2> QED
    BY <1>1, <1>2, <1>3, <2>1, QuietElsewhere DEF Quietly, BuildsAlone, SeenReady, Building, NULL
<1>4. CASE Cas(t)
  <2>1. /\ UNCHANGED <<g_pretrained_map, g_abbrev_ht_state>> /\ Built' = Built /\ pc[t] = "cas"
        /\ \/ /\ g_pretrained_state = "UNINIT" /\ g_pretrained_state' = "INIT" /\ pc'[t] = "lock"
           \/ g_pretrained_state' = g_pretrained_state /\ pc'[t] = "spin"
    BY <1>4, Moved DEF Cas, IInv, memory, tables_and_oom, Built, NULL
  <2>2. CASE g_pretrained_state' = g_pretrained_state /\ pc'[t] = "spin"
    BY <1>1, <1>2, <2>1, <2>2 DEF Quietly, BuildsAlone, SeenReady, Building, NULL
  <2>3. CASE g_pretrained_state = "UNINIT" /\ g_pretrained_state' = "INIT" /\ pc'[t] = "lock"
    <3>1. \A u \in Threads : pc[u] \notin Building
      BY <1>1, <2>3 DEF Quietly, BuildsAlone
    <3> QED
      BY <1>1, <1>2, <2>1, <2>3, <3>1 DEF Quietly, BuildsAlone, SeenReady, Building, NULL
  <2> QED
    BY <2>1, <2>2, <2>3
<1>5. CASE Lock(t) \/ Unlock(t)
  <2>1. /\ UNCHANGED <<g_pretrained_map, g_pretrained_state, g_abbrev_ht_state>>
        /\ Built' = Built
        /\ \/ pc[t] = "lock" /\ pc'[t] = "create"
           \/ pc[t] = "unlock" /\ pc'[t] = "publish"
           \/ pc[t] = "abbrev_lock" /\ pc'[t] = "abbrev_create"
           \/ pc[t] = "abbrev_unlock" /\ pc'[t] = "enter" /\ kind[t] = "tokenize"
    BY <1>1, <1>5, Moved DEF Lock, Unlock, IInv, memory, tables_and_oom, states, Built, NULL,
       KindOK, Abbreviating
  <2> QED
    BY <1>1, <1>2, <2>1 DEF Quietly, BuildsAlone, SeenReady, Building, NULL
<1>6. CASE Create(t)
  <2>1. /\ g_pretrained_state = "INIT" /\ g_pretrained_state' = "INIT"
        /\ g_pretrained_map = NULL /\ pc[t] = "create"
        /\ g_abbrev_ht_state' = g_abbrev_ht_state
    BY <1>1, <1>6, CreateIs DEF Quietly, BuildsAlone, Building, states
  <2>2. \/ pc'[t] = "fill"
        \/ pc'[t] = "unlock" /\ Built'
    BY <1>6, <2>1, CreateIs DEF Built, NULL
  <2> QED
    BY <1>1, <1>2, <2>1, <2>2 DEF Quietly, BuildsAlone, SeenReady, Building, NULL
<1>7. CASE Fill(t)
  <2>1. tables'[g_pretrained_map] = "full"
    BY <1>1, <1>7, FillIs, TablesFill
  <2>2. /\ UNCHANGED <<g_pretrained_map, g_pretrained_state, g_abbrev_ht_state>>
        /\ g_pretrained_map # NULL /\ pc[t] = "fill" /\ pc'[t] = "unlock"
    BY <1>1, <1>7, FillIs DEF states
  <2>3. Built'
    BY <1>1, <2>1, <2>2 DEF Built
  <2> QED
    BY <1>1, <1>2, <2>2, <2>3 DEF Quietly, BuildsAlone, SeenReady, Building, NULL
<1>8. CASE Publish(t)
  <2>1. /\ UNCHANGED <<g_pretrained_map, g_abbrev_ht_state>> /\ Built' = Built
        /\ pc[t] = "publish" /\ g_pretrained_state' = "READY"
        /\ pc'[t] \in {"read", "enter", "idle"}
    BY <1>8, Moved, AfterEnsurePlace DEF Publish, IInv, memory, tables_and_oom, Built, NULL
  <2>2. Built /\ \A u \in Threads : u # t => pc[u] \notin Building
    BY <1>1, <2>1 DEF Quietly, BuildsAlone, Building
  <2> QED
    BY <1>1, <1>2, <2>1, <2>2 DEF Quietly, BuildsAlone, SeenReady, Building, NULL
<1>9. CASE AbbrevCreate(t)
  <2>1. /\ UNCHANGED <<g_pretrained_map, g_pretrained_state, oom>>
        /\ g_abbrev_ht_state = "READY" => g_abbrev_ht_state' = "READY"
        /\ pc[t] = "abbrev_create" /\ pc'[t] \in {"abbrev_unlock", "abbrev_fill"}
        /\ tables' = tables \/ tables' = Append(tables, "filling")
    BY <1>9, AbbrevCreateIs
  <2>2. g_pretrained_map # NULL => tables'[g_pretrained_map] = tables[g_pretrained_map]
    BY <1>1, <2>1, TablesGrow
  <2>3. Built' = Built
    BY <2>1, <2>2 DEF Built, NULL
  <2> QED
    BY <1>1, <1>2, <2>1, <2>3 DEF Quietly, BuildsAlone, SeenReady, Building, NULL
<1>10. CASE AbbrevFill(t)
  <2>1. /\ UNCHANGED <<g_pretrained_map, g_pretrained_state, oom>>
        /\ g_abbrev_ht_state' = "READY"
        /\ pc[t] = "abbrev_fill" /\ pc'[t] = "abbrev_unlock"
    BY <1>10, AbbrevFillIs
  <2>2. g_pretrained_map # NULL => tables'[g_pretrained_map] = tables[g_pretrained_map]
    BY <1>1, <1>10, AbbrevFillIs, TablesFill
  <2>3. Built' = Built
    BY <2>1, <2>2 DEF Built, NULL
  <2> QED
    BY <1>1, <1>2, <2>1, <2>3 DEF Quietly, BuildsAlone, SeenReady, Building, NULL
<1> QED
  BY <1>3, <1>4, <1>5, <1>6, <1>7, <1>8, <1>9, <1>10 DEF Step

(* Without overlap the map is built before anyone sees READY.              *)
LEMMA QuietStep == IInv /\ [Next]_vars => QuietInv'
<1> SUFFICES ASSUME IInv, [Next]_vars, ~ overlapped, ~ overlapped'
             PROVE  (shut_pc # "idle" => \A u \in Threads : pc[u] = "idle")' /\ Quietly'
  BY OverlapStays DEF QuietInv, Quietly
<1>1. /\ shut_pc # "idle" => \A u \in Threads : pc[u] = "idle"
      /\ Quietly
  BY DEF IInv, QuietInv, Quietly
<1>2. CASE UNCHANGED vars \/ ShutWait \/ ShutLock \/ ShutUnlock \/ ShutClear
  <2>1. UNCHANGED <<tables, g_pretrained_map, oom, states, pc, kind>>
    BY <1>2, ShutKeeps DEF vars, memory, tables_and_oom, thread
  <2>2. Quietly'
    BY <1>1, <2>1 DEF Quietly, BuildsAlone, SeenReady, Built, NULL, states
  <2>3. shut_pc' # "idle" => shut_pc # "idle"
    BY <1>2 DEF vars, shutter, ShutWait, ShutLock, ShutUnlock, ShutClear
  <2> QED
    BY <1>1, <2>1, <2>2, <2>3
<1>3. CASE ShutBegin
  <2>1. UNCHANGED <<tables, g_pretrained_map, oom, states, pc, kind>>
    BY <1>3, ShutKeeps
  <2>2. Quietly'
    BY <1>1, <2>1 DEF Quietly, BuildsAlone, SeenReady, Built, NULL, states
  <2>3. \A u \in Threads : pc[u] = "idle"
    BY <1>3 DEF ShutBegin
  <2> QED
    BY <2>1, <2>2, <2>3
<1>4. CASE ShutFreeMap \/ ShutFreeAbbrev
  <2>1. pc' = pc /\ \A u \in Threads : pc[u] = "idle"
    BY <1>1, <1>4, FreeMapIs, FreeAbbrevIs
  <2>2. BuildsAlone' /\ SeenReady'
    BY <2>1 DEF BuildsAlone, SeenReady, Building
  <2>3. CASE ShutFreeMap
    BY <2>1, <2>2, <2>3, FreeMapIs DEF Quietly, NULL
  <2>4. CASE ShutFreeAbbrev
    <3>1. /\ tables \in Seq(Contents) /\ g_pretrained_map \in 0 .. Len(tables) /\ NULL = 0
          /\ g_pretrained_map # NULL => g_pretrained_map # g_abbrev_ht
      BY DEF IInv, TypeOK, TableInv, NULL
    <3>2. g_pretrained_map # NULL => tables'[g_pretrained_map] = tables[g_pretrained_map]
      BY <2>4, <3>1, FreeAbbrevIs, TablesFree
    <3>3. Built' = Built
      BY <2>4, <3>2, FreeAbbrevIs DEF Built, NULL
    <3> QED
      BY <1>1, <2>1, <2>2, <2>4, <3>3, FreeAbbrevIs DEF Quietly, NULL
  <2> QED
    BY <1>4, <2>3, <2>4
<1>5. ASSUME NEW t \in Threads, Call(t)
      PROVE  (shut_pc # "idle" => \A u \in Threads : pc[u] = "idle")' /\ Quietly'
  <2>1. UNCHANGED <<tables, g_pretrained_map, oom, states, shut_pc>> /\ shut_pc = "idle"
    BY <1>5, CallEdge DEF Call, tables_and_oom, shutter
  <2>2. Built' = Built
    BY <2>1 DEF Built, NULL
  <2>3. Quietly'
    BY <1>1, <1>5, <2>1, <2>2, CallEdge DEF Quietly, BuildsAlone, SeenReady, Building, NULL, states
  <2> QED
    BY <2>1, <2>3
<1>6. ASSUME NEW t \in Threads, Step(t)
      PROVE  (shut_pc # "idle" => \A u \in Threads : pc[u] = "idle")' /\ Quietly'
  <2>1. pc[t] # "idle" /\ shut_pc' = shut_pc
    BY <1>6, StepEdge DEF Edge, Ensuring, Building, Abbreviating, shutter
  <2> QED
    BY <1>1, <1>6, <2>1, QuietlyStep
<1> QED
  BY <1>2, <1>3, <1>4, <1>5, <1>6 DEF Next, ShutStep

-------------------------------------------------------------------------------
(* The invariant holds in every reachable state.                           *)
LEMMA IInvariance == Spec => []IInv
<1>1. IInv /\ [Next]_vars => IInv'
  BY TypeStep, KindStep, CountStep, HandshakeStep, MutexStep, TableStep, QuietStep,
     NoUseAfterFreeStep, ReadsPublishedStep, OneTableEachStep DEF IInv
<1> QED
  BY InitIInv, <1>1, PTL DEF Spec

(* No thread looks tokens up in a freed table, even when shutdowns and     *)
(* calls overlap (the bracket and the mutex of fce_sem_shutdown).          *)
THEOREM TablesOutliveReaders == Spec => []NoUseAfterFree
<1>1. IInv => NoUseAfterFree
  BY DEF IInv
<1> QED
  BY IInvariance, <1>1, PTL

(* As long as no call overlapped a shutdown, lookups see finished tables:  *)
(* the release and acquire of g_pretrained_state.                          *)
THEOREM ReadersSeeFinished == Spec => []ReadsPublished
<1>1. IInv => ReadsPublished
  BY DEF IInv
<1> QED
  BY IInvariance, <1>1, PTL

(* A lookup finds the map unless creating it failed, also after shutdowns. *)
THEOREM LookupFindsMap == Spec => []MapAvailable
<1>1. IInv => MapAvailable
  BY DEF IInv, QuietInv, SeenReady, Built, MapAvailable
<1> QED
  BY IInvariance, <1>1, PTL

(* The race to initialize builds each table once, and nothing leaks.       *)
THEOREM TablesBuiltOnce == Spec => []OneTableEach
<1>1. IInv => OneTableEach
  BY DEF IInv
<1> QED
  BY IInvariance, <1>1, PTL
===============================================================================
