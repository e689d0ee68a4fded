----------------------------- MODULE PretrainedMap -----------------------------
(***************************************************************************)
(* The process-wide lookup tables of src/semantic/semantic.c: the          *)
(* pretrained token map and the abbreviation table.  Both are built by the *)
(* first call that needs them, while other threads look tokens up, and     *)
(* freed by fce_sem_shutdown, after which the next call builds them again. *)
(* Threads run four kinds of call: "lookup" (fce_sem_random_index),        *)
(* "ensure" (fce_sem_ensure_ready), "build" (fce_sem_corpus_finalize's     *)
(* ensure and one build_src_entry) and "tokenize" (fce_sem_tokenize).      *)
(*                                                                         *)
(* Every atomic access and every lock is a step of its own; memory is      *)
(* sequentially consistent (the handshake uses seq_cst, the rest is        *)
(* ordered by acquire, release or the mutex).  The mutex itself is created *)
(* by fce_once and never destroyed.                                        *)
(***************************************************************************)
EXTENDS Integers, Sequences, FiniteSets

CONSTANTS
  Threads,
  Kinds,              \* the kinds of call the threads make
  NoThread,           \* g_init_mutex is free
  Shutter,            \* the thread that calls fce_sem_shutdown
  MaxCalls,           \* bound on the calls of all threads
  MaxShutdowns        \* bound on the calls of fce_sem_shutdown

ASSUME PretrainedAssumption ==
  /\ Kinds \subseteq {"lookup", "ensure", "build", "tokenize"}
  /\ NoThread \notin Threads /\ Shutter \notin Threads /\ NoThread # Shutter
  /\ MaxCalls \in Nat /\ MaxShutdowns \in Nat

NULL == 0

VARIABLES
  g_shutting_down, g_reader_count,
  g_pretrained_state,   \* UNINIT, INIT or READY
  g_abbrev_ht_state,    \* UNINIT, READY or FAILED
  g_init_mutex,         \* the thread that holds it, or NoThread
  g_pretrained_map, g_abbrev_ht,   \* NULL or an index of tables
  tables,      \* the tables ever allocated: "filling", "full" or "freed"
  pc, kind,    \* per thread: place and kind of the call
  at,          \* per thread: the table it is looking tokens up in, or NULL
  calls, shut_pc, shutdowns,
  oom,         \* history: creating the map failed since the last shutdown
  overlapped   \* history: a call and a shutdown were concurrent, which the
               \* contract in semantic.h excludes

flags == <<g_shutting_down, g_reader_count>>
states == <<g_pretrained_state, g_abbrev_ht_state>>
tables_and_oom == <<g_pretrained_map, g_abbrev_ht, tables, oom>>
memory == <<tables_and_oom, overlapped>>
thread == <<pc, kind, at, calls>>
shutter == <<shut_pc, shutdowns>>
vars == <<flags, states, g_init_mutex, memory, thread, shutter>>

Init ==
  /\ g_shutting_down = FALSE /\ g_reader_count = 0
  /\ g_pretrained_state = "UNINIT" /\ g_abbrev_ht_state = "UNINIT"
  /\ g_init_mutex = NoThread
  /\ g_pretrained_map = NULL /\ g_abbrev_ht = NULL /\ tables = <<>>
  /\ pc = [t \in Threads |-> "idle"]
  /\ kind = [t \in Threads |-> "none"]
  /\ at = [t \in Threads |-> NULL]
  /\ calls = 0
  /\ shut_pc = "idle" /\ shutdowns = 0
  /\ oom = FALSE /\ overlapped = FALSE

-------------------------------------------------------------------------------
Goto(t, l) == pc' = [pc EXCEPT ![t] = l] /\ UNCHANGED <<kind, at, calls>>

(* Where a call goes when ensure_pretrained_map returns. *)
AfterEnsure(t) ==
  CASE kind[t] = "lookup" -> "read"
    [] kind[t] = "build" -> "enter"
    [] OTHER -> "idle"

(* A call begins. *)
Call(t) ==
  /\ pc[t] = "idle" /\ calls < MaxCalls
  /\ \E k \in Kinds :
       /\ kind' = [kind EXCEPT ![t] = k]
       /\ pc' = [pc EXCEPT ![t] = CASE k = "lookup" -> "enter"
                                    [] k = "tokenize" -> "abbrev"
                                    [] OTHER -> "ensure"]
  /\ calls' = calls + 1
  /\ overlapped' = (overlapped \/ shut_pc # "idle")
  /\ UNCHANGED <<flags, states, g_init_mutex, tables_and_oom, at, shutter>>

(* The reader bracket opens: the count goes up before the flag is read. *)
Enter(t) ==
  /\ pc[t] = "enter"
  /\ g_reader_count' = g_reader_count + 1
  /\ Goto(t, "check")
  /\ UNCHANGED <<g_shutting_down, states, g_init_mutex, memory, shutter>>

Check_Skipped(t) ==   \* mutant: the bracket opens without looking at the flag
  /\ pc[t] = "check"
  /\ Goto(t, CASE kind[t] = "lookup" -> "ensure"
               [] kind[t] = "tokenize" -> "check_abbrev"
               [] OTHER -> "read")
  /\ UNCHANGED <<flags, states, g_init_mutex, memory, shutter>>

Check_LeaksCount(t) ==   \* mutant: backing off forgets to leave the bracket
  /\ pc[t] = "check"
  /\ Goto(t, CASE g_shutting_down -> "idle"
               [] ~ g_shutting_down /\ kind[t] = "lookup" -> "ensure"
               [] ~ g_shutting_down /\ kind[t] = "tokenize" -> "check_abbrev"
               [] ~ g_shutting_down /\ kind[t] = "build" -> "read")
  /\ UNCHANGED <<flags, states, g_init_mutex, memory, shutter>>

(* ... and the caller backs off when a shutdown has begun. *)
Check(t) ==
  /\ pc[t] = "check"
  /\ Goto(t, CASE g_shutting_down -> "exit"
               [] ~ g_shutting_down /\ kind[t] = "lookup" -> "ensure"
               [] ~ g_shutting_down /\ kind[t] = "tokenize" -> "check_abbrev"
               [] ~ g_shutting_down /\ kind[t] = "build" -> "read")
  /\ UNCHANGED <<flags, states, g_init_mutex, memory, shutter>>

(* The abbreviation table is used only when READY. *)
CheckAbbrev(t) ==
  /\ pc[t] = "check_abbrev"
  /\ Goto(t, IF g_abbrev_ht_state = "READY" THEN "read_abbrev" ELSE "exit")
  /\ UNCHANGED <<flags, states, g_init_mutex, memory, shutter>>

(* The lookups; a NULL table is skipped. *)
Read(t) ==
  /\ \/ pc[t] = "read" /\ at' = [at EXCEPT ![t] = g_pretrained_map]
     \/ pc[t] = "read_abbrev" /\ at' = [at EXCEPT ![t] = g_abbrev_ht]
  /\ pc' = [pc EXCEPT ![t] = "exit"]
  /\ UNCHANGED <<flags, states, g_init_mutex, memory, kind, calls, shutter>>

(* The bracket closes and the call returns. *)
Exit(t) ==
  /\ pc[t] = "exit"
  /\ g_reader_count' = g_reader_count - 1
  /\ at' = [at EXCEPT ![t] = NULL]
  /\ pc' = [pc EXCEPT ![t] = "idle"]
  /\ UNCHANGED <<g_shutting_down, states, g_init_mutex, memory, kind, calls, shutter>>

-------------------------------------------------------------------------------
(* ensure_pretrained_map: the flag first, then the state. *)
EnsureFlag(t) ==
  /\ pc[t] = "ensure"
  /\ Goto(t, IF g_shutting_down THEN AfterEnsure(t) ELSE "ensure_state")
  /\ UNCHANGED <<flags, states, g_init_mutex, memory, shutter>>

EnsureState(t) ==
  /\ pc[t] = "ensure_state"
  /\ Goto(t, IF g_pretrained_state = "READY" THEN AfterEnsure(t) ELSE "cas")
  /\ UNCHANGED <<flags, states, g_init_mutex, memory, shutter>>

Cas_Plain(t) ==   \* mutant: a load and a store where the compare-and-swap is
  /\ pc[t] = "cas"
  /\ Goto(t, IF g_pretrained_state # "READY" THEN "lock" ELSE "spin")
  /\ g_pretrained_state' = IF g_pretrained_state # "READY" THEN "INIT" ELSE "READY"
  /\ UNCHANGED <<flags, g_abbrev_ht_state, g_init_mutex, memory, shutter>>

(* One thread wins UNINIT -> INIT, the others spin. *)
Cas(t) ==
  /\ pc[t] = "cas"
  /\ IF g_pretrained_state = "UNINIT"
     THEN g_pretrained_state' = "INIT" /\ Goto(t, "lock")
     ELSE UNCHANGED g_pretrained_state /\ Goto(t, "spin")
  /\ UNCHANGED <<flags, g_abbrev_ht_state, g_init_mutex, memory, shutter>>

Spin_OnlyReady(t) ==   \* mutant: a loser never retries
  /\ pc[t] = "spin" /\ g_pretrained_state = "READY" /\ Goto(t, AfterEnsure(t))
  /\ UNCHANGED <<flags, states, g_init_mutex, memory, shutter>>

(* A loser waits for READY and tries again after a shutdown. *)
Spin(t) ==
  /\ pc[t] = "spin"
  /\ \/ g_pretrained_state = "READY" /\ Goto(t, AfterEnsure(t))
     \/ g_pretrained_state = "UNINIT" /\ Goto(t, "cas")
  /\ UNCHANGED <<flags, states, g_init_mutex, memory, shutter>>

Lock(t) ==
  /\ pc[t] \in {"lock", "abbrev_lock"} /\ g_init_mutex = NoThread
  /\ g_init_mutex' = t
  /\ Goto(t, IF pc[t] = "lock" THEN "create" ELSE "abbrev_create")
  /\ UNCHANGED <<flags, states, memory, shutter>>

(* init_pretrained_map: the global points at the table while it is filled. *)
Create(t) ==
  /\ pc[t] = "create"
  /\ \/ /\ tables' = Append(tables, "filling")
        /\ g_pretrained_map' = Len(tables')
        /\ Goto(t, "fill") /\ UNCHANGED oom
     \/ oom' = TRUE /\ Goto(t, "unlock") /\ UNCHANGED <<g_pretrained_map, tables>>
  /\ UNCHANGED <<flags, states, g_init_mutex, g_abbrev_ht, overlapped, shutter>>

Fill(t) ==
  /\ pc[t] = "fill"
  /\ tables' = [tables EXCEPT ![g_pretrained_map] = "full"]
  /\ Goto(t, "unlock")
  /\ UNCHANGED <<flags, states, g_init_mutex, g_pretrained_map, g_abbrev_ht, oom, overlapped,
                 shutter>>

Unlock(t) ==
  /\ pc[t] \in {"unlock", "abbrev_unlock"}
  /\ g_init_mutex' = NoThread
  /\ Goto(t, IF pc[t] = "unlock" THEN "publish" ELSE "enter")
  /\ UNCHANGED <<flags, states, memory, shutter>>

(* READY is stored after the mutex is released. *)
Publish(t) ==
  /\ pc[t] = "publish"
  /\ g_pretrained_state' = "READY"
  /\ Goto(t, AfterEnsure(t))
  /\ UNCHANGED <<flags, g_abbrev_ht_state, g_init_mutex, memory, shutter>>

-------------------------------------------------------------------------------
(* ensure_abbrev_ht: the flag, the state, and again the state under the    *)
(* mutex; after a failed allocation it is not tried again.                 *)
AbbrevFlag(t) ==
  /\ pc[t] = "abbrev"
  /\ Goto(t, IF g_shutting_down THEN "enter" ELSE "abbrev_state")
  /\ UNCHANGED <<flags, states, g_init_mutex, memory, shutter>>

AbbrevState(t) ==
  /\ pc[t] = "abbrev_state"
  /\ Goto(t, IF g_abbrev_ht_state = "READY" THEN "enter" ELSE "abbrev_lock")
  /\ UNCHANGED <<flags, states, g_init_mutex, memory, shutter>>

AbbrevRecheck_None == TRUE   \* mutant: the state is not looked at again

AbbrevRecheck == g_abbrev_ht_state \notin {"READY", "FAILED"}

AbbrevCreate(t) ==
  /\ pc[t] = "abbrev_create"
  /\ \/ /\ ~ AbbrevRecheck
        /\ Goto(t, "abbrev_unlock") /\ UNCHANGED <<g_abbrev_ht, tables, g_abbrev_ht_state>>
     \/ /\ AbbrevRecheck
        /\ tables' = Append(tables, "filling") /\ g_abbrev_ht' = Len(tables')
        /\ Goto(t, "abbrev_fill") /\ UNCHANGED g_abbrev_ht_state
     \/ /\ AbbrevRecheck
        /\ g_abbrev_ht' = NULL /\ g_abbrev_ht_state' = "FAILED"
        /\ Goto(t, "abbrev_unlock") /\ UNCHANGED tables
  /\ UNCHANGED <<flags, g_pretrained_state, g_init_mutex, g_pretrained_map, oom,
                 overlapped, shutter>>

AbbrevFill(t) ==
  /\ pc[t] = "abbrev_fill"
  /\ tables' = [tables EXCEPT ![g_abbrev_ht] = "full"]
  /\ g_abbrev_ht_state' = "READY"
  /\ Goto(t, "abbrev_unlock")
  /\ UNCHANGED <<flags, g_pretrained_state, g_init_mutex, g_pretrained_map, g_abbrev_ht,
                 oom, overlapped, shutter>>

-------------------------------------------------------------------------------
(* fce_sem_shutdown: raise the flag, wait for the readers, free under the  *)
(* mutex, lower the flag.                                                  *)
ShutBegin ==
  /\ shut_pc = "idle" /\ shutdowns < MaxShutdowns
  /\ g_shutting_down' = TRUE
  /\ shut_pc' = "wait" /\ shutdowns' = shutdowns + 1
  /\ overlapped' = (overlapped \/ \E t \in Threads : pc[t] # "idle")
  /\ UNCHANGED <<g_reader_count, states, g_init_mutex, tables_and_oom, thread>>

ShutWait ==
  /\ shut_pc = "wait" /\ g_reader_count = 0
  /\ shut_pc' = "lock"
  /\ UNCHANGED <<flags, states, g_init_mutex, memory, thread, shutdowns>>

ShutLock ==
  /\ shut_pc = "lock" /\ g_init_mutex = NoThread
  /\ g_init_mutex' = Shutter
  /\ shut_pc' = "free"
  /\ UNCHANGED <<flags, states, memory, thread, shutdowns>>

FreeTable(ts, p) == [i \in DOMAIN ts |-> IF i = p THEN "freed" ELSE ts[i]]

MapReset_KeepState == g_pretrained_state   \* mutant: only the pointer is reset

MapReset == "UNINIT"

ShutFreeMap ==
  /\ shut_pc = "free"
  /\ tables' = FreeTable(tables, g_pretrained_map)
  /\ g_pretrained_map' = NULL /\ g_pretrained_state' = MapReset /\ oom' = FALSE
  /\ shut_pc' = "free_abbrev"
  /\ UNCHANGED <<flags, g_abbrev_ht_state, g_init_mutex, g_abbrev_ht, overlapped, thread,
                 shutdowns>>

ShutFreeAbbrev ==
  /\ shut_pc = "free_abbrev"
  /\ tables' = FreeTable(tables, g_abbrev_ht)
  /\ g_abbrev_ht' = NULL /\ g_abbrev_ht_state' = "UNINIT"
  /\ shut_pc' = "unlock"
  /\ UNCHANGED <<flags, g_pretrained_state, g_init_mutex, g_pretrained_map, oom, overlapped,
                 thread, shutdowns>>

ShutUnlock ==
  /\ shut_pc = "unlock"
  /\ g_init_mutex' = NoThread
  /\ shut_pc' = "clear"
  /\ UNCHANGED <<flags, states, memory, thread, shutdowns>>

ShutClear ==
  /\ shut_pc = "clear"
  /\ g_shutting_down' = FALSE
  /\ shut_pc' = "idle"
  /\ UNCHANGED <<g_reader_count, states, g_init_mutex, memory, thread, shutdowns>>

-------------------------------------------------------------------------------
Step(t) ==
  \/ Enter(t) \/ Check(t) \/ CheckAbbrev(t) \/ Read(t) \/ Exit(t)
  \/ EnsureFlag(t) \/ EnsureState(t) \/ Cas(t) \/ Spin(t) \/ Lock(t)
  \/ Create(t) \/ Fill(t) \/ Unlock(t) \/ Publish(t)
  \/ AbbrevFlag(t) \/ AbbrevState(t) \/ AbbrevCreate(t) \/ AbbrevFill(t)

ShutStep == ShutWait \/ ShutLock \/ ShutFreeMap \/ ShutFreeAbbrev \/ ShutUnlock \/ ShutClear

Next == (\E t \in Threads : Call(t) \/ Step(t)) \/ ShutBegin \/ ShutStep

(* The operating system runs every thread that can run. *)
Fairness == (\A t \in Threads : WF_vars(Step(t))) /\ WF_vars(ShutStep)

Spec == Init /\ [][Next]_vars /\ Fairness

-------------------------------------------------------------------------------
(* "safety here rests on" the bracket and the mutex, "to prevent UAF if a  *)
(* caller violates the no-concurrent-shutdown contract": no thread looks   *)
(* tokens up in a table that has been freed, even when a shutdown begins   *)
(* in the middle of a call.                                                *)
NoUseAfterFree == \A t \in Threads : at[t] # NULL => tables[at[t]] # "freed"

(* "The release/acquire on g_pretrained_state is what actually             *)
(* synchronises the data path": as long as no call was concurrent with a    *)
(* shutdown, a thread looks up only in a finished table, although the       *)
(* global points at the table while it is filled.  (With a concurrent       *)
(* shutdown ensure_pretrained_map returns early and this does not hold.)    *)
ReadsPublished ==
  ~ overlapped => \A t \in Threads : at[t] # NULL => tables[at[t]] = "full"

(* Without a concurrent shutdown, a lookup about to read finds the map     *)
(* unless creating it failed: whoever built it, and also after a shutdown  *)
(* ("ensure_ready can be called again to re-initialize").                  *)
MapAvailable ==
  ~ overlapped => \A t \in Threads : pc[t] = "read" => g_pretrained_map # NULL \/ oom

(* Without a concurrent shutdown each table is built once: the live tables *)
(* are those the two globals point to.                                     *)
OneTableEach ==
  ~ overlapped =>
    {i \in DOMAIN tables : tables[i] # "freed"} = {g_pretrained_map, g_abbrev_ht} \ {NULL}

(* Every call returns: losers of the race to initialize leave their spin   *)
(* loop, and nobody waits for the mutex forever.                           *)
CallsReturn == \A t \in Threads : pc[t] # "idle" ~> pc[t] = "idle"

(* fce_sem_shutdown returns, although it waits for readers that may be     *)
(* waiting for an initialization.                                          *)
ShutdownReturns == shut_pc # "idle" ~> shut_pc = "idle"

-------------------------------------------------------------------------------
(* The inductive invariant of the proofs.                                  *)

(* Places of the thread that won UNINIT to INIT; those in                  *)
(* ensure_pretrained_map; those in ensure_abbrev_ht; those between the     *)
(* lock and the unlock of g_init_mutex; those in the reader bracket.       *)
Building == {"lock", "create", "fill", "unlock", "publish"}
Ensuring == {"ensure", "ensure_state", "cas", "spin"} \union Building
Abbreviating == {"abbrev", "abbrev_state", "abbrev_lock", "abbrev_create", "abbrev_fill",
                 "abbrev_unlock"}
Holding == {"create", "fill", "unlock", "abbrev_create", "abbrev_fill", "abbrev_unlock"}
Reading == {"check", "check_abbrev", "read", "read_abbrev", "exit"}
Places == {"idle", "enter"} \union Reading \union Ensuring \union Abbreviating

Contents == {"filling", "full", "freed"}

TypeOK ==
  /\ g_shutting_down \in BOOLEAN /\ g_reader_count \in Int
  /\ g_pretrained_state \in {"UNINIT", "INIT", "READY"}
  /\ g_abbrev_ht_state \in {"UNINIT", "READY", "FAILED"}
  /\ g_init_mutex \in Threads \union {NoThread, Shutter}
  /\ tables \in Seq(Contents)
  /\ g_pretrained_map \in 0 .. Len(tables) /\ g_abbrev_ht \in 0 .. Len(tables)
  /\ pc \in [Threads -> Places]
  /\ kind \in [Threads -> {"none", "lookup", "ensure", "build", "tokenize"}]
  /\ at \in [Threads -> 0 .. Len(tables)]
  /\ shut_pc \in {"idle", "wait", "lock", "free", "free_abbrev", "unlock", "clear"}
  /\ oom \in BOOLEAN /\ overlapped \in BOOLEAN

KindOK(t) ==
  /\ pc[t] \in Ensuring => kind[t] \in {"lookup", "ensure", "build"}
  /\ pc[t] \in Abbreviating => kind[t] = "tokenize"
  /\ pc[t] \in {"enter", "check"} => kind[t] \in {"lookup", "build", "tokenize"}

KindInv == \A t \in Threads : KindOK(t)

(* The threads between the two steps of g_reader_count, which counts them. *)
Bracket ==
  {t \in Threads : pc[t] \in Reading \/ (kind[t] = "lookup" /\ pc[t] \in Ensuring)}

CountInv == IsFiniteSet(Bracket) /\ g_reader_count = Cardinality(Bracket)

(* A shutdown that has seen no reader has raised the flag before it looked,*)
(* so readers that came later get no further than the flag; and a thread   *)
(* has a table in hand only until it leaves the bracket.                   *)
HandshakeInv ==
  /\ g_shutting_down <=> shut_pc # "idle"
  /\ shut_pc \notin {"idle", "wait"} => \A t \in Bracket : pc[t] \in {"check", "exit"}
                                                          /\ at[t] = NULL
  /\ \A t \in Threads : at[t] # NULL => pc[t] = "exit"

MutexInv ==
  /\ \A t \in Threads : g_init_mutex = t <=> pc[t] \in Holding
  /\ g_init_mutex = Shutter <=> shut_pc \in {"free", "free_abbrev", "unlock"}

(* The globals point to different tables, not freed; a table being filled  *)
(* is still the global's; READY of the abbreviations says it is filled.    *)
TableInv ==
  /\ g_pretrained_map # NULL => /\ tables[g_pretrained_map] # "freed"
                                /\ g_pretrained_map # g_abbrev_ht
  /\ g_abbrev_ht # NULL => tables[g_abbrev_ht] # "freed"
  /\ \A t \in Threads : pc[t] = "fill" => g_pretrained_map # NULL
  /\ \A t \in Threads : pc[t] = "abbrev_fill" =>
       g_abbrev_ht # NULL /\ g_abbrev_ht_state = "UNINIT"
  /\ g_abbrev_ht_state = "READY" => g_abbrev_ht # NULL /\ tables[g_abbrev_ht] = "full"
  /\ g_abbrev_ht_state # "READY" /\ g_abbrev_ht # NULL =>
       \E t \in Threads : pc[t] = "abbrev_fill"

(* The map was built, or could not be.                                     *)
Built == IF g_pretrained_map = NULL THEN oom ELSE tables[g_pretrained_map] = "full"

(* One thread builds the map, from nothing.                                *)
BuildsAlone ==
  \A t \in Threads : pc[t] \in Building =>
    /\ g_pretrained_state = "INIT"
    /\ \A u \in Threads : pc[u] \in Building => t = u
    /\ pc[t] \in {"lock", "create"} => g_pretrained_map = NULL
    /\ pc[t] \in {"unlock", "publish"} => Built

(* Who is past the wait for a table has seen it READY.                     *)
SeenReady ==
  \A t \in Threads :
    /\ pc[t] = "read" \/ (kind[t] = "build" /\ pc[t] \in {"enter", "check"}) =>
         g_pretrained_state = "READY"
    /\ pc[t] = "read_abbrev" => g_abbrev_ht_state = "READY"

QuietInv ==
  ~ overlapped =>
    /\ shut_pc # "idle" => \A t \in Threads : pc[t] = "idle"
    /\ g_pretrained_state = "UNINIT" => g_pretrained_map = NULL
    /\ g_pretrained_state = "READY" => Built
    /\ BuildsAlone /\ SeenReady

IInv ==
  /\ TypeOK /\ KindInv /\ CountInv /\ HandshakeInv /\ MutexInv /\ TableInv /\ QuietInv
  /\ NoUseAfterFree /\ ReadsPublished /\ OneTableEach
===============================================================================
