# fast-code-embed: TLA+ models and proofs

This directory is the verification project of the library: TLA+ modules
translated from its C sources, TLC configurations that check them on small
instances, and TLAPS proofs for every size. Paths below are relative to the
repository; line numbers in `PROJECT.json` ("map") tie every definition to the
code it stands for.

    tlc -config MCCorpus.cfg MCCorpus.tla      # one run
    tlapm WorkerPool_proofs.tla                # the proofs of one module

## 1. The system

fast-code-embed embeds source code tokens and documents. A *corpus* is filled
with tokenized documents, finalized once into vectors, then searched. Callers
use it from C, through JNI from Java, and through cffi from Python.

| Component | Source | State | Operations | Talks to |
|---|---|---|---|---|
| worker pool | `src/pipeline/worker_pool.c` | none between calls; per call a claim counter and threads | `fce_parallel_for`, `fce_parallel_for_static` | every parallel phase passes a callback that owns slot *i* of an array |
| hash table | `src/foundation/hash_table.c` | slots with probe distances, count, capacity | create, set, get, delete, clear | vocabulary, pretrained map, abbreviations |
| pretrained tables | `src/semantic/semantic.c` 140-160, 975-1235 | two process-wide maps, their state words, the reader count, the shutdown flag, a mutex | `ensure_ready`, look-ups, `fce_sem_shutdown` | tokenizer, finalize, queries |
| corpus under construction | `semantic.c` 1650-2200 | entries, token map, document frequencies, documents | `add_doc`, `add_docs_batch` | hash table, worker pool |
| file ingestion | `semantic.c` 690-930 | a buffer of documents, per-file counts | `add_files` | tokenizer, `add_docs_batch` |
| finalize | `semantic.c` 2350-3690, 3809 | some twenty buffers and who owns them | `finalize`, `corpus_free` | worker pool, pretrained tables |
| JNI handles | `java/src/main/native/fast_code_embed_jni.c` | slots with pointer, generation, reference count | create, acquire, release, take | Java `close()`, the Cleaner, every native method |
| cache files | `semantic.c` 3938-4570, `src/foundation/platform.c` | one file and one temporary per path, mappings of loaded corpora | save, load, free | finalized corpora, the active dimension |
| search and ranking | `semantic.c` 4584-7344 | per-call heaps, per-thread scratch | `search*`, `rank*` | finalized corpora, worker pool |
| tokenizer, random index, scores, SIMD | `semantic.c`, `src/foundation/simd_dot768.h` | none | pure functions | the above |
| toggles | `semantic.c` 164-243 | active dimension, IDF, abbreviations | setters, lazy reads of the environment | finalize, queries, load |
| Java API | `java/` | a handle | wrappers, `close()`, the Cleaner | JNI |
| Python API | `python/` | a pointer, the labels, a snapshot of the toggles | `add_*`, `finalize`, `search`, `save`, `load`, `close` | C API |

What is hard here, and therefore what the properties are about:

* *Allocation failure at every point.* The code handles each one, by rollback,
  by a sequential fallback or by keeping a lesser result. These paths are long,
  they combine, and no test can fail the n-th malloc.
* *Threads without locks.* Parallel phases rely on the pool handing out each
  index once; the pretrained map is published through a state word while its
  pointer is already visible; shutdown waits on a reader count.
* *Lifetime.* Java may use, close, double-close or finalize a handle at any
  moment, from any thread, while slots are reused.
* *Bookkeeping between layers.* Documents are renumbered when some are
  rejected, and per-file counts are repaired afterwards; Python keeps labels in
  a list of its own.
* *Process-wide settings.* The dimension, the weighting and the expansion are
  read live by builds, queries and saves, and a load changes the dimension.
* *The file system.* A save can fail or die between any two steps while other
  processes have the previous cache mapped.
* *Many copies of one loop.* Five selection loops and two merges, chosen by
  mode, size, cores and memory, must return the same k best.

What makes each part correct: the pool visits each index exactly once and
returns after the last callback; the table is a map; the lazily built tables
are seen finished or not at all and never after they were freed; a batch is
all or nothing and keeps vocabulary, frequencies and documents consistent; the
counts of `add_files` add up; finalize frees exactly what it does not keep and
keeps one representation holding computed values; a corpus is freed once and
under no user; a reader of a cache sees a whole file; a search returns the k
best of what its mode promises to look at; and what a search compares was made
under the same settings.

## 2. Modules

| Module | Role | Lines of code it stands for |
|---|---|---|
| `ParallelFor` | abstract promise of `worker_pool.h` | `worker_pool.h` |
| `WorkerPool`, `MCWorkerPool` | dynamic pool, implements `ParallelFor` | `worker_pool.c` 105-237 |
| `WorkerPoolStatic`, `MCWorkerPoolStatic` | static chunks, implements `ParallelFor` | `worker_pool.c` 57-128 |
| `WorkerPool_proofs` | the theorems of both | |
| `Corpus`, `MCCorpus` | building the corpus | `semantic.c` 1650-2200 |
| `Corpus_proofs` | its theorems | |
| `AddFiles`, `MCAddFiles` | file ingestion on top of batches | `semantic.c` 690-930 |
| `Finalize`, `MCFinalize` | buffers and ownership of finalize | `semantic.c` 2680-3690, 3809 |
| `Finalize_proofs` | its theorems | |
| `PretrainedMap`, `MCPretrainedMap` | lazy tables, readers, shutdown | `semantic.c` 975-1235 |
| `PretrainedMap_proofs` | its theorems | |
| `StringMap` | abstract promise of `hash_table.h` | `hash_table.h` |
| `HashTable`, `MCHashTable` | Robin Hood table, implements `StringMap` | `hash_table.c` |
| `HashTable_proofs` | its theorems | |
| `CorpusLifetime` | abstract contract of the JNI header comment | `fast_code_embed_jni.c` 40-60 |
| `HandleTable`, `MCHandleTable` | handle table, implements `CorpusLifetime` | `fast_code_embed_jni.c` 62-205, 604-650 |
| `HandleTable_proofs` | its theorems | |
| `CachePath` | abstract promise of a cache file | `semantic.h` 388-416 |
| `CacheFile`, `MCCacheFile` | save and load step by step, implements `CachePath` | `semantic.c` 3938-4341, 3817, `platform.c` 179 |
| `CacheFile_proofs` | its theorems | |
| `Search`, `MCSearch` | all searches and their top-k selections | `semantic.c` 4885-6935 |
| `PyCorpus`, `MCPyCorpus` | the Python class and the process-wide toggles, on top of `CachePath` | `python/fast_code_embed/__init__.py`, `semantic.c` 160-243 |
| `PyCorpus_proofs` | its theorems, and those of `AddFiles` and `Search` | |

Modules compose by what they assume of each other. `Corpus` uses the pool as
`ParallelFor` promises it (each worker runs once, the call returns when all
have) and the token map as `StringMap` promises it; `AddFiles` uses of a batch
what `Corpus` shows (documents with tokens are accepted up to the cap, none
after a rollback, any after the sequential fallback); `Finalize` treats a
parallel phase as one step because its workers own disjoint entries; `Search`
starts as many workers as the pool would and waits for all of them; `PyCorpus`
uses saves and loads as `CachePath` promises them, which `CacheFile` implements
as long as one process at a time saves a path.

How state and actions correspond to the code:

* **WorkerPool.** One call. Thread 0 is the caller. `Enter` is the head of
  `fce_parallel_for` with its three ways on; `Spawn`/`SpawnEnd` the creation
  loop, which may end early at any iteration because creation failed; `Claim`
  is the `atomic_fetch_add` with the comparison; `Join` and `Return` the tail.
  The serial path is the same loop run by the caller alone. `visits` records
  how often the callback was entered per index.
* **WorkerPoolStatic.** `Cut` is one round of the loop that fills `args`; after
  a failed creation the caller runs all chunks nobody took, then joins.
* **Corpus.** One action per step between two allocations: `InsertDoc` and
  `InsertToken` (Phase A, document by document), `StartResolve`, one `Worker...` action per step of
  `batch_resolve_worker`, then `Commit` or `Rollback`; `Fallback` enters the
  `add_doc` loop that also serves direct calls. A slot is `Null`, `Garbage`
  (never written since the array grew) or the ids stored.
* **AddFiles.** `NextFile`, `SkipChunk`, `BufferChunk`, `EndOfFiles` follow the
  nested loops; a flush is `Flush` (the batch, and what it takes off
  `total_docs`), `Charge` (the deficit is charged to files from the last
  position backwards, one position a step) and `Flushed`.
* **Finalize.** One action per phase. `mem` holds every block allocated, what
  it contains, and each pointer; freeing a block twice or reading one after it
  was freed sets `mem.bad`.
* **PretrainedMap.** One action per atomic access, lock or unlock of each kind
  of call, and of shutdown.
* **HashTable.** An insertion is `Set` (the load test and the start of a
  resize), `NextOld`, `Move` and `Grown` (the rounds of the resize, over the old
  slots and of the probe loop for each entry) and `Insert`, `Update` or `Probe`
  (the rounds of the probe loop); a deletion is `Delete` (the search) and the
  rounds `Shift` and `ShiftEnd`. `cur` and `idx` are the entry in hand and the
  slot. A search changes nothing: `Rounds` is the round in which it ends.
* **HandleTable.** One action per critical section of `g_handle_mutex`.
* **CacheFile.** `path` and `tmp` are the inodes the two names are bound to, an
  inode's `data` the parts written so far. The steps of a save are `OpenTmp`,
  three `WritePart`, `CloseTmp` and `Replace`, or one of the failures; `Crash`
  may come between any two. The loader's checks are `Loadable`: they see the
  header, the tokens and the index, but any bytes are legal vectors.
* **Search.** `EnterBrute`, `EnterIndex`, `Collect`, `Rerank`, `Scan` are the
  parts of a query between its gotos, `RankArrays` the calls on arrays. The
  selection that follows is the same for all of them but for who reads what:
  `todo` holds the lists of documents to go through (the corpus or candidates,
  the chunks, the heaps to merge), `sel` the heaps (of the caller, of each
  worker or of each chunk). `Take` is one round of a selection loop, with the
  claim; `Sift` one round of `heap_siftdown` on the code's array heap, whose
  `root` says how far it is; `Merge` follows the join, `Finish` is the `qsort`,
  the copy and the frees. Scores are integers given with the call. `live` holds
  the blocks allocated; every exit has a free list of its own, taken from its
  own lines of the code (`BruteFrees`, `NoTokensFrees`, `Cleanup`, `CollectFrees`,
  `RerankGivesUp`, `RankGivesUp`, `NoProxGivesUp`, `ChunksGiveUp`, and
  `SelectionFrees` with `CallFrees` at the end), and `Blocks` applies it.
* **PyCorpus.** One action per method, and per setter. A document, and a
  label, is known by the call that added it and the path it came from, so a
  document can be compared with its label. `AddFiles` takes any report of the C
  side (the path of each document, the count of each path) and makes the labels
  from the counts, cut or filled up to the number of documents; `AddDoc` lists
  its label whether or not the document was taken.

## 3. Runs

| Run | Question | Bounds, and why they are enough |
|---|---|---|
| `worker_pool` | Does the dynamic pool keep its promise whatever creations fail? | counts -1, 0, 1, 2 and 4, at most 3 created threads: fewer, as many and more threads than indices. The proofs lift the bounds |
| `worker_pool_static` | Do the chunks partition the range, with a failure at each one? | counts -1 to 5 and 7, up to 4 chunks: below, equal, divisible, not divisible |
| `corpus_build` | Do two calls leave a consistent corpus after any failure? | 2 tokens, documents that are empty, repeated, too long or hold NULL, 2 workers with chunks of one document, room for 3 documents and 2 entries: the second call starts from every state a first can leave |
| `finalize` | Are buffers freed once, kept once, and is the surviving representation built from the surviving vectors? | counts are zero or not; every subset of allocations fails; two calls and a free |
| `add_files` | Do totals and per-file counts add up? | 3 files of up to 2 chunks, batches of 3, room for 4: a batch spans files, fills at a file's end and leaves a remainder |
| `pretrained_tables` | Can look-ups race with construction, each other and one shutdown? | 2 threads, 3 calls of any kind, 1 shutdown: two initialisers, a late reader and a call after the shutdown |
| `hash_table` | Is the table a map? | 4 keys, hashes that collide and wrap, a table of 4 slots that grows to 8: every placement around the load limit, chains that wrap, a resize that moves colliding entries apart. The proofs lift the bounds |
| `handle_table` | Is a corpus freed once, under no user? | 4 threads (a user, two closers, a creator), 2 slots, 3 corpora: a slot is reused while stale handles to it exist |
| `cache_files` | Does the path hold the last complete save, whoever reads, fails or dies? | 2 processes, one of which saves, 2 caches, 4 inodes: the current file, the temporary one, one still mapped and one to spare; every part may be the last one written |
| `search` | Is the answer the k best, in full, and is everything freed? | up to 6 documents, k up to 4, 2 workers and 2 chunks, a cap of 4 candidates, 2 documents per word of the bitmap: ties at the cut, more matches than the cap, both sides of every size test, heaps of up to 4 that sift more than a level, corpora that grow and shrink between calls. The proofs lift the bounds |
| `py_settings` | Is a search made under the settings of the documents, and can a rejected document, or counts that are skewed, shift the labels of other calls? | 2 objects (one built or loaded, one loaded), 2 labels each, both dimensions: a change, a load or a rejected load between any two calls. `add_files` of two files (`MCReports`) with a chunk without tokens, and one or two documents, one of them labelled with the other path |
| `add_files_labels` | a disagreement with a comment, see section 5 | as `add_files` |

Deadlock is checked where a run ends only by stopping in a final state that
loops (the pools) or never ends (the table, the searches); the others stop when
their bounded calls are used up, or have nothing that must happen next, and say
so.

`CacheFile` states nothing about progress: a process may die, or never be
scheduled again, and nobody waits for it. Neither does `Search`: its calls
return because the pool does, which `Implements` in `worker_pool` says.

**Fairness.** Weak fairness of each thread's own steps, because the operating
system schedules every runnable thread, and callbacks, native methods and
allocations return. Nothing is assumed of the environment: no call has to be
made, no creation to succeed, no spurious wake-up to occur, no shutdown to
start. In `PretrainedMap` the mutex may starve nobody in the runs because each
thread makes boundedly many calls. `CallsReturn` there covers the spin of the
losers and the readers' exits; `ShutdownReturns` the wait for readers.

**Memory model.** Interleavings are sequentially consistent. The code uses
`seq_cst` for the reader/shutdown handshake, release/acquire for publication,
and mutexes; races of plain data beyond those would not be seen.

**Every property can fail.** Beside each definition it mutates stands an
operator named `<Definition>_<Bug>`, a plausible mistake in that code; with it
in place the property is violated under the same configuration.

## 4. Proofs

`WorkerPool_proofs` proves, for every set of counts and options, every default
worker count and every bound on threads (assumptions: they are integers and
the bound covers the options, named `...Assumption` in `WorkerPool`):

* `TypeCorrectness`, `Completion` (when the call has returned each index was
  visited once and no callback runs), `MutualExclusion` (no two threads work on
  one index), `BoundedOverrun` (the counter exceeds the count by at most the
  number of threads, so an `int` cannot wrap for realistic counts);
* `SafetyRefinement`: every behaviour is one of `ParallelFor!Safety`.

Completion is not inductive: that every index was visited follows only from
what finished threads have *seen*. The inductive invariant `IInv` has four
parts. `ClaimInv`: an index has been visited exactly when it is below the
counter, and running threads hold distinct indices below it. `ControlInv`:
which threads exist and that a thread that left its loop saw the counter at or
past the count; a joined thread has exited. `CounterInv`: the counter is at
most the count plus the number of threads that finished. `TypeOK`. There is one
lemma per action.

It proves of `WorkerPoolStatic`, the instance `S`, under the same assumptions:

* `ChunksDisjoint` (no range passes the count, no index is in two ranges: the
  invariant `DisjointRanges` of its run);
* `StaticRefinement`: every behaviour is one of `ParallelFor!Safety`, so no
  index is visited twice and the call returns after every callback, wherever
  thread creation failed.

The code adds chunk sizes up in a loop; the proof needs where a chunk begins.
`Bound(n)` is a closed form of the sum of the first *n* sizes, `CutInv` says the
loop computes it (lemma `Bounds`: it starts at 0, grows, and reaches the count
exactly), and lemma `Covering` finds the chunk of an index as the least one that
ends after it. `RangeInv` keeps every thread between its two bounds, the caller
between the end of the last thread's chunk and the count; `VisitInv` says that
an index was visited exactly if the thread it belongs to has reached it.

`HandleTable_proofs` proves, for any finite set of threads, any table size and
any number of corpora (`HandleAssumption`):

* `TypeCorrectness` (a slot never counts more than every thread and its owner),
  `ExactCount`, `NoDanglingUse` (no native method runs on a freed corpus),
  `SingleFree` (a corpus about to be freed is live and nobody else's);
* `SafetyRefinement`: every behaviour is one of `CorpusLifetime!Safety`.

`CountExact` is inductive only together with facts about who may hold a
pointer, the conjuncts of `IInv`. `PointerInv`: a slot's pointer is a live
corpus and no other slot shares it. `CloserInv`: a closer's corpus is live, in
no slot and no other closer's. `DrainInv`: a slot being drained is empty, keeps
its generation and has one closer. `UserInv`: a call inside holds a corpus that
is still in its slot or in the hands of the closer draining it. The exact count
is what keeps a draining slot from being reused (its count is not zero), and
that in turn keeps `DrainInv` and `UserInv`. There is one lemma per action.

`PretrainedMap_proofs` proves, for any set of threads, finite or not, any kinds of
call and any number of calls and shutdowns (`PretrainedAssumption`):

* `TablesOutliveReaders` (no look-up touches a freed table, whatever overlaps),
  `ReadersSeeFinished`, `LookupFindsMap`, `TablesBuiltOnce` (these three while
  nothing overlapped a shutdown, as the properties say).

`CountInv` ties the reader count to the set of threads in the bracket;
`HandshakeInv` says that once the shutdown has seen zero, whoever is in the
bracket is about to see the flag or is leaving; so nobody has a table in hand
while tables are freed. `MutexInv` and `TableInv` say who may build
and that pointers name tables that were not freed; `QuietInv` says what holds
as long as nothing overlapped: state words tell the truth about the tables and
at most one thread builds. The shutdown's order (flag, wait, lock, free, reset)
and the order of the reader's two accesses (count, then flag) are both needed.

`Corpus_proofs` proves, for any tokens, any documents and batches, any caps and
any finite or infinite number of workers (`TokensAssumption`, `NullAssumption`:
a slot that is NULL or was never written is not a list of ids, and
`CapsAssumption`):

* `OneNumbering`, `FrequenciesCount`, `DocumentsNameTheirTokens`,
  `SlotsAreWritten`, `MapNamesOwnDocs`, the five invariants of the run, and
  `RollbackLeavesNoTrace`, its action property.

The exact frequencies are not inductive while a batch is resolved: `FreqInv`
splits the count at `base_doc`, the entries counting the documents before it and
`doc_freq_atomic` those after it, so that `Commit` adds two disjoint sets and
`Rollback` drops the second. For one worker's step to count its document once,
its slot must still be NULL. That is `BatchInv`: the slot of every valid
position that is *pending* (not claimed, or in the rest of somebody's chunk) is
NULL; `RangesInv` says that chunks are disjoint, and lemma `Numbering` that
`doc_map` gives different positions different slots. `BatchInv` also keeps what
a rollback relies on: below `base_doc` and below the old entry count nothing
changed, and the old documents refer to old entries only. `DocsInv` describes
the document `add_doc` is at, half translated.

`Finalize_proofs` proves, for any numbers of entries and documents
(`CountsAssumption`) and any number of calls on one corpus:

* `BlocksFreedOnce` (no block is freed twice or written after it was freed),
  `NothingLeaks`, `OneRepresentationKept`, `FailedHoldsDocuments` and
  `SidesFromSamePass`, the five invariants that hold of the code, whichever
  allocation fails.

The proof starts with a small theory of the memory record: `Sound` says that
who holds a block holds it alone, that it was not freed, and that a block nobody
holds was; lemmas `AllocSound`, `WriteSound` and `FreeSound` say what the heap
operations do to `Sound`, to the set `Held` of pointers in use and to the
contents. `IInv` adds `Stage`, which sets of pointers may be held between two
phases (every early return ends in one of them, which is what rules out leaks),
and `SidesAgree`: from the document vectors on both sides of a comparison hold
the same pass. `Sound` is broken for a moment inside the first pass, where
`pass1_q` and `enriched_vecs_q` name one block: lemma `AliasUndone` shows the
phase never ends like that.

`HashTable_proofs` proves, for any keys, values and hash functions and any
initial capacity of at least four slots (`HashTableAssumption`; the code creates
eight or more):

* `ProbeOrder`, `NeverFull` and `RoomKept`, the three invariants of the run;
* `IsAMap`: every behaviour is one of `StringMap`.

What the early exit of a search needs is `Placed`: every entry is `psl - 1` slots
after its home, and the slot before it holds an entry at least as far from home,
less one. Lemma `Path` draws the conclusion (all slots between the home of a key
and its entry hold entries at least as far from home as the search then is, so
no search stops on the way), by taking the nearest slot that breaks it.
`HandInv` says that the entry in hand may be put down wherever the loop is, and
that its key may be further on in the table only while it is the key being set:
after the first steal `fce_ht_set` carries another key, which is nowhere else.
While a deletion shifts, the hole still shows the entry that moved: `Live` leaves
it out, and `Unique` speaks of the live entries, of those a resize has yet to
move and of the one in hand. `CountInv` counts the same three groups; the load
test before the first round, and the invariant that the capacity fits the peak,
leave a slot free, and `probe` counts the rounds since the home slot, so that
one is met in time. `BeforeInv` compares the table in the middle of an operation
with what the keys answered when it began; the refinement maps each operation to
one step of `StringMap`, at its last round. Each invariant is kept action by
action; the resize is a table built from nothing by the same `Walk`.

`CacheFile_proofs` proves, for any processes, caches and inodes
(`FileAssumption`), `ReadersSeeWhole`, `OldCacheKept` and `PathRefinement` (every behaviour
is one of `CachePath`) under the hypothesis `[]OneSaveAtATime`: no two saves of
the path are under way together. The hypothesis is needed, finding 7 below is
what happens without it; it holds when one process saves
(`OneSaverImplementsPath`), as in the run, and when savers take turns.
The invariant `FileInv`: the temporary name is bound only to a file nobody has
mapped and the path does not name, a save's stream writes that file and the
file holds just the parts written so far, and what the path or a mapping names
is whole. `ReadersSeeWhole` states `NoTornView`, which only the configuration
with two savers checks.

`PyCorpus_proofs` proves, for any set of objects and any number of documents
(`BuildAssumption`), and for whatever `add_files` reports (`ReportsAssumption`:
lists of paths and of counts, which need not fit each other), `SearchAgrees` and
`LabelsOfOwnCall`. `PyInv` says of every object by its state
what its snapshot and its list of labels have to do with what the C side built:
before `finalize` documents were expanded only as the pin says; after it the
snapshot holds the settings the vectors were built with; no
call lists fewer labels than it adds documents (`AddDocKeeps`, `AddFilesKeeps`),
so lists of equal length have lost no step and hold, position by position, the
labels and documents of the same calls (`LongerLists`). Which path of the call a
label names is not claimed: within one `add_files` it may be another document's,
which is finding 1. A loaded corpus has the dimension of its header.

The same module proves of `AddFiles`, for any files, any batch size and any cap
(`AddFilesAssumption`), `TotalIsExact` and `CountsSumUp`, the two invariants of
its run. A sum over files would need induction; the counts are taken apart into
units `<<f, n>>` instead, so that what they add up to is the cardinality of
`Units` and a charge takes away as many units as it takes off the deficit
(`UnitsTaken`). That the loop never ends with a deficit it could not charge is
`ChargeInv`: a file counts at least its documents in the buffer (`Of`) until it
is charged, and a file that gives up less than the deficit gives up everything.
So what is left of the deficit never exceeds the positions whose file can still
be charged, and these all lie ahead of the loop.

And it proves of `Search`, for any calls on any corpora with any scores, any
cap and any numbers of workers and chunks (`SearchAssumption`,
`RequestsAssumption`), the four invariants of its run. `SearchInvariant` is the
inductive invariant `SearchInv`:

* `HeapInv`: a full heap is in order but for the sift under way. The sift began
  at `from` and has come to `root`: from `from` on, every parent is no larger
  than its children, except at `root`, whose children are still no smaller than
  its parent. One round keeps that (`SiftKeeps`), making the heap and restoring it
  alike, so when the rounds end the root is the least (`RootLeast`).
* `ItemsInv` and `Apart`: lists and heaps hold documents with their own scores,
  and no document is in two places, whoever claimed it.
* `LostInv`: when a document has been given up, K documents that score no less
  are still in some list or heap. A full heap of K gives its root up for no worse
  an item and holds K that are no worse than the root (`OfferKeeps`,
  `EnoughLost`); this is the step that needs the order of the heap. A chunk that
  is smaller than K has room for all of it (`ShapeInv`) and gives nothing up.
* `PhaseInv` and `PoolInv`: where a call can be by its arguments, and how many
  documents it chooses from.
* `LiveInv`: what a call holds at each point it can come to by several ways
  (`CallHolds`, `WorkersHold`, `ChunksHold`). `BlocksKept` follows the blocks
  through every action, each exit with its own free list, so `NoOtherLeak` says
  of every exit that it frees just what the calls before it have allocated.

So at the end the one heap is all that is left and holds the best K of the pool
(`BestOf`), which `Ranked` sorts (`RankedSorts`); a merge starts from the heaps
of the workers as from any other lists. The lemmas `ChunkLists` and
`CollectKeeps` say that the chunks partition the corpus and that a bitmap that
was cleared as far as this corpus needs hides no match.

Only model-checked: liveness, because the prover does not do fairness. The
theorem `TypeCorrectness` of two proof modules is about an invariant no run
checks any more: it serves the other theorems.

## 5. Where code and comments disagree

Each has a configuration that shows it: TLC finds the property violated by what
the code does. The first one is a run of the suite; the others are run by hand,
with the module named beside the configuration.

| Configuration | Property | Place |
|---|---|---|
| `MCAddFilesLabels.cfg` | `CountsPerFile` | `semantic.c` 893, against `semantic.h` 453 |
| `MCPyLabels.cfg` (`MCPyCorpus`) | `SavedLabelsOwn` | `__init__.py` 226, against its docstring at 199 and 202-206 |
| `MCFinalizeAttached.cfg` (`MCFinalize`) | `BuffersLeftAttached` | `semantic.c` 3153 and the other failing exits, against `semantic.h` 301-304 |
| `MCSearchLiteral.cfg` (`MCSearch`) | `OnlyLiteralMatches` | `semantic.c` 6480 and 6638, against `semantic.h` 591-594, and 586 for TFIDF |
| `MCCorpusOOM.cfg` (`MCCorpus`) | `CommitIsComplete` | `semantic.c` 1859, against the comment at 1843 |
| `MCCorpusReject.cfg` (`MCCorpus`) | `RejectedMapFilled` | `semantic.c` 1985, against the comment at 1945 |
| `MCFinalizeVectors.cfg` (`MCFinalize`) | `VectorsComputed` | `semantic.c` 3201, against the comment at 3166 |
| `MCCacheTwoSavers.cfg` (`MCCacheFile`) | `NoTornView` | `semantic.c` 4113, against the comment at 4105 and `semantic.h` 388 |
| `MCPyDimension.cfg` (`MCPyCorpus`) | `HeaderTellsDimension` | `semantic.c` 4085 and 4228, against `README.md` 288 |

1. A chunk without identifiers is counted as a document of its file and later
   subtracted from another one. No allocation failure and no cap is involved.
   Java and Python make labels of these counts. In Python (`MCPyLabels.cfg`) a file
   without an identifier, added with one that has a document, gives its path to
   that document; the labels are as many as the documents, so `add_files` does not
   warn, `save` does not refuse, and the cache has the wrong label. The docstring
   allows that only at the limits of the library and with a warning. `CountsAddUp`
   says the lengths always agree, so the branch that warns is never entered.
   What does hold is `SavedLabelsOfOwnCall`: no other call's labels are shifted.
2. The header of finalize says that after a failure "internal buffers allocated
   before the failure are left attached" and that a retry leaks. The code frees
   what it built on every failing exit, comments there say to make a retry safe,
   and a second call returns at once: `FailureGivesBack` and `NothingLeaks` hold.
   The corpus is unusable all the same, as the header says. The header is stale.
3. `semantic.h` says that documents sharing no literal token with the query "will
   NOT appear" in AUTO, FAST and TFIDF, and promises TFIDF no fallback. AUTO and
   TFIDF scan the whole corpus when fewer than `top_k` documents match, and return
   others. The same header says of AUTO "fall back to brute" (583), so the two
   cannot both be meant. `AnsweredInFull` states what the code does, an answer as
   long as the whole corpus allows; only FAST keeps to the note (`FastStaysInIndex`).
4. The ids of one document cannot be allocated in `batch_resolve_one_doc`. The
   error flag stays 0 and the batch commits with that document empty; the
   comment says the flag is set on OOM.
5. A batch rejected before its first loop leaves `doc_map_out` unwritten; the
   comment says it is filled with -1 on every rejection path. The JNI caller
   passes an uninitialised array.
6. When the scratch of pass 1 cannot be allocated, the float32 fallback holds
   the result and is freed because the int8 buffer exists; finalize succeeds
   with an int8 buffer nobody wrote.
7. Two savers of one path share `<path>.tmp`. The second truncates the file the
   first has written; the rename of the first then publishes it half written,
   with zeros where the second has not written yet or parts of both, and a
   reader that has mapped it sees it change.
8. A load makes the dimension of its file the active one, also when it rejects
   the file later. A corpus finalized before and saved after is written with
   that dimension in the header, and its dense sections are sized by it, though
   its vectors have the other. `StartupSpec` calls no setter, so keeping to the
   advice to set the dimension once does not help.

Seen while modelling, without a configuration:

* a failed allocation of `doc_idf` (`semantic.c` 3234) leaves documents
  unweighted while queries are weighted; `AnswersAgree` excepts it;
* a shutdown concurrent with look-ups, which `semantic.h` forbids, lets `ensure`
  return before the map is ready (`semantic.c` 1143), so `ReadsPublished` is
  stated for executions in which no call overlapped the shutdown;
* which of several equal scores at the cut is returned depends on the path and
  on the interleaving of the workers (`semantic.c` 5051 keeps the first one met,
  5488 the lower index unless it meets them in a heap whose root is another):
  `semantic.h` 482 and the comment at `semantic.c` 4898 promise more than
  `BestReturned`, which leaves that choice open;
* the array of `precompute_corpus_prox` is not freed after a parallel
  `fce_sem_search` or `fce_sem_simple_search` (`semantic.c` 6930-6935); it is
  the exception in `OnlyProxLeaks` (`SelectionFrees` at the end of a parallel call has no
  `corpus_prox`; the serial path and the failing exits free it);
* the other modes answer a query whose vector is zero with nothing, because all
  documents would score alike (`semantic.c` 6446); brute force does just that;
* the weighting and the expansion are not stored in a cache: a loaded corpus
  takes the settings of the moment for its own (`__init__.py` 333), so
  `AnswersAgree` says of it only that the dimension is the header's;
* a loaded Python corpus keeps its labels in C and saves with its empty list, so
  loading and saving a cache drops its labels;
* `add_doc` lists the label of a document the C side rejected; `save` refuses
  the list then, but `search` shows the labels shifted;
* `hash_table.h` 50 says a resize that runs out of memory leaves `inserted`
  unchanged, line 47 that it is false, which is what `hash_table.c` 218 does;
* the snapshot of `finalize` is taken after the C call: a toggle changed by
  another thread in between is not noticed (`PyCorpus` has one thread).

## 6. What is left

Everything the plan named is modelled: the pool, the corpus, finalize, file
ingestion, the lazy tables, the hash table, the handle table, the cache, search
and the toggles. The suite is kept to one run per question. Every
safety invariant of a run is a theorem.

**Not modelled.** Floating-point arithmetic and SIMD kernels (no numbers for it
in TLC: `Finalize` keeps track of which pass a value comes from, `Search` takes
scores as given); the tokenizer's string scanning; the byte-level validation of
a cache beyond what it can tell about half-written files; the guards against
NULL, `top_k = 0` and non-finite scores and the call that only counts
candidates; the creation of the thread-local key of the scratch; generated data
(`code_tokens.h` alone is 40 900 lines of it) and xxHash; logging and platform
queries; the marshalling code of JNI; tools, benchmarks and tests.
`PROJECT.json` lists each with its reason.
