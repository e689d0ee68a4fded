------------------------------- MODULE Finalize -------------------------------
(***************************************************************************)
(* fce_sem_corpus_finalize (src/semantic/semantic.c) as it moves the       *)
(* corpus from documents and vocabulary to the one representation searches *)
(* read: which buffers exist, who points to them and whose values they     *)
(* hold, through a failure of any allocation.  One action is one phase; a  *)
(* phase that runs workers is one step here, because every fce_parallel_for*)
(* of finalize gives each worker its own entries (module WorkerPool) and   *)
(* returns when all are written.                                           *)
(*                                                                         *)
(* heap[b] says what block b holds: "freed"; "uninit" and "zero" fresh     *)
(* from malloc and calloc; "pass1" normalized source vectors with the      *)
(* first co-occurrence pass; "blend" the result of both passes; "data"     *)
(* for the rest.                                                           *)
(***************************************************************************)
EXTENDS Integers, Sequences, FiniteSets

CONSTANTS
  EntryCounts,    \* values of entry_count
  DocCounts,      \* values of doc_count
  MaxCalls        \* bound on the calls of finalize on one corpus

ASSUME CountsAssumption == EntryCounts \subseteq Nat /\ DocCounts \subseteq Nat

(* The buffers fce_sem_corpus_free frees, and the locals of finalize. *)
Enriched == {"enriched_vecs", "enriched_vecs_q"}
DocQ == {"doc_vectors_q", "inv_mag"}
Sparse == {"enr_sparse_idx", "enr_sparse_val", "doc_sparse_idx", "doc_sparse_val"}
InvIndex == {"inv_offsets", "inv_doc_ids"}
Attached == Enriched \union DocQ \union Sparse \union InvIndex
            \union {"doc_vectors", "doc_token_ids"}
Local == {"rev", "src_entries", "pass1_q", "scratch", "local_q", "doc_idf",
          "occ_counts", "tmp_ids", "cursor"}

Transient_SourcesOnly == {"src_entries"}   \* mutant: the reverse index is forgotten

(* What every exit of finalize gives back. *)
Transient == {"src_entries", "rev"}

Pointer == Attached \union Local

NULL == 0

VARIABLES
  entry_count, doc_count,  \* of the corpus being finalized
  skip_ri, sparse,         \* skip_ri in force; sparse_nnz > 0
  pc,
  mem,       \* heap: content of each block ever allocated; ptr: who points
             \* where; bad: a block was freed twice or used after it was freed
  finalized, finalize_failed,
  ret,       \* result of the last call
  calls

flags == <<entry_count, doc_count, skip_ri, sparse>>
outcome == <<finalized, finalize_failed, ret, calls>>
vars == <<flags, pc, mem, outcome>>

-------------------------------------------------------------------------------
(* Heap operations on the record mem.                                      *)
Live(m, p) == m.ptr[p] # NULL
Content(m, p) == m.heap[m.ptr[p]]

Alloc(m, p, c) ==
  [heap |-> Append(m.heap, c), ptr |-> [m.ptr EXCEPT ![p] = Len(m.heap) + 1], bad |-> m.bad]

Write(m, p, c) ==
  [heap |-> [m.heap EXCEPT ![m.ptr[p]] = c], ptr |-> m.ptr,
   bad |-> m.bad \/ Content(m, p) = "freed"]

(* free of each pointer in S, which is NULL then; NULL is left alone. *)
FreeAll(m, S) ==
  LET held == {p \in S : Live(m, p)}
      blocks == {m.ptr[p] : p \in held}
  IN  [heap |-> [b \in DOMAIN m.heap |-> IF b \in blocks THEN "freed" ELSE m.heap[b]],
       ptr |-> [p \in Pointer |-> IF p \in S THEN NULL ELSE m.ptr[p]],
       bad |-> \/ m.bad
               \/ \E b \in blocks : m.heap[b] = "freed"
               \/ \E p, q \in held : p # q /\ m.ptr[p] = m.ptr[q]]

Free(m, p) == FreeAll(m, {p})

(* The ways calloc or malloc of buffer p can end, with content c. *)
TryAlloc(m, p, c) == {m, Alloc(m, p, c)}

Init ==
  /\ entry_count \in EntryCounts /\ doc_count \in DocCounts
  /\ skip_ri \in BOOLEAN /\ sparse \in BOOLEAN
  /\ pc = "idle"
  /\ mem = Alloc([heap |-> <<>>, ptr |-> [p \in Pointer |-> NULL], bad |-> FALSE],
                 "doc_token_ids", "data")
  /\ finalized = FALSE /\ finalize_failed = FALSE
  /\ ret = 0 /\ calls = 0

-------------------------------------------------------------------------------
FailWith(r) == finalize_failed' = TRUE /\ ret' = r

(* finalize returns -1 after a failure, with finalize_failed set. *)
Fail ==
  /\ pc' = "idle" /\ FailWith(-1)
  /\ UNCHANGED <<flags, finalized, calls>>

GoOn(l) == pc' = l /\ UNCHANGED <<flags, outcome>>

(* Entry: done already, failed before, or nothing to enrich. *)
Call ==
  /\ pc = "idle" /\ calls < MaxCalls
  /\ calls' = calls + 1
  /\ \/ finalized /\ ret' = 0 /\ UNCHANGED <<pc, finalized>>
     \/ ~ finalized /\ finalize_failed /\ ret' = -1 /\ UNCHANGED <<pc, finalized>>
     \/ /\ ~ finalized /\ ~ finalize_failed /\ entry_count = 0
        /\ ret' = 0 /\ finalized' = TRUE /\ UNCHANGED pc
     \/ /\ ~ finalized /\ ~ finalize_failed /\ entry_count > 0
        /\ pc' = "rev" /\ UNCHANGED <<finalized, ret>>
  /\ UNCHANGED <<flags, mem, finalize_failed>>

(* build_reverse_index, which fails as a whole, and src_entries. *)
BuildSources ==
  /\ pc = "rev"
  /\ \E m1 \in TryAlloc(mem, "rev", "data") :
       IF ~ Live(m1, "rev") THEN mem' = m1 /\ Fail
       ELSE \E m2 \in TryAlloc(m1, "src_entries", "zero") :
              IF ~ Live(m2, "src_entries") THEN mem' = Free(m2, "rev") /\ Fail
              ELSE mem' = m2 /\ GoOn("enriched")

(* int8 enriched_vecs_q, or else the float32 enriched_vecs. *)
AllocEnriched ==
  /\ pc = "enriched"
  /\ \/ mem' = Alloc(mem, "enriched_vecs_q", "uninit") /\ GoOn("pass1")
     \/ mem' = Alloc(mem, "enriched_vecs", "zero") /\ GoOn("pass1")
     \/ mem' = FreeAll(mem, Transient) /\ Fail

(* pass1_q, the buffer the int8 pass 1 writes: under skip_ri it is the     *)
(* corpus's own enriched_vecs_q, not to be freed.                          *)
TakePass1(m) ==
  IF skip_ri THEN {[m EXCEPT !.ptr["pass1_q"] = m.ptr["enriched_vecs_q"]]}
  ELSE TryAlloc(m, "pass1_q", "uninit")

HandOff_Alias(m) == m      \* mutant: _pass1_q keeps the alias under skip_ri

(* p->_pass1_q: under skip_ri there is nothing to hand to pass 2. *)
HandOff(m) == IF skip_ri THEN [m EXCEPT !.ptr["pass1_q"] = NULL] ELSE m

(* With enriched_vecs_q pass 1 wants a scratch per worker and pass1_q; when *)
(* one is missing it gives both up for the float32 enriched_vecs, which    *)
(* may be missing too.                                                     *)
Pass1Buffers ==
  LET tried == UNION {TakePass1(m) : m \in TryAlloc(mem, "scratch", "zero")}
      GiveUp(m) == FreeAll(HandOff(m), {"scratch", "pass1_q"})
  IN  IF ~ Live(mem, "enriched_vecs_q") THEN {mem}
      ELSE {m \in tried : Live(m, "scratch") /\ Live(m, "pass1_q")}
           \union UNION {TryAlloc(GiveUp(m), "enriched_vecs", "zero") :
                           m \in {n \in tried : ~ (Live(n, "scratch") /\ Live(n, "pass1_q"))}}

(* finalize_pass1 and its cooccur_worker_sparse. *)
Pass1 ==
  /\ pc = "pass1"
  /\ \E m \in Pass1Buffers :
       \/ /\ Live(m, "pass1_q")
          /\ mem' = HandOff(Free(Write(m, "pass1_q", "pass1"), "scratch"))
          /\ GoOn("pass2")
       \/ /\ ~ Live(m, "pass1_q") /\ Live(m, "enriched_vecs")
          /\ mem' = Write(m, "enriched_vecs", "pass1")
          /\ GoOn("pass2")
       \/ /\ ~ Live(m, "pass1_q") /\ ~ Live(m, "enriched_vecs")
          /\ mem' = FreeAll(m, Enriched \union Transient)
          /\ Fail

(* finalize_pass2, skipped under skip_ri: its source is pass1_q or an int8 *)
(* copy of the float32 pass 1, without which pass 1 is the result.  Then   *)
(* pass1_q is freed.                                                       *)
Pass2 ==
  /\ pc = "pass2"
  /\ LET out == IF Live(mem, "enriched_vecs_q") THEN "enriched_vecs_q"
                ELSE "enriched_vecs"
         results == IF skip_ri THEN {mem}
                    ELSE IF Live(mem, "pass1_q") THEN {Write(mem, out, "blend")}
                    ELSE {mem, Free(Write(Alloc(mem, "local_q", "pass1"), out, "blend"),
                                    "local_q")}
     IN  \E m \in results : mem' = Free(m, "pass1_q")
  /\ GoOn("requantize")

Requantize_KeepStale ==   \* mutant: the stale float32 vectors stay
  /\ pc = "requantize"
  /\ \/ /\ Live(mem, "enriched_vecs") => Live(mem, "enriched_vecs_q")
        /\ mem' = mem
     \/ /\ Live(mem, "enriched_vecs") /\ ~ Live(mem, "enriched_vecs_q")
        /\ mem' \in {mem, Free(Alloc(mem, "enriched_vecs_q", Content(mem, "enriched_vecs")),
                               "enriched_vecs")}
  /\ GoOn("docvec")

(* The float32 vectors are quantized when there are no int8 ones, and      *)
(* dropped when there are.                                                 *)
Requantize ==
  /\ pc = "requantize"
  /\ \/ ~ Live(mem, "enriched_vecs") /\ mem' = mem
     \/ /\ Live(mem, "enriched_vecs") /\ Live(mem, "enriched_vecs_q")
        /\ mem' = Free(mem, "enriched_vecs")
     \/ /\ Live(mem, "enriched_vecs") /\ ~ Live(mem, "enriched_vecs_q")
        /\ \/ mem' = Free(Alloc(mem, "enriched_vecs_q", Content(mem, "enriched_vecs")),
                          "enriched_vecs")
           \/ mem' = mem
  /\ GoOn("docvec")

(* doc_vectors, summed from the enriched vectors (int8 first); doc_idf is  *)
(* freed at once, and without it the weights are uniform.                  *)
BuildDocVectors ==
  /\ pc = "docvec"
  /\ \/ /\ mem' = FreeAll(mem, Enriched \union Transient)
        /\ Fail
     \/ /\ LET src == IF Live(mem, "enriched_vecs_q") THEN "enriched_vecs_q"
                      ELSE "enriched_vecs"
           IN  mem' = Alloc(mem, "doc_vectors", Content(mem, src))
        /\ GoOn("quantize")

DenseBuilt_DocsOnly == DocQ \union {"doc_vectors"}   \* mutant: keeps the vocabulary side

(* What a failed quantization gives back. *)
DenseBuilt == DocQ \union {"doc_vectors"} \union Enriched

(* doc_vectors_q and the inverse magnitudes; the float32 vectors go. *)
QuantizeDocs ==
  /\ pc = "quantize"
  /\ \/ /\ doc_count > 0
        /\ \E m1 \in TryAlloc(mem, "doc_vectors_q", "zero") :
             \E m2 \in TryAlloc(m1, "inv_mag", "zero") :
               IF Live(m2, "doc_vectors_q") /\ Live(m2, "inv_mag")
               THEN /\ mem' = Free(Write(m2, "doc_vectors_q", Content(m2, "doc_vectors")),
                                   "doc_vectors")
                    /\ GoOn("sparse")
               ELSE /\ mem' = FreeAll(m2, DenseBuilt \union Transient)
                    /\ Fail
     \/ doc_count = 0 /\ mem' = Free(mem, "doc_vectors") /\ GoOn("sparse")

(* One side of the sparsification: both arrays, filled from the dense      *)
(* buffer, which is then freed; m as it stands when one of them, or the    *)
(* scratch of fce_sparsify_topk, cannot be had.                            *)
Sparsify(m, idx, val, dense) ==
  LET tried == UNION {TryAlloc(n, val, "uninit") : n \in TryAlloc(m, idx, "uninit")}
      Filled(t) == Write(Write(t, idx, Content(t, dense)), val, Content(t, dense))
  IN  tried \union {Free(Filled(t), dense) :
                       t \in {n \in tried : Live(n, idx) /\ Live(n, val)}}

SparseFailed_Continue(m) == mem' = m /\ GoOn("inverted")   \* mutant: falls through

(* Everything half-built goes and sparse_nnz is reset. *)
SparseFailed(m) ==
  /\ mem' = FreeAll(m, Sparse \union {"enriched_vecs_q"} \union DocQ \union Transient)
  /\ sparse' = FALSE
  /\ pc' = "idle" /\ FailWith(-1)
  /\ UNCHANGED <<entry_count, doc_count, skip_ri, finalized, calls>>

(* Both sides become sparse when both dense int8 buffers exist; a corpus   *)
(* that could not be quantized stays dense.  src_entries and rev go.       *)
SparsifyVectors ==
  /\ pc = "sparse"
  /\ IF sparse /\ Live(mem, "enriched_vecs_q") /\ Live(mem, "doc_vectors_q")
     THEN \E m1 \in Sparsify(mem, "enr_sparse_idx", "enr_sparse_val", "enriched_vecs_q") :
            IF Live(m1, "enriched_vecs_q") THEN SparseFailed(m1)
            ELSE \E m2 \in Sparsify(m1, "doc_sparse_idx", "doc_sparse_val", "doc_vectors_q") :
                   IF Live(m2, "doc_vectors_q") THEN SparseFailed(m2)
                   ELSE /\ mem' = FreeAll(m2, Transient)
                        /\ GoOn("inverted")
     ELSE mem' = FreeAll(mem, Transient) /\ GoOn("inverted")

(* The inverted index is optional: FCE_SEM_SKIP_INV_INDEX, or a failed     *)
(* allocation at any depth, leaves the corpus without one.                 *)
InvertedIndexes ==
  LET occ == TryAlloc(mem, "occ_counts", "zero")
      tmp == UNION {IF Live(m, "occ_counts") THEN TryAlloc(m, "tmp_ids", "uninit")
                    ELSE {m} : m \in occ}
      cur == UNION {IF Live(m, "tmp_ids") THEN TryAlloc(m, "cursor", "data")
                    ELSE {m} : m \in tmp}
      inv == UNION {IF Live(m, "cursor")
                    THEN UNION {TryAlloc(n, "inv_doc_ids", "data") :
                                  n \in TryAlloc(m, "inv_offsets", "data")}
                    ELSE {m} : m \in cur}
  IN  {FreeAll(IF Live(m, "inv_offsets") /\ Live(m, "inv_doc_ids") THEN m
               ELSE FreeAll(m, InvIndex),
               {"cursor", "tmp_ids", "occ_counts"}) : m \in inv}

(* The inverted index is built from the token lists, which are then freed; *)
(* the corpus is final.                                                    *)
Finish ==
  /\ pc = "inverted"
  /\ \E m \in {mem} \union InvertedIndexes : mem' = Free(m, "doc_token_ids")
  /\ pc' = "idle" /\ finalized' = TRUE /\ ret' = 0
  /\ UNCHANGED <<flags, finalize_failed, calls>>

(* fce_sem_corpus_free, at any time between calls. *)
FreeCorpus ==
  /\ pc = "idle"
  /\ mem' = FreeAll(mem, Attached)
  /\ pc' = "gone"
  /\ UNCHANGED <<flags, outcome>>

Next == Call \/ BuildSources \/ AllocEnriched \/ Pass1 \/ Pass2 \/ Requantize
        \/ BuildDocVectors \/ QuantizeDocs \/ SparsifyVectors \/ Finish \/ FreeCorpus

Spec == Init /\ [][Next]_vars

-------------------------------------------------------------------------------
(* No block is freed twice or written after it was freed, although pass1_q *)
(* aliases enriched_vecs_q under skip_ri.                                  *)
NoBadFree == ~ mem.bad

LiveBlocks == {b \in 1 .. Len(mem.heap) : mem.heap[b] # "freed"}
Owned == {mem.ptr[p] : p \in Attached}

(* Between calls every block that is still allocated belongs to the corpus, *)
(* so nothing finalize allocated outlives fce_sem_corpus_free, whichever   *)
(* failure it met; and the corpus points to no freed block.  "must NOT     *)
(* call finalize again on the same handle (retry leaks memory)"            *)
(* (semantic.h 303) is of an earlier version: the second call returns -1   *)
(* at once, and a run with two calls shows that nothing leaks.             *)
NoLeak ==
  /\ pc = "idle" => LiveBlocks = Owned \ {NULL}
  /\ pc = "gone" => LiveBlocks = {}

(* A finalized corpus has exactly one document representation, with its    *)
(* magnitudes, and exactly one enriched representation: the assertion at   *)
(* the end of finalize, and what save and the scorers choose by.           *)
ExactlyOneRepresentation ==
  pc = "idle" /\ finalized /\ entry_count > 0 =>
    /\ Cardinality({p \in {"enriched_vecs", "enriched_vecs_q", "enr_sparse_idx"} :
                      Live(mem, p)}) = 1
    /\ Live(mem, "enr_sparse_idx") <=> Live(mem, "enr_sparse_val")
    /\ Live(mem, "doc_sparse_idx") <=> Live(mem, "doc_sparse_val")
    /\ doc_count > 0 =>
         /\ Live(mem, "doc_vectors_q") # Live(mem, "doc_sparse_idx")
         /\ Live(mem, "inv_mag")
    /\ ~ Live(mem, "doc_vectors")
    /\ Live(mem, "inv_offsets") <=> Live(mem, "inv_doc_ids")

(* A finalize that failed has given back everything it built, as the       *)
(* comments in the code want it ("free enrichment arrays to make retry     *)
(* safe", "on a multi-GB vocabulary"), and keeps the documents for         *)
(* fce_sem_corpus_free.  The header says the opposite: see                 *)
(* BuffersLeftAttached.                                                    *)
FailureGivesBack ==
  pc = "idle" /\ finalize_failed =>
    /\ \A p \in Attached \ {"doc_token_ids"} : ~ Live(mem, p)
    /\ Live(mem, "doc_token_ids")
    /\ ~ finalized

(* "On failure the corpus is NOT marked finalized and internal buffers     *)
(* allocated before the failure are left attached" (semantic.h 301, of     *)
(* finalize): whatever the corpus points to when a phase begins it still   *)
(* points to when that phase has failed.  The code does not do that: each  *)
(* failing exit frees what the earlier phases built.                       *)
BuffersLeftAttached ==
  [][finalize_failed' /\ ~ finalize_failed =>
       \A p \in Attached : Live(mem, p) => Live(mem', p)]_vars

(* The doc vectors are built from the very enriched vectors the corpus     *)
(* keeps for its queries, not from those of an earlier pass.               *)
DocsMatchEnriched ==
  pc = "idle" /\ finalized /\ entry_count > 0 /\ doc_count > 0 =>
    \A e \in {"enriched_vecs", "enriched_vecs_q", "enr_sparse_val"} :
      \A d \in {"doc_vectors_q", "doc_sparse_val"} :
        Live(mem, e) /\ Live(mem, d) => Content(mem, e) = Content(mem, d)

(* "pass1 already wrote the final enriched_vecs_q (or the float32          *)
(* fallback)", "using pass1 result": the vectors a finalized corpus keeps  *)
(* were computed by pass 1 or both passes.                                 *)
VectorsComputed ==
  pc = "idle" /\ finalized =>
    \A p \in {"enriched_vecs", "enriched_vecs_q", "enr_sparse_val",
              "doc_vectors_q", "doc_sparse_val"} :
      Live(mem, p) => Content(mem, p) \in {"pass1", "blend"}
-------------------------------------------------------------------------------
(* The inductive invariant of the proofs.                                  *)
Contents == {"freed", "uninit", "zero", "pass1", "blend", "data"}
Memory == [heap : Seq(Contents), ptr : [Pointer -> Nat], bad : BOOLEAN]

Held(m) == {p \in Pointer : Live(m, p)}

(* Who holds a block holds it alone, and it was not freed; a block nobody  *)
(* holds was.                                                              *)
Sound(m) ==
  /\ m \in Memory /\ ~ m.bad
  /\ \A p \in Held(m) : m.ptr[p] \in 1 .. Len(m.heap) /\ Content(m, p) # "freed"
  /\ \A p, q \in Held(m) : m.ptr[p] = m.ptr[q] => p = q
  /\ \A b \in 1 .. Len(m.heap) : m.heap[b] # "freed" => \E p \in Held(m) : m.ptr[p] = b

Building == {"doc_token_ids"} \union Transient

(* The forms the two sides may have when the vectors are built.            *)
EnrichedForms ==
  {{"enriched_vecs"}, {"enriched_vecs_q"}, {"enr_sparse_idx", "enr_sparse_val"}}
DocForms ==
  IF doc_count = 0 THEN {{}} ELSE {DocQ, {"inv_mag", "doc_sparse_idx", "doc_sparse_val"}}

SidesAgree(m) ==
  \A e \in Enriched \union {"enr_sparse_val"}, d \in {"doc_vectors", "doc_vectors_q", "doc_sparse_val"} :
    e \in Held(m) /\ d \in Held(m) => Content(m, e) = Content(m, d)

(* What is held between two phases.                                        *)
Stage(l, H) ==
  \/ l \in {"idle", "rev"} /\ H = {"doc_token_ids"}
  \/ l = "enriched" /\ H = Building
  \/ l = "pass1" /\ \E e \in Enriched : H = Building \union {e}
  \/ l = "pass2" /\ \E S \in {{"enriched_vecs"}, {"enriched_vecs_q"}, Enriched,
                              {"enriched_vecs_q", "pass1_q"}} : H = Building \union S
  \/ l = "requantize" /\ \E S \in {{"enriched_vecs"}, {"enriched_vecs_q"}, Enriched} :
                             H = Building \union S
  \/ l = "docvec" /\ \E e \in Enriched : H = Building \union {e}
  \/ l = "quantize" /\ \E e \in Enriched : H = Building \union {e, "doc_vectors"}
  \/ /\ l = "sparse"
     /\ \E e \in Enriched : H = Building \union {e} \union (IF doc_count = 0 THEN {} ELSE DocQ)
  \/ /\ l = "inverted"
     /\ \E E \in EnrichedForms, D \in DocForms : H = {"doc_token_ids"} \union E \union D
  \/ /\ l = "final"
     /\ \E E \in EnrichedForms, D \in DocForms, I \in {{}, InvIndex} : H = E \union D \union I
  \/ l = "gone" /\ H = {}

stage == IF pc = "idle" /\ finalized /\ entry_count > 0 THEN "final" ELSE pc

TypeOK ==
  /\ entry_count \in Nat /\ doc_count \in Nat
  /\ pc \in {"idle", "rev", "enriched", "pass1", "pass2", "requantize", "docvec",
            "quantize", "sparse", "inverted", "gone"}
  /\ finalized \in BOOLEAN /\ finalize_failed \in BOOLEAN

IInv ==
  /\ TypeOK /\ Sound(mem) /\ Stage(stage, Held(mem))
  /\ stage \in {"quantize", "sparse", "inverted", "final"} => SidesAgree(mem)
  /\ finalized => ~ finalize_failed
  /\ pc \notin {"idle", "gone"} => entry_count > 0 /\ ~ finalized /\ ~ finalize_failed
===============================================================================
