-------------------------------- MODULE Corpus --------------------------------
(***************************************************************************)
(* The corpus under construction (src/semantic/semantic.c): the vocabulary *)
(* (entries[], token_map, doc_freq), the documents (doc_token_ids[]), and  *)
(* the two ways to add to it, fce_sem_corpus_add_doc and                   *)
(* fce_sem_corpus_add_docs_batch.  Every allocation may fail.  The calls   *)
(* of one corpus are sequential (semantic.h), but Phase B of a batch runs  *)
(* batch_resolve_worker in parallel; fce_parallel_for runs each worker     *)
(* once and returns when all have (module WorkerPool).                     *)
(*                                                                         *)
(* The corpus is not finalized yet: on a finalized one both calls return   *)
(* at entry.  token_map is the hash table seen as a map (module HashTable);*)
(* the rebuild of a rollback cannot fail, because fce_ht_clear keeps the   *)
(* capacity the same keys had needed.                                      *)
(***************************************************************************)
EXTENDS Integers, Sequences, FiniteSets, SequencesExt

CONSTANTS
  Token,        \* token strings
  NoToken,      \* a NULL element of a token array
  Null,         \* a NULL slot of doc_token_ids
  Garbage,      \* a slot of memory realloc returned, never written
  Docs,         \* token arrays callers pass to add_doc
  Batches,      \* sequences of token arrays callers pass to add_docs_batch
  Workers,      \* indices of the resolve workers, fce_default_worker_count
  Chunk,        \* FCE_SEM_RESOLVE_CHUNK
  SeenInitCap,  \* FCE_SEM_SEEN_INIT_CAP
  InitDocCap,   \* FCE_DOC_TOKENS_INIT
  MaxTokens,    \* FCE_SEM_MAX_TOKENS
  MaxEntries,   \* FCE_SEM_MAX_ENTRY_COUNT
  MaxDocs,      \* FCE_SEM_MAX_DOC_COUNT
  MaxCalls      \* bound on the calls of one run

NotFound == -1

ASSUME TokensAssumption ==
  /\ NoToken \notin Token
  /\ Docs \subseteq Seq(Token \union {NoToken})
  /\ Batches \subseteq Seq(Seq(Token \union {NoToken}))
ASSUME NullAssumption == Null # Garbage /\ Null \notin Seq(Int) /\ Garbage \notin Seq(Int)
ASSUME CapsAssumption ==
  /\ {Chunk, SeenInitCap, InitDocCap, MaxTokens} \subseteq Nat \ {0}
  /\ {MaxEntries, MaxDocs, MaxCalls} \subseteq Nat

VARIABLES
  entries,     \* entries[i].token; the length is entry_count
  doc_freq,    \* entries[i].doc_freq, by id, stale at entry_count and above
  token_map,   \* token_map[t] id of t, or NotFound
  slot,        \* doc_token_ids[d]: Null, Garbage or a sequence of ids
  doc_count, doc_cap,
  \* the call in progress
  pc,          \* where the calling thread stands
  batch,       \* the documents of the call
  at,          \* document of the call the sequential path is at
  todo,        \* tokens still to be looked up by the calling thread
  doc_map,     \* local doc_map of the batch, by position in batch
  map_out,     \* the caller's doc_map_out
  base_doc,    \* doc_count before the batch
  freq,        \* doc_freq_atomic
  next_idx, error,
  wpc, wrange, wcap,   \* per worker: place, rest of its chunk, local_seen_cap
  \* history
  source,      \* source[d] the tokens slot d was built from
  before,      \* what the corpus held before the batch
  calls        \* number of calls made

corpus == <<entries, doc_freq, token_map, slot, doc_count, doc_cap>>
work == <<freq, next_idx, error, wpc, wrange, wcap>>
vars == <<corpus, pc, batch, at, todo, doc_map, map_out, base_doc, work,
          source, before, calls>>

-------------------------------------------------------------------------------
Ids == 0 .. MaxEntries - 1
Slots == 0 .. MaxDocs - 1
entry_count == Len(entries)

(* The token count both calls accept: at least one, at most the cap. *)
Accepted(doc) == Len(doc) \in 1 .. MaxTokens

Lookup(t) == IF t = NoToken THEN NotFound ELSE token_map[t]

HasToken(s, id) == s # Null /\ s # Garbage /\ id \in ToSet(s)

Init ==
  /\ entries = <<>> /\ doc_freq = [i \in Ids |-> 0]
  /\ token_map = [t \in Token |-> NotFound]
  /\ slot = [d \in Slots |-> Garbage] /\ doc_count = 0 /\ doc_cap = 0
  /\ pc = "idle" /\ batch = <<>> /\ at = 1 /\ todo = <<>>
  /\ doc_map = <<>> /\ map_out = <<>> /\ base_doc = 0
  /\ freq = [i \in Ids |-> 0] /\ next_idx = 0 /\ error = FALSE
  /\ wpc = [w \in Workers |-> "done"]
  /\ wrange = [w \in Workers |-> <<0, 0>>]
  /\ wcap = [w \in Workers |-> SeenInitCap]
  /\ source = [d \in Slots |-> <<>>]
  /\ before = [entries |-> <<>>, doc_freq |-> doc_freq, slot |-> slot, docs |-> 0]
  /\ calls = 0

(* fce_corpus_get_or_add returns id: the token is found; or it is NULL, or *)
(* beyond the vocabulary cap, or an allocation fails (realloc of entries,  *)
(* strdup, the growth of the table), and nothing changes; or it is new.    *)
GetOrAdd(t, id) ==
  \/ id = Lookup(t) /\ UNCHANGED <<entries, token_map>>
  \/ /\ t # NoToken /\ token_map[t] = NotFound /\ entry_count < MaxEntries
     /\ id = entry_count
     /\ entries' = Append(entries, t)
     /\ token_map' = [token_map EXCEPT ![t] = id]

(* doc_freq of the entry GetOrAdd returned; a new entry starts at zero. *)
FreqOf(id) == IF id = entry_count THEN 0 ELSE doc_freq[id]

-------------------------------------------------------------------------------
(* fce_sem_corpus_add_doc, also run per document by the fallback of a      *)
(* batch; documents it does not accept are skipped in both cases.          *)
CallAddDoc(doc) ==
  /\ pc = "idle" /\ calls < MaxCalls
  /\ calls' = calls + 1
  /\ pc' = "add" /\ batch' = <<doc>> /\ at' = 1
  /\ map_out' = <<>>
  /\ UNCHANGED <<corpus, todo, doc_map, base_doc, work, source, before>>

(* The document is not added: it has too few or too many tokens, the doc   *)
(* cap is reached, or an allocation fails; a slot whose ids or scratch     *)
(* could not be allocated is left NULL.                                    *)
SkipDoc ==
  /\ pc = "add" /\ at <= Len(batch)
  /\ \/ /\ ~ Accepted(batch[at]) \/ doc_count >= MaxDocs \/ doc_count >= doc_cap
        /\ UNCHANGED <<slot, doc_cap>>
     \/ /\ Accepted(batch[at]) /\ doc_count < MaxDocs
        /\ slot' = [slot EXCEPT ![doc_count] = Null]
        /\ doc_cap' = IF doc_count < doc_cap THEN doc_cap
                      ELSE IF doc_cap < InitDocCap THEN InitDocCap ELSE doc_cap * 2
  /\ at' = at + 1
  /\ UNCHANGED <<entries, doc_freq, token_map, doc_count, pc, batch, todo,
                 doc_map, map_out, base_doc, work, source, before, calls>>

(* Room for the document: its slot is claimed and its tokens are next. *)
StartDoc ==
  /\ pc = "add" /\ at <= Len(batch)
  /\ Accepted(batch[at]) /\ doc_count < MaxDocs
  /\ doc_cap' = IF doc_count < doc_cap THEN doc_cap
                ELSE IF doc_cap < InitDocCap THEN InitDocCap ELSE doc_cap * 2
  /\ slot' = [slot EXCEPT ![doc_count] = <<>>]
  /\ source' = [source EXCEPT ![doc_count] = batch[at]]
  /\ doc_count' = doc_count + 1
  /\ pc' = "tokens" /\ todo' = batch[at]
  /\ UNCHANGED <<entries, doc_freq, token_map, batch, at, doc_map, map_out,
                 base_doc, work, before, calls>>

NewInDoc_Always(id) == TRUE   \* mutant: the scan of seen[] is lost

(* The linear scan of seen[]: id was not met before in this document. *)
NewInDoc(id) == ~ HasToken(slot[doc_count - 1], id)

(* One token: its id is stored and its doc_freq counts this document once. *)
AddToken ==
  /\ pc = "tokens" /\ todo # <<>>
  /\ \E id \in Ids \union {NotFound} :
        /\ GetOrAdd(Head(todo), id)
        /\ slot' = [slot EXCEPT ![doc_count - 1] = Append(@, id)]
        /\ doc_freq' = IF id = NotFound \/ ~ NewInDoc(id) THEN doc_freq
                       ELSE [doc_freq EXCEPT ![id] = FreqOf(id) + 1]
  /\ todo' = Tail(todo)
  /\ UNCHANGED <<doc_count, doc_cap, pc, batch, at, doc_map, map_out, base_doc,
                 work, source, before, calls>>

EndDoc ==
  /\ pc = "tokens" /\ todo = <<>>
  /\ pc' = "add" /\ at' = at + 1
  /\ UNCHANGED <<corpus, batch, todo, doc_map, map_out, base_doc, work, source,
                 before, calls>>

AddReturn ==
  /\ pc = "add" /\ at > Len(batch)
  /\ pc' = "idle"
  /\ UNCHANGED <<corpus, batch, at, todo, doc_map, map_out, base_doc, work,
                 source, before, calls>>

-------------------------------------------------------------------------------
(* fce_sem_corpus_add_docs_batch.                                          *)

(* The positions of b with a valid document, their number, and the local   *)
(* doc_map: a valid document is numbered by those before it.               *)
Valid(b) == {j \in DOMAIN b : Accepted(b[j])}
ValidCount(b) == Cardinality(Valid(b))
DocMap(b) ==
  [j \in 1 .. Len(b) |->
     IF Accepted(b[j]) THEN Cardinality({i \in Valid(b) : i < j}) ELSE NotFound]

(* The document of b that doc_map numbers k. *)
DocNumbered(b, k) == b[CHOOSE j \in Valid(b) : DocMap(b)[j] = k]

(* invalidate_doc_map *)
Invalid(b) == [j \in 1 .. Len(b) |-> NotFound]

(* n more documents stay within the doc cap. *)
Fits(n) == doc_count <= MaxDocs - n

ZeroedSlots_GrowthOnly(n) ==   \* mutant: slots the array already had keep their value
  doc_cap .. doc_count + n - 1

(* The slots a batch of n documents zeroes, whether the arrays grew or not. *)
ZeroedSlots(n) == doc_count .. doc_count + n - 1

(* A batch that adds nothing: max_tokens_per_doc is out of range or the    *)
(* malloc of doc_map failed (doc_map_out is left as the caller passed it,  *)
(* here <<>>); no document is valid; it would pass the doc cap; or the     *)
(* arrays could not grow.                                                  *)
RejectBatch(b) ==
  /\ pc = "idle" /\ calls < MaxCalls
  /\ \/ map_out' = <<>>
     \/ ValidCount(b) = 0 /\ map_out' = DocMap(b)
     \/ /\ ValidCount(b) > 0
        /\ ~ Fits(ValidCount(b)) \/ doc_cap < doc_count + ValidCount(b)
        /\ map_out' = Invalid(b)
  /\ calls' = calls + 1 /\ batch' = b
  /\ UNCHANGED <<corpus, pc, at, todo, doc_map, base_doc, work, source, before>>

(* The slots of the valid documents are claimed and zeroed; Phase A is     *)
(* next.                                                                   *)
BatchBegin(b) ==
  LET n == ValidCount(b) IN
  /\ pc = "idle" /\ calls < MaxCalls
  /\ n > 0 /\ Fits(n)
  /\ doc_cap' = IF doc_cap < doc_count + n THEN doc_count + n ELSE doc_cap
  /\ doc_count' = doc_count + n
  /\ slot' = [d \in Slots |->
                IF d \in ZeroedSlots(n) THEN Null ELSE slot[d]]
  /\ source' = [d \in Slots |->
                  IF d \in doc_count .. doc_count' - 1
                  THEN DocNumbered(b, d - doc_count) ELSE source[d]]
  /\ calls' = calls + 1 /\ batch' = b
  /\ pc' = "insert" /\ at' = 1 /\ todo' = <<>>
  /\ doc_map' = DocMap(b) /\ map_out' = DocMap(b)
  /\ base_doc' = doc_count
  /\ before' = [entries |-> entries, doc_freq |-> doc_freq, slot |-> slot,
                docs |-> doc_count]
  /\ UNCHANGED <<entries, doc_freq, token_map, work>>

(* Phase A, the next document; those that are not valid are passed over.   *)
InsertDoc ==
  /\ pc = "insert" /\ todo = <<>> /\ at <= Len(batch)
  /\ todo' = IF doc_map[at] < 0 THEN <<>> ELSE batch[at]
  /\ at' = at + 1
  /\ UNCHANGED <<corpus, pc, batch, doc_map, map_out, base_doc, work, source, before, calls>>

(* Phase A, one token: new ones enter the vocabulary with doc_freq zero. *)
InsertToken ==
  /\ pc = "insert" /\ todo # <<>>
  /\ \E id \in Ids \union {NotFound} :
        /\ GetOrAdd(Head(todo), id)
        /\ doc_freq' = IF id = NotFound THEN doc_freq
                       ELSE [doc_freq EXCEPT ![id] = FreqOf(id)]
  /\ todo' = Tail(todo)
  /\ UNCHANGED <<slot, doc_count, doc_cap, pc, batch, at, doc_map, map_out,
                 base_doc, work, source, before, calls>>

Fallback_KeepMap ==   \* mutant: doc_map_out is not invalidated
  /\ pc = "insert" /\ todo = <<>> /\ at > Len(batch)
  /\ doc_count' = base_doc
  /\ pc' = "add" /\ at' = 1
  /\ UNCHANGED <<entries, doc_freq, token_map, slot, doc_cap, batch, todo,
                 doc_map, map_out, base_doc, work, source, before, calls>>

(* The counters cannot be allocated: the documents are added one by one.   *)
Fallback ==
  /\ pc = "insert" /\ todo = <<>> /\ at > Len(batch)
  /\ map_out' = Invalid(batch)
  /\ doc_count' = base_doc
  /\ pc' = "add" /\ at' = 1
  /\ UNCHANGED <<entries, doc_freq, token_map, slot, doc_cap, batch, todo,
                 doc_map, base_doc, work, source, before, calls>>

StartResolve ==
  /\ pc = "insert" /\ todo = <<>> /\ at > Len(batch)
  /\ pc' = "resolve"
  /\ freq' = [i \in Ids |-> 0] /\ next_idx' = 0 /\ error' = FALSE
  /\ wpc' = [w \in Workers |-> "start"]
  /\ UNCHANGED <<corpus, batch, at, todo, doc_map, map_out, base_doc, wrange,
                 wcap, source, before, calls>>

caller == <<corpus, pc, batch, at, todo, doc_map, map_out, base_doc, source,
            before, calls>>

WorkerGoto(w, l) == wpc' = [wpc EXCEPT ![w] = l]

(* A worker allocates its scratch array or reports the failure. *)
WorkerStart(w) ==
  /\ pc = "resolve" /\ wpc[w] = "start"
  /\ wcap' = [wcap EXCEPT ![w] = SeenInitCap]
  /\ \/ WorkerGoto(w, "claim") /\ UNCHANGED error
     \/ WorkerGoto(w, "done") /\ error' = TRUE
  /\ UNCHANGED <<caller, freq, next_idx, wrange>>

(* next_idx after atomic_fetch_add *)
NextIdx == next_idx + Chunk

(* The next chunk of documents is claimed, or none is left. *)
WorkerClaim(w) ==
  /\ pc = "resolve" /\ wpc[w] = "claim"
  /\ next_idx' = NextIdx
  /\ IF next_idx >= Len(batch)
     THEN WorkerGoto(w, "done") /\ UNCHANGED wrange
     ELSE /\ WorkerGoto(w, "docs")
          /\ wrange' = [wrange EXCEPT ![w] =
               <<next_idx, IF next_idx' < Len(batch) THEN next_idx' ELSE Len(batch)>>]
  /\ UNCHANGED <<caller, freq, error, wcap>>

(* The current document of worker w, counted from zero. *)
Current(w) == wrange[w][1]

AdvanceDoc(w) ==
  /\ wrange' = [wrange EXCEPT ![w][1] = @ + 1]
  /\ WorkerGoto(w, IF Current(w) + 1 < wrange[w][2] THEN "docs" ELSE "claim")

(* The worker stops: another one failed, or its scratch cannot grow.       *)
WorkerStop(w) ==
  /\ pc = "resolve" /\ wpc[w] = "docs"
  /\ \/ error
     \/ doc_map[Current(w) + 1] >= 0 /\ Len(batch[Current(w) + 1]) > wcap[w]
  /\ error' = TRUE
  /\ WorkerGoto(w, "done")
  /\ UNCHANGED <<caller, freq, next_idx, wrange, wcap>>

(* A rejected document is passed over. *)
WorkerSkip(w) ==
  /\ pc = "resolve" /\ wpc[w] = "docs" /\ ~ error
  /\ doc_map[Current(w) + 1] < 0
  /\ AdvanceDoc(w)
  /\ UNCHANGED <<caller, freq, next_idx, error, wcap>>

SlotOf_Uncompacted(j) == base_doc + j - 1   \* mutant: rejected documents count

(* array_idx: the slot of the document at position j of the batch. *)
SlotOf(j) == base_doc + doc_map[j]

(* batch_resolve_one_doc: the ids of the document go to its compacted slot *)
(* and each distinct token is counted once; when the ids cannot be         *)
(* allocated the slot stays empty and nothing is reported.                 *)
WorkerResolve(w) ==
  LET doc == batch[Current(w) + 1]
      d == SlotOf(Current(w) + 1)
      ids == [i \in 1 .. Len(doc) |-> Lookup(doc[i])]
  IN
  /\ pc = "resolve" /\ wpc[w] = "docs" /\ ~ error
  /\ doc_map[Current(w) + 1] >= 0
  /\ wcap' = [wcap EXCEPT ![w] = IF Len(doc) > @ THEN Len(doc) ELSE @]
  /\ \/ slot' = [slot EXCEPT ![d] = Null] /\ UNCHANGED freq
     \/ /\ slot' = [slot EXCEPT ![d] = ids]
        /\ freq' = [i \in Ids |-> IF HasToken(ids, i) THEN freq[i] + 1 ELSE freq[i]]
  /\ AdvanceDoc(w)
  /\ UNCHANGED <<entries, doc_freq, token_map, doc_count, doc_cap, pc, batch, at,
                 todo, doc_map, map_out, base_doc, source, before, calls,
                 next_idx, error>>

AllDone == \A w \in Workers : wpc[w] = "done"

CutEntries_Keep == entries        \* mutant: the Phase A inserts are not undone

(* entries[] cut back to base_entry_count. *)
CutEntries == SubSeq(entries, 1, Len(before.entries))

RebuiltMap_Stale == token_map     \* mutant: the table is not cleared

(* token_map cleared and refilled from the entries that are kept. *)
RebuiltMap ==
  [t \in Token |-> IF token_map[t] < Len(CutEntries) THEN token_map[t] ELSE NotFound]

(* A worker failed: the documents of the batch are freed and its tokens    *)
(* leave the vocabulary.                                                   *)
Rollback ==
  /\ pc = "resolve" /\ AllDone /\ error
  /\ slot' = [d \in Slots |-> IF d \in base_doc .. doc_count - 1 THEN Null ELSE slot[d]]
  /\ doc_count' = base_doc
  /\ entries' = CutEntries
  /\ token_map' = RebuiltMap
  /\ map_out' = Invalid(batch)
  /\ pc' = "idle"
  /\ UNCHANGED <<doc_freq, doc_cap, batch, at, todo, doc_map, base_doc, work,
                 source, before, calls>>

(* Phase C: the counters are added to the entries. *)
Commit ==
  /\ pc = "resolve" /\ AllDone /\ ~ error
  /\ doc_freq' = [i \in Ids |-> IF i < entry_count THEN doc_freq[i] + freq[i]
                                ELSE doc_freq[i]]
  /\ pc' = "idle"
  /\ UNCHANGED <<entries, token_map, slot, doc_count, doc_cap, batch, at, todo,
                 doc_map, map_out, base_doc, work, source, before, calls>>

CallerStep == SkipDoc \/ StartDoc \/ AddToken \/ EndDoc \/ AddReturn
              \/ InsertDoc \/ InsertToken \/ Fallback \/ StartResolve \/ Rollback \/ Commit

WorkerStep(w) == WorkerStart(w) \/ WorkerClaim(w) \/ WorkerStop(w)
                 \/ WorkerSkip(w) \/ WorkerResolve(w)

Next ==
  \/ \E doc \in Docs : CallAddDoc(doc)
  \/ \E b \in Batches : RejectBatch(b) \/ BatchBegin(b)
  \/ CallerStep
  \/ \E w \in Workers : WorkerStep(w)

(* A call that is in progress goes on; no call needs to be made.           *)
Spec == Init /\ [][Next]_vars /\ WF_vars(CallerStep)
             /\ \A w \in Workers : WF_vars(WorkerStep(w))

-------------------------------------------------------------------------------
(* The table and entries[] describe the same numbering of the same tokens  *)
(* at every step, through failed inserts and rollbacks: a token found has  *)
(* the id of its entry, and every entry is found.                          *)
VocabularyConsistent ==
  /\ \A t \in Token : token_map[t] # NotFound =>
        token_map[t] < entry_count /\ entries[token_map[t] + 1] = t
  /\ \A i \in 1 .. entry_count : token_map[entries[i]] = i - 1

(* Between calls doc_freq of an entry is the number of documents that      *)
(* contain it, whichever mix of add_doc, batch, fallback and rollback      *)
(* built them: it is what IDF is computed from.                            *)
DocFreqExact ==
  pc = "idle" =>
    \A i \in 0 .. entry_count - 1 :
      doc_freq[i] = Cardinality({d \in 0 .. doc_count - 1 : HasToken(slot[d], i)})

(* The ids of a document name the tokens it was built from: an id that is  *)
(* not NotFound points to the entry of the token at that place, never to a *)
(* rolled-back entry or to another document's tokens.                      *)
DocsFaithful ==
  pc = "idle" =>
    \A d \in 0 .. doc_count - 1 :
      slot[d] # Null =>
        /\ Len(slot[d]) = Len(source[d])
        /\ \A i \in DOMAIN slot[d] :
             slot[d][i] # NotFound =>
               slot[d][i] < entry_count /\ entries[slot[d][i] + 1] = source[d][i]

(* The documents fit the arrays and the caps, and no slot of theirs holds  *)
(* memory nobody wrote: the free() calls of a rollback and of              *)
(* fce_sem_corpus_free see NULL or a live block.                           *)
SlotsWritten ==
  /\ entry_count <= MaxEntries /\ doc_count <= MaxDocs /\ doc_count <= doc_cap
  /\ \A d \in 0 .. doc_count - 1 : slot[d] # Garbage

(* A position the caller gets in doc_map_out is the place, past the        *)
(* documents it had before, of the very document it passed: JNI attaches   *)
(* labels by it.                                                           *)
DocMapSound ==
  pc = "idle" =>
    \A j \in DOMAIN map_out :
      map_out[j] >= 0 =>
        /\ base_doc + map_out[j] < doc_count
        /\ source[base_doc + map_out[j]] = batch[j]

(* A batch whose worker failed leaves no trace: documents, vocabulary and  *)
(* doc_freq are what they were, so no entry is left without a document.    *)
RollbackRestores ==
  [][pc = "resolve" /\ pc' = "idle" /\ error =>
       /\ entries' = before.entries /\ doc_count' = before.docs
       /\ \A i \in 0 .. Len(entries') - 1 : doc_freq'[i] = before.doc_freq[i]
       /\ \A d \in 0 .. doc_count' - 1 : slot'[d] = before.slot[d]]_vars

(* "every rejection/rollback path leaves a consistent 'nothing accepted'   *)
(* map" (invalidate_doc_map): a batch that is rejected has filled the      *)
(* caller's doc_map_out.                                                   *)
RejectedMapFilled ==
  [][pc = "idle" /\ pc' = "idle" /\ calls' > calls =>
       Len(map_out') = Len(batch')]_vars

(* "error: set to 1 on OOM" (batch_resolve_ctx_t): a batch that commits    *)
(* has ids for each of its documents.                                      *)
CommitIsComplete ==
  [][pc = "resolve" /\ pc' = "idle" /\ ~ error =>
       \A d \in base_doc .. doc_count - 1 : slot[d] # Null]_vars

-------------------------------------------------------------------------------
(* The inductive invariant of the proofs.                                  *)
Doc == Seq(Token \union {NoToken})
IdList == Seq(Ids \union {NotFound})
Batching == pc \in {"insert", "resolve"}

TypeOK ==
  /\ entries \in Seq(Token) /\ doc_freq \in [Ids -> Int]
  /\ token_map \in [Token -> Ids \union {NotFound}]
  /\ slot \in [Slots -> {Null, Garbage} \union IdList]
  /\ doc_count \in Nat /\ doc_cap \in Nat
  /\ pc \in {"idle", "add", "tokens", "insert", "resolve"}
  /\ batch \in Seq(Doc) /\ at \in Nat \ {0} /\ todo \in Doc
  /\ base_doc \in Nat /\ next_idx \in Nat /\ error \in BOOLEAN
  /\ freq \in [Ids -> Nat]
  /\ wpc \in [Workers -> {"start", "claim", "docs", "done"}]
  /\ wrange \in [Workers -> Nat \X Nat]
  /\ source \in [Slots -> Doc]

(* Slot d holds ids of the tokens it was built from.                       *)
Faithful(d) ==
  slot[d] # Null =>
    /\ Len(slot[d]) = Len(source[d])
    /\ \A i \in DOMAIN slot[d] :
         slot[d][i] # NotFound =>
           slot[d][i] < entry_count /\ entries[slot[d][i] + 1] = source[d][i]

(* The document add_doc is at holds the ids of the tokens looked up so far.*)
Partial(d) ==
  /\ slot[d] # Null /\ Len(slot[d]) + Len(todo) = Len(source[d])
  /\ \A i \in DOMAIN slot[d] :
       slot[d][i] # NotFound =>
         slot[d][i] < entry_count /\ entries[slot[d][i] + 1] = source[d][i]
  /\ \A i \in DOMAIN todo : todo[i] = source[d][Len(slot[d]) + i]

DocsInv ==
  /\ pc = "tokens" => doc_count > 0 /\ Partial(doc_count - 1)
  /\ \A d \in 0 .. doc_count - 1 : (pc = "tokens" => d # doc_count - 1) => Faithful(d)

(* Position j of a batch is not resolved: nobody claimed it yet, or it is  *)
(* in the rest of a worker's chunk.                                        *)
Pending(j) ==
  j > next_idx \/ \E w \in Workers : wpc[w] = "docs" /\ wrange[w][1] < j /\ j <= wrange[w][2]

(* The workers have chunks of their own.                                   *)
RangesInv ==
  pc = "resolve" =>
    /\ \A w \in Workers : wpc[w] = "docs" =>
         wrange[w][1] < wrange[w][2] /\ wrange[w][2] <= next_idx /\ wrange[w][2] <= Len(batch)
    /\ \A w, v \in Workers : w # v /\ wpc[w] = "docs" /\ wpc[v] = "docs" =>
         wrange[w][2] <= wrange[v][1] \/ wrange[v][2] <= wrange[w][1]

(* While a batch is under way it remembers what was there before, and its  *)
(* documents have their places.                                            *)
BatchInv ==
  Batching =>
    /\ before.docs = base_doc /\ base_doc <= doc_count
    /\ doc_map = DocMap(batch) /\ map_out = doc_map
    /\ doc_count = base_doc + ValidCount(batch)
    /\ \A j \in Valid(batch) : source[SlotOf(j)] = batch[j]
    /\ before.entries \in Seq(Token) /\ Len(before.entries) <= entry_count
    /\ \A i \in 1 .. Len(before.entries) : entries[i] = before.entries[i]
    /\ \A i \in 0 .. Len(before.entries) - 1 : doc_freq[i] = before.doc_freq[i]
    /\ \A d \in 0 .. base_doc - 1 :
         /\ slot[d] = before.slot[d]
         /\ slot[d] # Null => \A i \in DOMAIN slot[d] : slot[d][i] < Len(before.entries)
    /\ pc = "insert" => \A d \in base_doc .. doc_count - 1 : slot[d] = Null
    /\ pc = "resolve" => \A j \in Valid(batch) : Pending(j) => slot[SlotOf(j)] = Null

(* The documents from slot lo up to hi that contain id i.                  *)
With(i, lo, hi) == {d \in lo .. hi - 1 : HasToken(slot[d], i)}

FreqInv ==
  /\ ~ Batching => \A i \in 0 .. entry_count - 1 :
       doc_freq[i] = Cardinality(With(i, 0, doc_count))
  /\ Batching => \A i \in 0 .. entry_count - 1 :
       doc_freq[i] = Cardinality(With(i, 0, base_doc))
  /\ pc = "resolve" => \A i \in Ids : freq[i] = Cardinality(With(i, base_doc, doc_count))

(* Before the documents are numbered anew no place is given to the caller. *)
MapInv ==
  /\ map_out \in Seq(Int) /\ DocMapSound
  /\ pc \in {"add", "tokens"} => \A j \in DOMAIN map_out : map_out[j] < 0

IInv ==
  /\ TypeOK /\ VocabularyConsistent /\ SlotsWritten
  /\ DocsInv /\ RangesInv /\ BatchInv /\ FreqInv /\ MapInv
===============================================================================
