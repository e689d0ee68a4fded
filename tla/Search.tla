--------------------------------- MODULE Search ---------------------------------
(***************************************************************************)
(* The searches of src/semantic/semantic.c, as one thread calls them one   *)
(* after the other: fce_sem_search_query with its four modes (brute force, *)
(* AUTO, FAST and TFIDF) on a finalized corpus, and the ranking calls on   *)
(* arrays, fce_sem_search and fce_sem_simple_search ("search") and         *)
(* fce_sem_simple_rank_flat ("flat").  Every path ends in a top-k          *)
(* selection over a min-heap: serial, in workers that claim documents from *)
(* a shared counter, or in workers with a chunk of the documents each,     *)
(* whose heaps are merged.                                                 *)
(*                                                                         *)
(* A document is its index; its score against the query is given with the  *)
(* call, and so is whether the inverted index lists it for a query token.  *)
(* Which candidates survive the cap, and in which order they come, depends *)
(* on keyword scores that are left open.  Any allocation may fail.  "pool" *)
(* is history: the documents the answer has to be chosen from; so is       *)
(* "oom": which allocations of the call failed.                            *)
(***************************************************************************)
EXTENDS Integers, Sequences, FiniteSets, SequencesExt

CONSTANTS
  Requests,   \* the calls a program makes
  Workers,    \* fce_default_worker_count(true)
  Cap,        \* FCE_CANDIDATE_CAP
  Chunks,     \* g_cached_brute_workers
  ScanLimit,  \* documents up to which a brute-force scan stays serial
  WordDocs    \* documents per word of the seen bitmap

Modes == {"brute", "auto", "fast", "tfidf"}

ASSUME SearchAssumption ==
  {Workers, Cap, Chunks, WordDocs} \subseteq Nat \ {0} /\ ScanLimit \in Nat

(* top_k = 0 and NULL arguments end a call at once.                        *)
ASSUME RequestsAssumption ==
  \A r \in Requests :
    /\ r.api \in Modes \union {"search", "flat"}
    /\ r.n \in Nat /\ r.k \in Nat \ {0} /\ r.score \in [0 .. r.n - 1 -> Int]
    /\ r.api \in Modes => /\ r.query \in {"empty", "zero", "good"}
                         /\ r.match \subseteq 0 .. r.n - 1 /\ r.index \in BOOLEAN
    /\ r.api = "search" => r.min \in Int

VARIABLES
  req,      \* the call's arguments
  at,       \* where it stands
  todo,     \* lists of items yet to be looked at
  sel,      \* selections: the caller's, or one per worker or chunk
  live,     \* the blocks the call has allocated and not freed
  result,   \* results_out[0 .. count_out - 1]
  pool, oom,
  seen,     \* the thread's scratch: bits set in the bitmap, ...
  words     \* ... and words allocated, both kept between calls

work == <<todo, sel>>
scratch == <<seen, words>>
searchVars == <<req, at, work, live, result, pool, oom, scratch>>

NoCall == [api |-> "none"]
Item == [index : Nat, score : Int]

Lesser(a, b) == IF a < b THEN a ELSE b

(* top_k after the clamp to the number of documents.                       *)
K == Lesser(req.k, req.n)
Docs == 0 .. req.n - 1

Scored(d) == [index |-> d, score |-> req.score[d]]
AllDocs == [i \in 1 .. req.n |-> Scored(i - 1)]

(* Only fce_sem_search and fce_sem_simple_search have a least score.       *)
Passes(a) == req.api = "search" => a.score >= req.min

-------------------------------------------------------------------------------
(* A selection: a heap for k items, and the sift under way in it, if any:  *)
(* it began at root "from" and has come to "root".                         *)
Selection == [k : Nat, heap : Seq(Item), from : Nat, root : Nat]

Fresh(k) == [k |-> k, heap |-> <<>>, from |-> 0, root |-> 0]

(* One round of the loop of heap_siftdown.  At its end the loop that makes *)
(* a heap goes on to the root before.                                      *)
SiftRound(s) ==
  LET h == s.heap
      left == 2 * s.root
      child == IF left < Len(h) /\ h[left + 1].score < h[left].score
               THEN left + 1 ELSE left
  IN  IF left > Len(h) \/ h[s.root].score <= h[child].score
      THEN [s EXCEPT !.from = @ - 1, !.root = s.from - 1]
      ELSE [s EXCEPT !.heap = [h EXCEPT ![s.root] = h[child], ![child] = h[s.root]],
                     !.root = child]

(* When an item takes the place of the heap's root: for a higher score, or *)
(* also, except in serial_topk, rerank_serial and flat_worker, for the     *)
(* same score and a lower index.                                           *)
Ousts(a, root, byIndex) ==
  \/ a.score > root.score
  \/ byIndex /\ a.score = root.score /\ a.index < root.index

Offer_NoSift(s, a, byIndex) ==   \* mutant: the new root is not sifted down
  IF Len(s.heap) + 1 < s.k THEN [s EXCEPT !.heap = Append(@, a)]
  ELSE IF Len(s.heap) < s.k
  THEN [s EXCEPT !.heap = Append(@, a), !.from = s.k \div 2, !.root = s.k \div 2]
  ELSE IF Ousts(a, s.heap[1], byIndex) THEN [s EXCEPT !.heap[1] = a]
  ELSE s

(* The selection step: fill up to k, make it a heap, then oust the root.   *)
Offer(s, a, byIndex) ==
  IF Len(s.heap) + 1 < s.k THEN [s EXCEPT !.heap = Append(@, a)]
  ELSE IF Len(s.heap) < s.k
  THEN [s EXCEPT !.heap = Append(@, a), !.from = s.k \div 2, !.root = s.k \div 2]
  ELSE IF Ousts(a, s.heap[1], byIndex)
  THEN [s EXCEPT !.heap[1] = a, !.from = 1, !.root = 1]
  ELSE s

(* fce_ranked_cmp_desc: descending by score, ties by ascending index.      *)
Before(a, b) == Ousts(a, b, TRUE)

(* qsort: the item of rank r comes to position r.                          *)
Rank(h, i) ==
  Cardinality({j \in DOMAIN h : Before(h[j], h[i]) \/ (h[j] = h[i] /\ j <= i)})
Ranked(h) == [r \in DOMAIN h |-> h[CHOOSE i \in DOMAIN h : Rank(h, i) = r]]

-------------------------------------------------------------------------------
SearchInit ==
  /\ req = NoCall /\ at = "idle"
  /\ todo = <<>> /\ sel = <<>>
  /\ live = {} /\ result = <<>> /\ pool = {} /\ oom = {}
  /\ seen = {} /\ words = 0

Call(r) ==
  /\ at = "idle"
  /\ req' = r
  /\ at' = IF r.api \in Modes THEN "query" ELSE "rank"
  /\ UNCHANGED <<work, live, result, pool, oom, scratch>>

ReturnNothing ==
  /\ at' = "returned" /\ result' = <<>> /\ pool' = {}
  /\ UNCHANGED <<req, work, scratch>>

(* Blocks are allocated, then blocks are freed, which may be NULL.         *)
Blocks(allocated, freed) == live' = (live \union allocated) \ freed

(* An allocation fails, or none does.                                      *)
Fails(what) == oom' = oom \union {what}
Succeeds == oom' = oom

Goto(l) == at' = l /\ UNCHANGED <<req, result>>

(* Selections for bounds[w] items each go through the lists.               *)
Select(lists, bounds, l) ==
  /\ Goto(l)
  /\ todo' = lists /\ sel' = [w \in DOMAIN bounds |-> Fresh(bounds[w])]
  /\ UNCHANGED scratch

(* The caller is done with the results.                                    *)
Leave ==
  /\ at = "returned"
  /\ req' = NoCall /\ at' = "idle"
  /\ todo' = <<>> /\ sel' = <<>>
  /\ live' = {} /\ result' = <<>> /\ pool' = {} /\ oom' = {}
  /\ UNCHANGED scratch

-------------------------------------------------------------------------------
(* What is freed on the ways out of a query: brute force has only tokens,  *)
(* a query without tokens only candidates, and all others go through the   *)
(* label cleanup.                                                          *)
BruteFrees == {"tokens"}
NoTokensFrees == {"candidates"}
Cleanup == {"candidates", "tokens"}

(* FCE_QUERY_BRUTE: nothing to search for, or the scan.                    *)
EnterBrute ==
  /\ at = "query" /\ req.api = "brute" /\ Succeeds
  /\ \/ req.query = "empty" /\ ReturnNothing /\ Blocks({}, {})
     \/ /\ req.query # "empty" /\ req.n = 0
        /\ ReturnNothing /\ Blocks({"tokens"}, BruteFrees)
     \/ /\ req.query # "empty" /\ req.n > 0
        /\ Goto("scan") /\ Blocks({"tokens"}, {}) /\ UNCHANGED <<work, pool, scratch>>

(* A query of magnitude 0, or one that FAST has no index for; a vector     *)
(* other than 0 implies a token in the vocabulary.                         *)
Degenerate == req.query = "zero" \/ (req.api = "fast" /\ ~ req.index)

(* The other modes, up to the index: no documents, no memory, no token or  *)
(* a degenerate query end the call.                                        *)
EnterIndex ==
  /\ at = "query" /\ req.api # "brute"
  /\ \/ req.n = 0 /\ Succeeds /\ ReturnNothing /\ Blocks({}, {})
     \/ req.n > 0 /\ Fails("candidates") /\ ReturnNothing /\ Blocks({}, {})
     \/ /\ req.n > 0 /\ Succeeds /\ req.query = "empty"
        /\ ReturnNothing /\ Blocks({"candidates"}, NoTokensFrees)
     \/ /\ req.n > 0 /\ Succeeds /\ req.query # "empty" /\ Degenerate
        /\ ReturnNothing /\ Blocks({"candidates", "tokens"}, Cleanup)
     \/ /\ req.n > 0 /\ Succeeds /\ req.query # "empty" /\ ~ Degenerate
        /\ Goto(IF req.index THEN "collect" ELSE "scan")
        /\ Blocks({"candidates", "tokens"}, {}) /\ UNCHANGED <<work, pool, scratch>>

(* Words of the bitmap a corpus of n documents needs.                      *)
WordsFor(n) == (n + WordDocs - 1) \div WordDocs

Cleared_Not ==         \* mutant: a bitmap that is large enough is used as it is
  IF WordsFor(req.n) > words THEN {} ELSE seen

(* Bits left after a larger bitmap was calloc'ed, or the words this corpus *)
(* needs were zeroed.                                                      *)
Cleared ==
  IF WordsFor(req.n) > words THEN {}
  ELSE {d \in seen : d >= WordDocs * WordsFor(req.n)}

AfterCollect_Pads(n) ==   \* mutant: FAST falls back like the other modes
  Goto(IF n < K THEN "scan" ELSE "rerank")

(* Where the query goes with n candidates.                                 *)
AfterCollect(n) ==
  Goto(IF n < K /\ req.api # "fast" THEN "scan" ELSE "rerank")

(* The documents kept for reranking, at most Cap of those found, ordered   *)
(* by keyword scores.                                                      *)
Keep(found) ==
  \E kept \in SUBSET found :
    /\ Cardinality(kept) = Lesser(Cap, Cardinality(found))
    /\ \E order \in SetToSeqs(kept) :
         todo' = <<[i \in DOMAIN order |-> Scored(order[i])]>>
    /\ pool' = IF Cardinality(req.match) <= Cap THEN req.match ELSE kept
    /\ AfterCollect(Cardinality(kept))

(* keyword_candidates frees its weights on every path.                     *)
CollectFrees == {"q_idf"}

(* keyword_candidates and collect_candidates: every document the index     *)
(* lists for a token of the query, each once thanks to the bitmap.  An     *)
(* allocation fails before the bitmap is looked at, while it grows, or     *)
(* after it has been filled.                                               *)
Collect ==
  /\ at = "collect"
  /\ LET found == req.match \ Cleared
         grows == WordsFor(req.n) > words
         marked == /\ seen' = Cleared \union found
                   /\ words' = IF grows THEN WordsFor(req.n) ELSE words
     IN  \/ Succeeds /\ Keep(found) /\ marked
         \/ /\ Fails("collect") /\ pool' = {} /\ todo' = <<(<<>>)>> /\ AfterCollect(0)
            /\ \/ UNCHANGED scratch
               \/ grows /\ seen' = {} /\ words' = 0
               \/ marked
  /\ UNCHANGED sel /\ Blocks({"q_idf"}, CollectFrees)

-------------------------------------------------------------------------------
(* Too few documents, or cores, for workers.                               *)
StaySerial(n) == Workers <= 1 \/ n \div 2 <= K

(* One worker per top_k documents, at most Workers.                        *)
WorkersFor(n) == Lesser(Workers, n \div K)

(* The selection of serial_topk and rerank_serial, and those of workers.   *)
Serially(list) == Select(<<list>>, <<K>>, "serial")
InWorkers(list) ==
  Select(<<list>>, [w \in 1 .. WorkersFor(Len(list)) |-> K], "workers")

(* What workers write to.                                                  *)
WorkerArrays == {"worker_results", "worker_counts"}

RerankGivesUp_Counts == {"worker_results"}   \* mutant: one array is forgotten

(* Freed when one of them is missing.                                      *)
RerankGivesUp == {"worker_results", "worker_counts"}

(* rerank_serial, or the start of the parallel rerank; out of memory, the  *)
(* first returns nothing and the second falls back to the scan.            *)
Rerank ==
  /\ at = "rerank"
  /\ IF StaySerial(Len(todo[1]))
     THEN \/ Succeeds /\ Serially(todo[1]) /\ Blocks({"heap"}, {}) /\ UNCHANGED pool
          \/ Fails("heap") /\ ReturnNothing /\ Blocks({}, Cleanup)
     ELSE \/ Succeeds /\ InWorkers(todo[1]) /\ Blocks(WorkerArrays, {}) /\ UNCHANGED pool
          \/ /\ Fails("rerank") /\ Goto("scan")
             /\ \E some \in SUBSET WorkerArrays :
                  some # WorkerArrays /\ Blocks(some, RerankGivesUp)
             /\ UNCHANGED <<work, pool, scratch>>

(* fce_sem_search and fce_sem_simple_search count the slashes of all paths *)
(* first, unless memory for the counts is missing.                         *)
Prox == IF req.api = "search" THEN {"corpus_prox"} ELSE {}

RankGivesUp_Prox == {"worker_results", "worker_counts"}   \* mutant: cprox is forgotten

(* Freed when an array of the workers is missing, or when only the slashes *)
(* are.                                                                    *)
RankGivesUp == {"worker_results", "worker_counts", "corpus_prox"}
NoProxGivesUp == {"worker_results", "worker_counts"}

(* fce_sem_search, fce_sem_simple_search and fce_sem_simple_rank_flat up   *)
(* to their selections; only the first two reject a query whose indices    *)
(* are not ascending.                                                      *)
RankArrays ==
  /\ at = "rank"
  /\ \/ /\ req.n = 0 \/ (req.api = "search" /\ req.query = "unsorted")
        /\ Succeeds /\ ReturnNothing /\ Blocks({}, {})
     \/ /\ req.n > 0 /\ (req.api = "search" => req.query # "unsorted")
        /\ pool' = {d \in Docs : Passes(Scored(d))}
        /\ \/ StaySerial(req.n) /\ Succeeds /\ Serially(AllDocs) /\ Blocks(Prox, {})
           \/ /\ StaySerial(req.n) /\ Prox # {} /\ Fails("prox")
              /\ Serially(AllDocs) /\ Blocks({}, {})
           \/ /\ ~ StaySerial(req.n) /\ Succeeds
              /\ InWorkers(AllDocs) /\ Blocks(WorkerArrays \union Prox, {})
           \/ /\ ~ StaySerial(req.n) /\ Fails("rank") /\ Serially(AllDocs)
              /\ \E some \in SUBSET (WorkerArrays \union Prox) :
                   \/ ~ WorkerArrays \subseteq some /\ Blocks(some, RankGivesUp)
                   \/ some = WorkerArrays /\ Prox # {} /\ Blocks(some, NoProxGivesUp)

(* The documents of chunk c: the first n % Chunks chunks have one more.    *)
ChunkSize(c) == req.n \div Chunks + IF c <= req.n % Chunks THEN 1 ELSE 0
ChunkStart(c) == (c - 1) * (req.n \div Chunks) + Lesser(c - 1, req.n % Chunks)
ChunkDocs(c) == [i \in 1 .. ChunkSize(c) |-> Scored(ChunkStart(c) + i - 1)]

(* The chunks with a heap each: freed when one is missing, or at the end.  *)
ChunkBlocks == {"chunks", "local_heaps"}
ChunksGiveUp == {"chunks", "local_heaps"}

(* bruteforce_precomputed: the serial scan, or one chunk per worker; with  *)
(* the chunks, the first heap or a later one out of memory, the serial     *)
(* scan.                                                                   *)
Scan ==
  /\ at = "scan" /\ pool' = Docs
  /\ LET serial == Chunks = 1 \/ req.n <= ScanLimit
     IN  \/ serial /\ Succeeds /\ Serially(AllDocs) /\ Blocks({}, {})
         \/ /\ ~ serial /\ Fails("chunks") /\ Serially(AllDocs)
            /\ \E some \in {{}, {"chunks"}, ChunkBlocks} : Blocks(some, ChunksGiveUp)
         \/ /\ ~ serial /\ Succeeds
            /\ Select([c \in 1 .. Chunks |-> ChunkDocs(c)],
                      [c \in 1 .. Chunks |-> Lesser(K, ChunkSize(c))], "chunks")
            /\ Blocks(ChunkBlocks, {})

-------------------------------------------------------------------------------
Selecting == {"serial", "workers", "chunks", "merge"}

(* Whether an item is worth a place, and who wins a tie at the root.       *)
Considered(a) == at = "merge" \/ Passes(a)
ByIndex == at \in {"chunks", "merge"} \/ (at = "workers" /\ req.api # "flat")

(* The list selection w reads: its own chunk, or the first not used up,    *)
(* which workers share.                                                    *)
Reads(w, l) == IF at = "chunks" THEN l = w ELSE \A j \in 1 .. l - 1 : todo[j] = <<>>

(* The next item of the list is claimed and offered to the heap.           *)
Take(w) ==
  /\ at \in Selecting /\ w \in DOMAIN sel /\ sel[w].root = 0
  /\ \E l \in DOMAIN todo :
       /\ Reads(w, l) /\ todo[l] # <<>>
       /\ todo' = [todo EXCEPT ![l] = Tail(@)]
       /\ LET a == Head(todo[l])
          IN  sel' = [sel EXCEPT ![w] = IF Considered(a) THEN Offer(@, a, ByIndex) ELSE @]
  /\ UNCHANGED <<req, at, live, result, pool, oom, scratch>>

Sift(w) ==
  /\ at \in Selecting /\ w \in DOMAIN sel /\ sel[w].root > 0
  /\ sel' = [sel EXCEPT ![w] = SiftRound(@)]
  /\ UNCHANGED <<req, at, todo, live, result, pool, oom, scratch>>

(* The loops have ended: nothing is left to claim and the heaps are done.  *)
AllTaken ==
  /\ \A l \in DOMAIN todo : todo[l] = <<>>
  /\ \A w \in DOMAIN sel : sel[w].root = 0

(* The workers have been joined and the items of their heaps are merged:   *)
(* merge_worker_heaps, and merge_local_heaps, which copies them all when   *)
(* they fit or when it has no memory for one more heap.                    *)
Merge ==
  /\ at \in {"workers", "chunks"} /\ AllTaken
  /\ LET lists == [w \in DOMAIN sel |-> sel[w].heap]
         total == Cardinality(UNION {{w} \X DOMAIN lists[w] : w \in DOMAIN lists})
         all == req.n + 1
     IN  \/ /\ at = "workers" /\ Succeeds
            /\ Select(lists, <<K>>, "merge") /\ Blocks({}, {})
         \/ /\ at = "chunks" /\ total <= K /\ Succeeds
            /\ Select(lists, <<all>>, "merge") /\ Blocks({}, {})
         \/ /\ at = "chunks" /\ total > K /\ Succeeds
            /\ Select(lists, <<K>>, "merge") /\ Blocks({"merge_heap"}, {})
         \/ /\ at = "chunks" /\ total > K /\ Fails("merge")
            /\ Select(lists, <<all>>, "merge")
            /\ \E some \in SUBSET {"all"} : Blocks(some, {})
  /\ UNCHANGED pool

(* What is freed after the selection by the function that made it:         *)
(* rerank_serial, serial_topk's caller unless it fell back to it, the      *)
(* scan, whose merge has freed its own, and whoever started workers.       *)
RerankSerialFrees == {"heap"}
RankSerialFrees == {"corpus_prox"}
MergeFrees == {"merge_heap", "all"}
ScanFrees == {"chunks", "local_heaps"}
WorkersFree == {"worker_results", "worker_counts"}

SelectionFrees ==
  IF at = "merge"
  THEN IF "chunks" \in live THEN MergeFrees \union ScanFrees ELSE WorkersFree
  ELSE IF req.api \in Modes THEN RerankSerialFrees
  ELSE IF StaySerial(req.n) THEN RankSerialFrees ELSE {}

(* And then by the call; those on arrays have nothing left they would free.*)
CallFrees ==
  IF req.api = "brute" THEN BruteFrees ELSE IF req.api \in Modes THEN Cleanup ELSE {}

(* qsort, the copy of at most top_k items and the frees.                   *)
Finish ==
  /\ at \in {"serial", "merge"} /\ AllTaken
  /\ LET h == sel[1].heap
     IN  result' = [r \in 1 .. Lesser(K, Len(h)) |-> Ranked(h)[r]]
  /\ at' = "returned" /\ Blocks({}, SelectionFrees \union CallFrees)
  /\ UNCHANGED <<req, work, pool, oom, scratch>>

-------------------------------------------------------------------------------
SearchNext ==
  \/ \E r \in Requests : Call(r)
  \/ EnterBrute \/ EnterIndex \/ Collect \/ Rerank \/ RankArrays \/ Scan
  \/ \E w \in DOMAIN sel : Take(w) \/ Sift(w)
  \/ Merge \/ Finish \/ Leave

SearchSpec == SearchInit /\ [][SearchNext]_searchVars

-------------------------------------------------------------------------------
Returned == at = "returned"

(* What a search returns is the best of what it looked at: K of them, or   *)
(* all there are, each once and with its own score, by descending score    *)
(* and ascending index, and no document left out scores more than the last *)
(* one returned -- whichever path ran, whichever worker claimed what, and  *)
(* whatever the thread searched before.                                    *)
BestReturned ==
  Returned =>
    /\ \A i \in DOMAIN result :
         /\ result[i].index \in pool /\ result[i].score = req.score[result[i].index]
         /\ i > 1 => Before(result[i - 1], result[i])
    /\ Len(result) = Lesser(K, Cardinality(pool))
    /\ \A d \in pool \ {result[i].index : i \in DOMAIN result} :
         result # <<>> => req.score[d] <= result[Len(result)].score

(* What a call finds when no allocation fails: brute force, and AUTO and   *)
(* TFIDF when the index lists fewer than top_k documents, take them from   *)
(* the whole corpus ("if (ncand < (int)top_k ...) goto brute_force"), FAST *)
(* from the documents that share a token with it.  For AUTO this is        *)
(* semantic.h 583, "fall back to brute"; for TFIDF the header promises no  *)
(* fallback, and its note that neither finds other documents is not what   *)
(* the code does: see OnlyLiteralMatches.                                  *)
Due ==
  CASE req.api = "brute" -> IF req.query = "empty" THEN 0 ELSE K
    [] req.api \in {"auto", "tfidf"} -> IF req.query = "good" THEN K ELSE 0
    [] req.api = "fast" ->
         IF req.query = "good" /\ req.index
         THEN Lesser(K, Lesser(Cap, Cardinality(req.match))) ELSE 0
    [] req.api = "search" ->
         IF req.query = "unsorted" THEN 0
         ELSE Lesser(K, Cardinality({d \in Docs : Passes(Scored(d))}))
    [] OTHER -> K

(* Unless memory ran out a query is answered in full.                      *)
AnsweredInFull == Returned /\ oom = {} => Len(result) = Due

(* "it never pads a short candidate list with brute results.  The sole     *)
(* exception is an out-of-memory condition in the parallel rerank"         *)
(* (semantic.h, of FAST).                                                  *)
FastStaysInIndex ==
  Returned /\ req.api = "fast" /\ "rerank" \notin oom =>
    \A i \in DOMAIN result : result[i].index \in req.match

(* "the inverted-index strategies (AUTO/FAST/TFIDF) only find documents    *)
(* sharing at least one literal token with the query; documents related    *)
(* solely through Random-Indexing synonym bridging will NOT appear"        *)
(* (semantic.h 591), memory or no index aside.  The code does not do that: *)
(* AUTO and TFIDF return others when fewer than top_k share a token.       *)
OnlyLiteralMatches ==
  Returned /\ req.api \in {"auto", "fast", "tfidf"} /\ req.index /\ oom = {} =>
    \A i \in DOMAIN result : result[i].index \in req.match

(* A call gives back all it allocated on every path out, through whichever *)
(* fallbacks it came, but one: the array of precompute_corpus_prox is      *)
(* never freed after a parallel fce_sem_search or fce_sem_simple_search.   *)
OnlyProxLeaks ==
  Returned => live = IF req.api = "search" /\ Len(todo) > 1 THEN {"corpus_prox"} ELSE {}
-------------------------------------------------------------------------------
(* What is true in every state.                                            *)
SearchTypeOK ==
  /\ at \in {"idle", "query", "rank", "collect", "rerank", "scan", "returned"} \union Selecting
  /\ IF at = "idle" THEN req = NoCall ELSE req \in Requests
  /\ todo \in Seq(Seq(Item)) /\ sel \in Seq(Selection) /\ result \in Seq(Item)
  /\ words \in Nat

(* Where a call can be, by its arguments.                                  *)
PhaseInv ==
  /\ at \in {"idle", "query", "rank", "collect"} => todo = <<>> /\ oom = {}
  /\ at \in {"query", "scan", "collect", "rerank", "chunks"} => req.api \in Modes
  /\ at = "rank" => req.api \notin Modes
  /\ at \in {"scan", "collect", "rerank"} \union Selecting => req.n > 0
  /\ at \in {"collect", "rerank"} =>
       req.api # "brute" /\ req.query = "good" /\ req.index
  /\ at = "scan" =>
       /\ IF req.api = "brute" THEN req.query # "empty" ELSE req.query = "good"
       /\ req.api = "fast" => "rerank" \in oom

(* How many lists and selections there are, and what they are bound to:    *)
(* the heap of a small chunk has room for all of it.                       *)
ShapeInv ==
  /\ at \in {"rerank", "serial", "workers"} => Len(todo) = 1
  /\ at \in {"serial", "merge"} => Len(sel) = 1
  /\ at \in {"workers", "chunks"} => Len(sel) > 1
  /\ at = "chunks" => Len(todo) = Len(sel)
  /\ at = "merge" => Len(todo) > 1
  /\ at \notin Selecting \union {"returned"} => sel = <<>>
  /\ at \in Selecting => \A w \in DOMAIN sel :
       \/ sel[w].k = K
       \/ at = "chunks" /\ Len(sel[w].heap) + Len(todo[w]) <= sel[w].k
       \/ at = "merge" /\ sel[w].k = req.n + 1

(* What a call holds wherever it is: what the query has allocated, and     *)
(* what the selection works with.                                          *)
CallHolds ==
  IF req.api = "brute" THEN {"tokens"}
  ELSE IF req.api \in Modes THEN {"candidates", "tokens"} ELSE {}
WorkersHold == CallHolds \union {"worker_results", "worker_counts"} \union Prox
ChunksHold == CallHolds \union {"chunks", "local_heaps"}

LiveInv ==
  /\ at \in {"idle", "query", "rank"} => live = {}
  /\ at \in {"scan", "collect", "rerank"} => live = CallHolds
  /\ at = "serial" =>
       \/ live = CallHolds
       \/ req.api \in Modes /\ live = CallHolds \union {"heap"}
       \/ req.api \notin Modes /\ StaySerial(req.n) /\ live = Prox
  /\ at = "workers" => live = WorkersHold
  /\ at = "chunks" => live = ChunksHold
  /\ at = "merge" =>
       \/ live = WorkersHold
       \/ req.api \in Modes /\ live \ {"merge_heap", "all"} = ChunksHold
  /\ OnlyProxLeaks

(* A full heap is ordered but for the sift under way: parents before       *)
(* "from" are not yet looked at, and the item at "root" may be too large   *)
(* for its place, though what is below it is not too small for the parent. *)
Sound(s) ==
  LET h == s.heap
  IN  /\ Len(h) <= s.k /\ s.from <= s.root /\ s.root <= Len(h)
      /\ s.from = 0 <=> s.root = 0
      /\ Len(h) < s.k => s.root = 0
      /\ Len(h) = s.k =>
           \A i \in 2 .. Len(h) :
             /\ i \div 2 >= s.from /\ i \div 2 # s.root => h[i \div 2].score <= h[i].score
             /\ i \div 2 = s.root /\ s.root \div 2 >= s.from =>
                  h[s.root \div 2].score <= h[i].score

HeapInv == \A w \in DOMAIN sel : Sound(sel[w])

(* Only what may be chosen is in a heap, with its own score.               *)
Heaps == [w \in DOMAIN sel |-> sel[w].heap]
ItemsInv ==
  /\ \A l \in DOMAIN todo : \A i \in DOMAIN todo[l] :
       LET a == todo[l][i]
       IN  a.index \in Docs /\ a = Scored(a.index) /\ (Considered(a) <=> a.index \in pool)
  /\ \A w \in DOMAIN Heaps : \A i \in DOMAIN Heaps[w] :
       LET a == Heaps[w][i]
       IN  a.index \in pool /\ a = Scored(a.index)

(* No document is in two places.                                           *)
Distinct(lists) ==
  \A l, m \in DOMAIN lists : \A i \in DOMAIN lists[l], j \in DOMAIN lists[m] :
    lists[l][i].index = lists[m][j].index => l = m /\ i = j
Apart(lists, heaps) ==
  /\ Distinct(lists) /\ Distinct(heaps)
  /\ \A l \in DOMAIN lists, w \in DOMAIN heaps :
       \A i \in DOMAIN lists[l], j \in DOMAIN heaps[w] :
         lists[l][i].index # heaps[w][j].index

(* The documents that can still be returned: when one that scores as much  *)
(* as some of them is no longer among them, K that score no less are.      *)
Indices(s) == {s[i].index : i \in DOMAIN s}
Held(lists) == UNION {Indices(lists[l]) : l \in DOMAIN lists}
Enough(chosen, left, score, k) ==
  \A d \in chosen \ left : Cardinality({x \in left : score[x] >= score[d]}) >= k
Left == pool \intersect (Held(todo) \union Held(Heaps))
LostInv == pool \subseteq Docs /\ Enough(pool, Left, req.score, K)

(* What is chosen from decides how much is found.                          *)
PoolInv ==
  /\ oom = {} => Lesser(K, Cardinality(pool)) = Due
  /\ req.api = "fast" /\ "rerank" \notin oom => pool \subseteq req.match

ControlInv == SearchTypeOK /\ PhaseInv /\ ShapeInv
ContentInv == at \in Selecting \union {"rerank"} =>
             HeapInv /\ ItemsInv /\ Apart(todo, Heaps) /\ LostInv /\ PoolInv
SearchInv ==
  ControlInv /\ LiveInv /\ ContentInv /\ BestReturned /\ AnsweredInFull /\ FastStaysInIndex
================================================================================
