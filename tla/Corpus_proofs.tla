----------------------------- MODULE Corpus_proofs -----------------------------
(***************************************************************************)
(* Proofs about Corpus: for any tokens, documents, batches, workers and    *)
(* caps, any number of calls and any failed allocation, the vocabulary,    *)
(* the documents and the document frequencies stay consistent, and a batch *)
(* whose worker failed leaves no trace.  The argument rests on IInv of     *)
(* module Corpus: what was there before a batch is untouched below         *)
(* base_doc and below the old entry count, the slots of positions no       *)
(* worker has resolved are NULL, and no two workers have one position.     *)
(***************************************************************************)
EXTENDS Corpus, FiniteSetTheorems, TLAPS

(* Ids and slots are naturals, NotFound is not an id.                      *)
LEMMA Numbers ==
  /\ MaxEntries \in Nat /\ MaxDocs \in Nat /\ NotFound = -1
  /\ \A i \in Ids : i \in Nat /\ i < MaxEntries
  /\ \A i \in Nat : i < MaxEntries => i \in Ids
  /\ \A d \in Nat : d < MaxDocs => d \in Slots
  /\ \A d \in Slots : d \in Nat /\ d < MaxDocs
  BY CapsAssumption DEF Ids, Slots, NotFound

(* A list of ids is neither NULL nor unwritten memory.                     *)
LEMMA ListsAreWritten ==
  /\ \A s \in IdList : s # Null /\ s # Garbage
  /\ Null # Garbage
<1>1. Ids \union {NotFound} \subseteq Int
  BY DEF Ids, NotFound
<1>2. \A s \in IdList : s \in Seq(Int)
  BY <1>1 DEF IdList
<1> QED
  BY <1>2, NullAssumption

(* What it is for a slot to contain an id.                                 *)
LEMMA HasTokenIs ==
  /\ \A s \in IdList : \A i : HasToken(s, i) <=> \E k \in DOMAIN s : s[k] = i
  /\ \A i : ~ HasToken(Null, i) /\ ~ HasToken(Garbage, i)
  BY ListsAreWritten DEF HasToken, ToSet

(* Valid documents are numbered from zero in the order of the batch, so    *)
(* each has a number, below their count, of its own.                       *)
LEMMA ValidFinite ==
  ASSUME NEW b \in Seq(Doc)
  PROVE  /\ Len(b) \in Nat /\ DOMAIN b = 1 .. Len(b)
         /\ Valid(b) \subseteq 1 .. Len(b) /\ IsFiniteSet(Valid(b))
         /\ ValidCount(b) \in Nat
<1>1. Len(b) \in Nat /\ DOMAIN b = 1 .. Len(b)
  OBVIOUS
<1>2. Valid(b) \subseteq 1 .. Len(b)
  BY <1>1 DEF Valid
<1>3. IsFiniteSet(Valid(b))
  <2>1. IsFiniteSet(1 .. Len(b))
    BY <1>1, FS_Interval
  <2> QED
    BY <1>2, <2>1, FS_Subset
<1> QED
  BY <1>1, <1>2, <1>3, FS_CardinalityType DEF ValidCount

(* doc_map numbers the valid documents of a batch one after the other from *)
(* zero, each differently.                                                 *)
LEMMA Numbering ==
  ASSUME NEW b \in Seq(Doc)
  PROVE  /\ Len(DocMap(b)) = Len(b) /\ DOMAIN DocMap(b) = 1 .. Len(b)
         /\ \A j \in 1 .. Len(b) : DocMap(b)[j] \in Int
                                   /\ (DocMap(b)[j] >= 0 <=> j \in Valid(b))
         /\ \A j \in Valid(b) : DocMap(b)[j] \in Nat /\ DocMap(b)[j] < ValidCount(b)
         /\ \A i, j \in Valid(b) : DocMap(b)[i] = DocMap(b)[j] => i = j
<1> DEFINE Before(j) == {i \in Valid(b) : i < j}
<1>1. /\ Len(b) \in Nat /\ DOMAIN b = 1 .. Len(b)
      /\ Valid(b) \subseteq 1 .. Len(b) /\ IsFiniteSet(Valid(b))
      /\ ValidCount(b) \in Nat /\ ValidCount(b) = Cardinality(Valid(b))
  BY ValidFinite DEF ValidCount
<1>2. \A j \in 1 .. Len(b) :
        DocMap(b)[j] = IF j \in Valid(b) THEN Cardinality(Before(j)) ELSE NotFound
  BY <1>1 DEF DocMap, Valid
<1>3. DOMAIN DocMap(b) = 1 .. Len(b) /\ Len(DocMap(b)) = Len(b)
  BY <1>1 DEF DocMap
<1>4. \A j : Before(j) \subseteq Valid(b)
  OBVIOUS
<1>5. \A i, j \in Valid(b) : /\ i \in Nat /\ (i = j \/ i < j \/ j < i)
                             /\ i \notin Before(i)
                             /\ i < j => Before(i) \subseteq Before(j) /\ i \in Before(j)
  BY <1>1
<1> HIDE DEF Before
<1>6. \A j : IsFiniteSet(Before(j)) /\ Cardinality(Before(j)) \in Nat
  <2> TAKE j
  <2>1. IsFiniteSet(Before(j))
    BY <1>1, <1>4, FS_Subset
  <2> QED
    BY <2>1, FS_CardinalityType
<1>7. ASSUME NEW j \in Valid(b) PROVE Cardinality(Before(j)) < ValidCount(b)
  <2>1. Before(j) \subseteq Valid(b) \ {j}
    BY <1>4, <1>5
  <2>2. IsFiniteSet(Valid(b) \ {j}) /\ Cardinality(Valid(b) \ {j}) = ValidCount(b) - 1
    BY <1>1, FS_RemoveElement
  <2>3. Cardinality(Before(j)) <= Cardinality(Valid(b) \ {j})
    BY <2>1, <2>2, FS_Subset
  <2>4. Cardinality(Before(j)) \in Nat
    BY <1>6
  <2> QED
    BY <1>1, <2>2, <2>3, <2>4
<1>8. ASSUME NEW i \in Valid(b), NEW j \in Valid(b), i < j
      PROVE  Cardinality(Before(i)) < Cardinality(Before(j))
  <2>1. Before(i) \union {i} \subseteq Before(j) /\ i \notin Before(i)
    BY <1>5, <1>8
  <2>2. Cardinality(Before(i) \union {i}) = Cardinality(Before(i)) + 1
    BY <1>6, <2>1, FS_AddElement
  <2>3. Cardinality(Before(i) \union {i}) <= Cardinality(Before(j))
    BY <1>6, <2>1, FS_Subset
  <2>4. Cardinality(Before(i)) \in Nat /\ Cardinality(Before(j)) \in Nat
    BY <1>6
  <2> QED
    BY <2>2, <2>3, <2>4
<1>9. \A j \in Valid(b) : DocMap(b)[j] = Cardinality(Before(j))
  BY <1>1, <1>2
<1>10. \A i, j \in Valid(b) : DocMap(b)[i] = DocMap(b)[j] => i = j
  <2> SUFFICES ASSUME NEW i \in Valid(b), NEW j \in Valid(b), i # j
               PROVE  DocMap(b)[i] # DocMap(b)[j]
    OBVIOUS
  <2>1. Cardinality(Before(i)) \in Nat /\ Cardinality(Before(j)) \in Nat
    BY <1>6
  <2>2. CASE i < j
    BY <1>8, <1>9, <2>1, <2>2
  <2>3. CASE j < i
    BY <1>8, <1>9, <2>1, <2>3
  <2> QED
    BY <1>5, <2>2, <2>3
<1>11. ASSUME NEW j \in 1 .. Len(b)
       PROVE  DocMap(b)[j] \in Int /\ (DocMap(b)[j] >= 0 <=> j \in Valid(b))
  <2>1. Cardinality(Before(j)) \in Nat
    BY <1>6
  <2>2. CASE j \in Valid(b)
    BY <1>9, <2>1, <2>2
  <2>3. CASE j \notin Valid(b)
    BY <1>2, <2>3 DEF NotFound
  <2> QED
    BY <2>2, <2>3
<1>12. \A j \in Valid(b) : DocMap(b)[j] \in Nat /\ DocMap(b)[j] < ValidCount(b)
  BY <1>6, <1>7, <1>9
<1> QED
  BY <1>3, <1>10, <1>11, <1>12

(* Every number below their count is the number of a valid document.       *)
LEMMA NumberingOnto ==
  ASSUME NEW b \in Seq(Doc), NEW k \in 0 .. ValidCount(b) - 1
  PROVE  \E j \in Valid(b) : DocMap(b)[j] = k
<1> DEFINE T == 0 .. ValidCount(b) - 1
           f == [j \in Valid(b) |-> DocMap(b)[j]]
<1>1. ValidCount(b) \in Nat /\ ValidCount(b) = Cardinality(Valid(b))
  BY ValidFinite DEF ValidCount
<1>2. IsFiniteSet(T) /\ Cardinality(T) = ValidCount(b)
  <2>1. 0 \in Int /\ ValidCount(b) - 1 \in Int
    BY <1>1
  <2>2. /\ IsFiniteSet(T)
        /\ Cardinality(T) = IF 0 > ValidCount(b) - 1 THEN 0 ELSE ValidCount(b) - 1 - 0 + 1
    BY <2>1, FS_Interval
  <2> QED
    BY <1>1, <2>2
<1>3. \A j \in Valid(b) : DocMap(b)[j] \in T
  BY <1>1, Numbering
<1>4. f \in [Valid(b) -> T] /\ \A i, j \in Valid(b) : f[i] = f[j] => i = j
  BY <1>3, Numbering
<1> HIDE DEF T, f
<1>5. f \in Injection(Valid(b), T)
  BY <1>4 DEF Injection, IsInjective
<1>6. f \in Surjection(Valid(b), T)
  BY <1>1, <1>2, <1>5, FS_Injection
<1>7. \A i \in T : \E j \in Valid(b) : f[j] = i
  BY <1>6 DEF Surjection
<1> QED
  BY <1>7 DEF T, f

(* The document numbered by a position is the one at that position.        *)
LEMMA DocAtNumber ==
  ASSUME NEW b \in Seq(Doc), NEW j \in Valid(b)
  PROVE  DocNumbered(b, DocMap(b)[j]) = b[j]
  BY Numbering DEF DocNumbered

-------------------------------------------------------------------------------
(* What fce_corpus_get_or_add does to a consistent vocabulary: it stays    *)
(* consistent, what was there stays, and the id names the token.           *)
LEMMA VocabularyGrows ==
  ASSUME TypeOK, VocabularyConsistent, entry_count <= MaxEntries,
         NEW t \in Token \union {NoToken}, NEW id, GetOrAdd(t, id)
  PROVE  /\ entries' \in Seq(Token) /\ Len(entries') \in Nat /\ Len(entries) \in Nat
         /\ token_map' \in [Token -> Ids \union {NotFound}]
         /\ VocabularyConsistent' /\ Len(entries') <= MaxEntries
         /\ Len(entries) <= Len(entries')
         /\ \A i \in 1 .. Len(entries) : entries'[i] = entries[i]
         /\ id # NotFound => /\ id \in Ids /\ id < Len(entries')
                             /\ entries'[id + 1] = t
         /\ \/ entries' = entries /\ (id # NotFound => id < Len(entries))
            \/ id = Len(entries) /\ Len(entries') = Len(entries) + 1
<1>1. /\ entries \in Seq(Token) /\ Len(entries) \in Nat
      /\ token_map \in [Token -> Ids \union {NotFound}] /\ NoToken \notin Token
      /\ DOMAIN entries = 1 .. Len(entries)
      /\ \A i \in 1 .. Len(entries) : entries[i] \in Token
      /\ \A u \in Token : token_map[u] # NotFound =>
           token_map[u] < Len(entries) /\ entries[token_map[u] + 1] = u
      /\ \A i \in 1 .. Len(entries) : token_map[entries[i]] = i - 1
  BY TokensAssumption DEF TypeOK, VocabularyConsistent, entry_count
<1>2. CASE id = Lookup(t) /\ UNCHANGED <<entries, token_map>>
  <2>1. VocabularyConsistent'
    BY <1>2 DEF VocabularyConsistent, entry_count
  <2>2. id # NotFound => t \in Token /\ id = token_map[t]
    BY <1>1, <1>2 DEF Lookup
  <2>3. id # NotFound => id \in Ids /\ id < Len(entries) /\ entries[id + 1] = t
    BY <1>1, <2>2
  <2>4. entries' = entries /\ token_map' = token_map /\ Len(entries) <= MaxEntries
    BY <1>2 DEF entry_count
  <2>5. /\ entries \in Seq(Token) /\ Len(entries) \in Nat
        /\ token_map \in [Token -> Ids \union {NotFound}]
    BY <1>1
  <2>6. Len(entries) <= Len(entries)
    BY <2>5
  <2> QED
    BY <2>1, <2>3, <2>4, <2>5, <2>6
<1>3. CASE /\ t # NoToken /\ token_map[t] = NotFound /\ entry_count < MaxEntries
           /\ id = entry_count
           /\ entries' = Append(entries, t)
           /\ token_map' = [token_map EXCEPT ![t] = id]
  <2>1. t \in Token /\ id = Len(entries) /\ id \in Nat /\ id < MaxEntries
    BY <1>1, <1>3 DEF entry_count
  <2>2. id \in Ids /\ id # NotFound
    BY <2>1, Numbers
  <2>3. /\ entries' \in Seq(Token) /\ Len(entries') = Len(entries) + 1
        /\ entries'[id + 1] = t /\ \A i \in 1 .. Len(entries) : entries'[i] = entries[i]
    BY <1>1, <1>3, <2>1
  <2>4. /\ token_map' \in [Token -> Ids \union {NotFound}] /\ token_map'[t] = id
        /\ \A u \in Token : u # t => token_map'[u] = token_map[u]
    BY <1>1, <1>3, <2>1, <2>2
  <2>5. \A u \in Token : token_map'[u] # NotFound =>
          token_map'[u] < Len(entries') /\ entries'[token_map'[u] + 1] = u
    <3> SUFFICES ASSUME NEW u \in Token, token_map'[u] # NotFound
                 PROVE  token_map'[u] < Len(entries') /\ entries'[token_map'[u] + 1] = u
      OBVIOUS
    <3>1. CASE u = t
      BY <1>1, <2>1, <2>3, <2>4, <3>1
    <3>2. CASE u # t
      <4>1. /\ token_map'[u] = token_map[u] /\ token_map[u] \in Ids
            /\ token_map[u] < Len(entries) /\ entries[token_map[u] + 1] = u
        BY <1>1, <2>4, <3>2
      <4>2. token_map[u] \in Nat
        BY <4>1, Numbers
      <4>3. token_map[u] + 1 \in 1 .. Len(entries)
        BY <1>1, <4>1, <4>2
      <4> QED
        BY <1>1, <2>3, <4>1, <4>2, <4>3
    <3> QED
      BY <3>1, <3>2
  <2>6. \A i \in 1 .. Len(entries') : token_map'[entries'[i]] = i - 1
    <3> SUFFICES ASSUME NEW i \in 1 .. Len(entries') PROVE token_map'[entries'[i]] = i - 1
      OBVIOUS
    <3>1. CASE i = Len(entries) + 1
      BY <1>1, <2>1, <2>3, <2>4, <3>1
    <3>2. CASE i # Len(entries) + 1
      <4>1. i \in 1 .. Len(entries) /\ entries'[i] = entries[i] /\ entries[i] \in Token
        BY <1>1, <2>3, <3>2
      <4>2. token_map[entries[i]] = i - 1 /\ i - 1 # NotFound
        BY <1>1, <4>1 DEF NotFound
      <4>3. entries[i] # t
        BY <1>3, <4>2
      <4> QED
        BY <2>4, <4>1, <4>2, <4>3
    <3> QED
      BY <3>1, <3>2
  <2>7. VocabularyConsistent'
    BY <2>5, <2>6 DEF VocabularyConsistent, entry_count
  <2> QED
    BY <1>1, <2>1, <2>2, <2>3, <2>4, <2>7, Numbers
<1> QED
  BY <1>2, <1>3 DEF GetOrAdd

(* The rollback cuts the vocabulary back to a prefix that is consistent.   *)
LEMMA VocabularyCut ==
  ASSUME TypeOK, VocabularyConsistent, Len(before.entries) \in Nat,
         Len(before.entries) <= entry_count, entries' = CutEntries, token_map' = RebuiltMap
  PROVE  /\ entries' \in Seq(Token) /\ Len(entries') = Len(before.entries)
         /\ \A i \in 1 .. Len(entries') : entries'[i] = entries[i]
         /\ token_map' \in [Token -> Ids \union {NotFound}]
         /\ VocabularyConsistent'
<1>1. /\ entries \in Seq(Token) /\ Len(entries) \in Nat /\ entry_count = Len(entries)
      /\ token_map \in [Token -> Ids \union {NotFound}]
      /\ \A i \in 1 .. Len(entries) : entries[i] \in Token
      /\ \A u \in Token : token_map[u] # NotFound =>
           token_map[u] < Len(entries) /\ entries[token_map[u] + 1] = u
      /\ \A i \in 1 .. Len(entries) : token_map[entries[i]] = i - 1
  BY DEF TypeOK, VocabularyConsistent, entry_count
<1>2. /\ entries' \in Seq(Token) /\ Len(entries') = Len(before.entries)
      /\ \A i \in 1 .. Len(entries') : entries'[i] = entries[i]
  BY <1>1 DEF CutEntries
<1>3. \A u \in Token :
        token_map'[u] = IF token_map[u] < Len(entries') THEN token_map[u] ELSE NotFound
  BY DEF RebuiltMap
<1>4. token_map' \in [Token -> Ids \union {NotFound}]
  BY <1>1 DEF RebuiltMap
<1>5. \A u \in Token : token_map'[u] # NotFound =>
        token_map'[u] < Len(entries') /\ entries'[token_map'[u] + 1] = u
  <2> SUFFICES ASSUME NEW u \in Token, token_map'[u] # NotFound
               PROVE  token_map'[u] < Len(entries') /\ entries'[token_map'[u] + 1] = u
    OBVIOUS
  <2>1. /\ token_map'[u] = token_map[u] /\ token_map[u] \in Ids
        /\ token_map[u] < Len(entries') /\ entries[token_map[u] + 1] = u
    BY <1>1, <1>3
  <2>2. token_map[u] \in Nat
    BY <2>1, Numbers
  <2> QED
    BY <1>2, <2>1, <2>2
<1>6. \A i \in 1 .. Len(entries') : token_map'[entries'[i]] = i - 1
  <2> SUFFICES ASSUME NEW i \in 1 .. Len(entries') PROVE token_map'[entries'[i]] = i - 1
    OBVIOUS
  <2>1. i \in 1 .. Len(entries) /\ entries'[i] = entries[i]
    BY <1>1, <1>2
  <2>2. entries[i] \in Token /\ token_map[entries[i]] = i - 1 /\ i - 1 < Len(entries')
    BY <1>1, <1>2, <2>1
  <2> QED
    BY <1>3, <2>1, <2>2
<1> QED
  BY <1>2, <1>4, <1>5, <1>6 DEF VocabularyConsistent, entry_count

-------------------------------------------------------------------------------
(* The steps of a worker.                                                  *)

(* AdvanceDoc moves the start of the worker's own chunk by one.            *)
LEMMA AdvanceIs ==
  ASSUME TypeOK, NEW w \in Workers, AdvanceDoc(w)
  PROVE  /\ wrange' \in [Workers -> Nat \X Nat]
         /\ wrange'[w][1] = wrange[w][1] + 1 /\ wrange'[w][2] = wrange[w][2]
         /\ wpc' \in [Workers -> {"start", "claim", "docs", "done"}]
         /\ wpc'[w] = IF wrange[w][1] + 1 < wrange[w][2] THEN "docs" ELSE "claim"
         /\ \A v \in Workers : v # w => wrange'[v] = wrange[v] /\ wpc'[v] = wpc[v]
<1>1. wrange \in [Workers -> Nat \X Nat] /\ wpc \in [Workers -> {"start", "claim", "docs", "done"}]
  BY DEF TypeOK
<1>2. wrange[w] \in Nat \X Nat
  BY <1>1
<1>3. wrange' = [wrange EXCEPT ![w] = [wrange[w] EXCEPT ![1] = wrange[w][1] + 1]]
  BY DEF AdvanceDoc
<1>4. [wrange[w] EXCEPT ![1] = wrange[w][1] + 1] = <<wrange[w][1] + 1, wrange[w][2]>>
  BY <1>2
<1>5. wpc' = [wpc EXCEPT ![w] = IF wrange[w][1] + 1 < wrange[w][2] THEN "docs" ELSE "claim"]
  BY DEF AdvanceDoc, WorkerGoto, Current
<1> QED
  BY <1>1, <1>2, <1>3, <1>4, <1>5

(* The position a worker is at is one of the batch; a valid one has a slot *)
(* of the batch.                                                           *)
LEMMA CurrentIs ==
  ASSUME IInv, pc = "resolve", NEW w \in Workers, wpc[w] = "docs"
  PROVE  /\ Current(w) \in Nat /\ Current(w) = wrange[w][1] /\ wrange[w][2] \in Nat
         /\ Current(w) + 1 \in 1 .. Len(batch) /\ Current(w) + 1 <= wrange[w][2]
         /\ (doc_map[Current(w) + 1] >= 0 <=> Current(w) + 1 \in Valid(batch))
<1>1. /\ wrange[w] \in Nat \X Nat /\ Len(batch) \in Nat /\ batch \in Seq(Doc)
  BY DEF IInv, TypeOK
<1>2. /\ wrange[w][1] < wrange[w][2] /\ wrange[w][2] <= Len(batch)
      /\ doc_map = DocMap(batch)
  BY DEF IInv, RangesInv, BatchInv, Batching
<1> QED
  BY <1>1, <1>2, Numbering DEF Current

(* The documents of a batch have slots of their own, within the batch.     *)
LEMMA SlotOfValid ==
  ASSUME IInv, Batching
  PROVE  /\ \A j \in Valid(batch) : SlotOf(j) \in base_doc .. doc_count - 1 /\ SlotOf(j) \in Slots
         /\ \A i, j \in Valid(batch) : SlotOf(i) = SlotOf(j) => i = j
<1>1. /\ doc_map = DocMap(batch) /\ doc_count = base_doc + ValidCount(batch)
      /\ doc_count <= MaxDocs /\ base_doc \in Nat /\ batch \in Seq(Doc) /\ doc_count \in Nat
  BY DEF IInv, TypeOK, BatchInv, SlotsWritten
<1>2. /\ \A j \in Valid(batch) : DocMap(batch)[j] \in Nat /\ DocMap(batch)[j] < ValidCount(batch)
      /\ \A i, j \in Valid(batch) : DocMap(batch)[i] = DocMap(batch)[j] => i = j
      /\ ValidCount(batch) \in Nat
  BY <1>1, Numbering, ValidFinite
<1>3. \A j \in Valid(batch) : SlotOf(j) = base_doc + DocMap(batch)[j]
  BY <1>1 DEF SlotOf
<1>4. \A j \in Valid(batch) : SlotOf(j) \in base_doc .. doc_count - 1
  BY <1>1, <1>2, <1>3
<1>5. \A d \in base_doc .. doc_count - 1 : d \in Slots
  BY <1>1, Numbers
<1>6. ASSUME NEW i \in Valid(batch), NEW j \in Valid(batch), SlotOf(i) = SlotOf(j)
      PROVE  i = j
  <2>1. DocMap(batch)[i] \in Nat /\ DocMap(batch)[j] \in Nat
    BY <1>2
  <2>2. DocMap(batch)[i] = DocMap(batch)[j]
    BY <1>1, <1>3, <1>6, <2>1
  <2> QED
    BY <1>2, <2>2
<1> QED
  BY <1>4, <1>5, <1>6

(* The ids a worker finds for the tokens of document j.                    *)
IdsOf(doc) == [i \in 1 .. Len(doc) |-> Lookup(doc[i])]

(* The ids a worker computes are what the table holds for the tokens.      *)
LEMMA IdsAre ==
  ASSUME TypeOK, NEW doc \in Doc
  PROVE  /\ IdsOf(doc) \in IdList /\ Len(IdsOf(doc)) = Len(doc) /\ Len(doc) \in Nat
         /\ \A i \in 1 .. Len(doc) : IdsOf(doc)[i] = Lookup(doc[i])
<1>1. /\ token_map \in [Token -> Ids \union {NotFound}]
      /\ Len(doc) \in Nat /\ \A i \in 1 .. Len(doc) : doc[i] \in Token \union {NoToken}
  BY DEF TypeOK, Doc
<1>2. \A i \in 1 .. Len(doc) : Lookup(doc[i]) \in Ids \union {NotFound}
  BY <1>1 DEF Lookup
<1> QED
  BY <1>1, <1>2 DEF IdsOf, IdList

(* WorkerResolve in terms of its document's position j in the batch.       *)
LEMMA ResolveIs ==
  ASSUME IInv, NEW w \in Workers, WorkerResolve(w)
  PROVE  LET j == wrange[w][1] + 1
         IN  /\ pc = "resolve" /\ wpc[w] = "docs" /\ j \in Valid(batch) /\ AdvanceDoc(w)
             /\ \/ slot' = [slot EXCEPT ![SlotOf(j)] = Null] /\ freq' = freq
                \/ /\ slot' = [slot EXCEPT ![SlotOf(j)] = IdsOf(batch[j])]
                   /\ freq' = [i \in Ids |-> IF HasToken(IdsOf(batch[j]), i)
                                             THEN freq[i] + 1 ELSE freq[i]]
             /\ UNCHANGED <<entries, doc_freq, token_map, doc_count, doc_cap, pc, batch, at,
                            todo, doc_map, map_out, base_doc, source, before, next_idx, error>>
<1>1. pc = "resolve" /\ wpc[w] = "docs" /\ doc_map[Current(w) + 1] >= 0
  BY DEF WorkerResolve
<1>2. Current(w) = wrange[w][1] /\ Current(w) + 1 \in Valid(batch)
  BY <1>1, CurrentIs
<1> QED
  BY <1>1, <1>2 DEF WorkerResolve, IdsOf

-------------------------------------------------------------------------------
(* Types.                                                                  *)

(* After the growth step of add_doc there is room for a document.          *)
LEMMA CapGrows ==
  ASSUME doc_count \in Nat, doc_cap \in Nat, doc_count <= doc_cap,
         doc_cap' = IF doc_count < doc_cap THEN doc_cap
                    ELSE IF doc_cap < InitDocCap THEN InitDocCap ELSE doc_cap * 2
  PROVE  doc_cap' \in Nat /\ doc_count < doc_cap'
<1>1. InitDocCap \in Nat /\ InitDocCap > 0
  BY CapsAssumption
<1> QED
  BY <1>1

(* Every step keeps the types.                                             *)
LEMMA TypeStep == IInv /\ [Next]_vars => TypeOK'
<1> SUFFICES ASSUME IInv, [Next]_vars PROVE TypeOK'
  OBVIOUS
<1> USE DEF TypeOK
<1>0. TypeOK /\ doc_count <= MaxDocs /\ doc_count <= doc_cap /\ entry_count <= MaxEntries
      /\ VocabularyConsistent
  BY DEF IInv, SlotsWritten
<1>1. CASE UNCHANGED vars
  BY <1>0, <1>1 DEF vars, corpus, work
<1>2. ASSUME NEW doc \in Docs, CallAddDoc(doc) PROVE TypeOK'
  <2>1. doc \in Doc
    BY TokensAssumption DEF Doc
  <2>2. <<doc>> \in Seq(Doc)
    BY <2>1
  <2> QED
    BY <1>0, <1>2, <2>2 DEF CallAddDoc, corpus, work
<1>3. ASSUME NEW b \in Batches, RejectBatch(b) PROVE TypeOK'
  <2>1. b \in Seq(Doc)
    BY TokensAssumption DEF Doc
  <2> QED
    BY <1>0, <1>3, <2>1 DEF RejectBatch, corpus, work
<1>4. ASSUME NEW b \in Batches, BatchBegin(b) PROVE TypeOK'
  <2>1. b \in Seq(Doc)
    BY TokensAssumption DEF Doc
  <2>2. ValidCount(b) \in Nat
    BY <2>1, ValidFinite
  <2>3. doc_count' \in Nat /\ doc_cap' \in Nat /\ base_doc' \in Nat
    BY <1>0, <1>4, <2>2 DEF BatchBegin
  <2>4. slot' \in [Slots -> {Null, Garbage} \union IdList]
    BY <1>0, <1>4 DEF BatchBegin
  <2>5. source' \in [Slots -> Doc]
    <3>1. ASSUME NEW d \in Slots, d \in doc_count .. doc_count' - 1
          PROVE  DocNumbered(b, d - doc_count) \in Doc
      <4>1. d - doc_count \in 0 .. ValidCount(b) - 1
        BY <1>0, <1>4, <2>2, <3>1, Numbers DEF BatchBegin
      <4>2. PICK j \in Valid(b) : DocMap(b)[j] = d - doc_count
        BY <2>1, <4>1, NumberingOnto
      <4>3. DocNumbered(b, d - doc_count) = b[j]
        BY <2>1, <4>2, DocAtNumber
      <4>4. j \in 1 .. Len(b)
        BY <2>1, ValidFinite
      <4> QED
        BY <2>1, <4>3, <4>4
    <3> QED
      BY <1>0, <1>4, <3>1 DEF BatchBegin
  <2>6. <<>> \in Doc
    BY DEF Doc
  <2> QED
    BY <1>0, <1>4, <2>1, <2>3, <2>4, <2>5, <2>6 DEF BatchBegin, work
<1>5. CASE SkipDoc
  <2>1. slot' \in [Slots -> {Null, Garbage} \union IdList]
    BY <1>0, <1>5 DEF SkipDoc
  <2>2. doc_cap' \in Nat
    BY <1>0, <1>5, CapGrows DEF SkipDoc
  <2> QED
    BY <1>0, <1>5, <2>1, <2>2 DEF SkipDoc, work
<1>6. CASE StartDoc
  <2>1. batch[at] \in Doc
    BY <1>0, <1>6 DEF StartDoc
  <2>2. <<>> \in IdList
    BY DEF IdList
  <2>3. slot' \in [Slots -> {Null, Garbage} \union IdList] /\ source' \in [Slots -> Doc]
    BY <1>0, <1>6, <2>1, <2>2 DEF StartDoc
  <2>4. doc_cap' \in Nat
    BY <1>0, <1>6, CapGrows DEF StartDoc
  <2> QED
    BY <1>0, <1>6, <2>1, <2>3, <2>4 DEF StartDoc, work
<1>7. CASE AddToken
  <2>1. PICK id \in Ids \union {NotFound} :
          /\ GetOrAdd(Head(todo), id)
          /\ slot' = [slot EXCEPT ![doc_count - 1] = Append(@, id)]
          /\ doc_freq' = IF id = NotFound \/ ~ NewInDoc(id) THEN doc_freq
                         ELSE [doc_freq EXCEPT ![id] = FreqOf(id) + 1]
    BY <1>7 DEF AddToken
  <2>2. Head(todo) \in Token \union {NoToken} /\ todo' \in Doc
    BY <1>0, <1>7 DEF AddToken, Doc
  <2>3. entries' \in Seq(Token) /\ token_map' \in [Token -> Ids \union {NotFound}]
    BY <1>0, <2>1, <2>2, VocabularyGrows
  <2>4. slot' \in [Slots -> {Null, Garbage} \union IdList]
    <3>1. doc_count > 0 /\ slot[doc_count - 1] # Null
      BY <1>7 DEF AddToken, IInv, DocsInv, Partial
    <3>2. doc_count - 1 \in Slots /\ slot[doc_count - 1] # Garbage
      BY <1>0, <3>1, Numbers DEF IInv, SlotsWritten
    <3>3. slot[doc_count - 1] \in IdList
      BY <1>0, <3>1, <3>2
    <3>4. Append(slot[doc_count - 1], id) \in IdList
      BY <2>1, <3>3 DEF IdList
    <3> QED
      BY <1>0, <2>1, <3>4
  <2>5. doc_freq' \in [Ids -> Int]
    <3>1. \A i \in Ids : FreqOf(i) + 1 \in Int
      BY <1>0 DEF FreqOf
    <3> QED
      BY <1>0, <2>1, <3>1
  <2> QED
    BY <1>0, <1>7, <2>2, <2>3, <2>4, <2>5 DEF AddToken, work
<1>8. CASE EndDoc \/ AddReturn
  BY <1>0, <1>8 DEF EndDoc, AddReturn, corpus, work
<1>9. CASE InsertDoc
  <2>1. batch[at] \in Doc /\ <<>> \in Doc
    BY <1>0, <1>9 DEF InsertDoc, Doc
  <2> QED
    BY <1>0, <1>9, <2>1 DEF InsertDoc, corpus, work
<1>10. CASE InsertToken
  <2>1. PICK id \in Ids \union {NotFound} :
          /\ GetOrAdd(Head(todo), id)
          /\ doc_freq' = IF id = NotFound THEN doc_freq
                         ELSE [doc_freq EXCEPT ![id] = FreqOf(id)]
    BY <1>10 DEF InsertToken
  <2>2. Head(todo) \in Token \union {NoToken} /\ todo' \in Doc
    BY <1>0, <1>10 DEF InsertToken, Doc
  <2>3. entries' \in Seq(Token) /\ token_map' \in [Token -> Ids \union {NotFound}]
    BY <1>0, <2>1, <2>2, VocabularyGrows
  <2>4. doc_freq' \in [Ids -> Int]
    <3>1. \A i \in Ids : FreqOf(i) \in Int
      BY <1>0 DEF FreqOf
    <3> QED
      BY <1>0, <2>1, <3>1
  <2> QED
    BY <1>0, <1>10, <2>2, <2>3, <2>4 DEF InsertToken, work
<1>11. CASE Fallback
  BY <1>0, <1>11 DEF Fallback, work
<1>12. CASE StartResolve
  BY <1>0, <1>12 DEF StartResolve, corpus
<1>13. CASE Rollback
  <2>1. /\ entries' \in Seq(Token) /\ token_map' \in [Token -> Ids \union {NotFound}]
    <3>1. Len(before.entries) \in Nat /\ Len(before.entries) <= entry_count
      BY <1>13 DEF Rollback, IInv, BatchInv, Batching
    <3> QED
      BY <1>0, <1>13, <3>1, VocabularyCut DEF Rollback
  <2>2. slot' \in [Slots -> {Null, Garbage} \union IdList]
    BY <1>0, <1>13 DEF Rollback
  <2> QED
    BY <1>0, <1>13, <2>1, <2>2 DEF Rollback, work
<1>14. CASE Commit
  <2>1. doc_freq' \in [Ids -> Int]
    BY <1>0, <1>14 DEF Commit
  <2> QED
    BY <1>0, <1>14, <2>1 DEF Commit, work
<1>15. ASSUME NEW w \in Workers, WorkerStart(w) \/ WorkerStop(w) PROVE TypeOK'
  BY <1>0, <1>15 DEF WorkerStart, WorkerStop, WorkerGoto, caller, corpus
<1>16. ASSUME NEW w \in Workers, WorkerClaim(w) PROVE TypeOK'
  <2>1. next_idx' \in Nat
    BY SMTT(30), <1>0, <1>16, CapsAssumption DEF WorkerClaim, NextIdx
  <2>2. wrange' \in [Workers -> Nat \X Nat]
    <3>1. <<next_idx, IF next_idx' < Len(batch) THEN next_idx' ELSE Len(batch)>> \in Nat \X Nat
      BY <1>0, <2>1
    <3> QED
      BY <1>0, <1>16, <3>1 DEF WorkerClaim
  <2> QED
    BY <1>0, <1>16, <2>1, <2>2 DEF WorkerClaim, WorkerGoto, caller, corpus
<1>17. ASSUME NEW w \in Workers, WorkerSkip(w) PROVE TypeOK'
  BY <1>0, <1>17, AdvanceIs DEF WorkerSkip, caller, corpus
<1>18. ASSUME NEW w \in Workers, WorkerResolve(w) PROVE TypeOK'
  <2> DEFINE j == wrange[w][1] + 1
  <2>1. /\ pc = "resolve" /\ wpc[w] = "docs" /\ j \in Valid(batch) /\ AdvanceDoc(w)
        /\ \/ slot' = [slot EXCEPT ![SlotOf(j)] = Null] /\ freq' = freq
           \/ /\ slot' = [slot EXCEPT ![SlotOf(j)] = IdsOf(batch[j])]
              /\ freq' = [i \in Ids |-> IF HasToken(IdsOf(batch[j]), i)
                                        THEN freq[i] + 1 ELSE freq[i]]
        /\ UNCHANGED <<entries, doc_freq, token_map, doc_count, doc_cap, pc, batch, at,
                       todo, doc_map, map_out, base_doc, source, before, next_idx, error>>
    BY <1>18, ResolveIs
  <2> HIDE DEF j
  <2>2. batch[j] \in Doc
    BY <1>0, <2>1, ValidFinite
  <2>3. IdsOf(batch[j]) \in IdList
    BY <1>0, <2>2, IdsAre
  <2>4. slot' \in [Slots -> {Null, Garbage} \union IdList]
    BY <1>0, <2>1, <2>3
  <2>5. freq' \in [Ids -> Nat]
    <3>1. freq \in [Ids -> Nat]
      BY <1>0
    <3>2. CASE freq' = freq
      BY <3>1, <3>2
    <3>3. CASE freq' = [i \in Ids |-> IF HasToken(IdsOf(batch[j]), i)
                                     THEN freq[i] + 1 ELSE freq[i]]
      <4> HIDE DEF TypeOK
      <4> QED
        BY <3>1, <3>3
    <3> QED
      BY <2>1, <3>2, <3>3
  <2>6. /\ wrange' \in [Workers -> Nat \X Nat]
        /\ wpc' \in [Workers -> {"start", "claim", "docs", "done"}]
    BY <1>0, <2>1, AdvanceIs
  <2> QED
    BY <1>0, <2>1, <2>4, <2>5, <2>6
<1> QED
  BY <1>1, <1>2, <1>3, <1>4, <1>5, <1>6, <1>7, <1>8, <1>9, <1>10, <1>11, <1>12, <1>13, <1>14,
     <1>15, <1>16, <1>17, <1>18 DEF Next, CallerStep, WorkerStep

-------------------------------------------------------------------------------
(* The vocabulary.                                                         *)

(* Looking up a token of add_doc: what its step does to the vocabulary, to *)
(* the document's slot and to doc_freq.                                    *)
LEMMA AddTokenIs ==
  ASSUME IInv, AddToken
  PROVE  \E id \in Ids \union {NotFound} :
           /\ GetOrAdd(Head(todo), id) /\ Head(todo) \in Token \union {NoToken}
           /\ doc_count - 1 \in Slots /\ doc_count > 0
           /\ slot[doc_count - 1] \in IdList
           /\ slot' = [slot EXCEPT ![doc_count - 1] = Append(slot[doc_count - 1], id)]
           /\ doc_freq' = IF id = NotFound \/ ~ NewInDoc(id) THEN doc_freq
                          ELSE [doc_freq EXCEPT ![id] = FreqOf(id) + 1]
<1>1. PICK id \in Ids \union {NotFound} :
        /\ GetOrAdd(Head(todo), id)
        /\ slot' = [slot EXCEPT ![doc_count - 1] = Append(slot[doc_count - 1], id)]
        /\ doc_freq' = IF id = NotFound \/ ~ NewInDoc(id) THEN doc_freq
                       ELSE [doc_freq EXCEPT ![id] = FreqOf(id) + 1]
  BY DEF AddToken
<1>2. Head(todo) \in Token \union {NoToken}
  BY DEF AddToken, IInv, TypeOK, Doc
<1>3. doc_count > 0 /\ slot[doc_count - 1] # Null
  BY DEF AddToken, IInv, DocsInv, Partial
<1>4. doc_count - 1 \in Slots /\ slot[doc_count - 1] # Garbage
  BY <1>3, Numbers DEF IInv, TypeOK, SlotsWritten
<1>5. slot[doc_count - 1] \in IdList
  BY <1>3, <1>4 DEF IInv, TypeOK
<1> QED
  BY <1>1, <1>2, <1>3, <1>4, <1>5

(* Looking up a token in Phase A of a batch.                               *)
LEMMA InsertTokenIs ==
  ASSUME IInv, InsertToken
  PROVE  \E id \in Ids \union {NotFound} :
           /\ GetOrAdd(Head(todo), id) /\ Head(todo) \in Token \union {NoToken}
           /\ doc_freq' = IF id = NotFound THEN doc_freq
                          ELSE [doc_freq EXCEPT ![id] = FreqOf(id)]
<1>1. Head(todo) \in Token \union {NoToken}
  BY DEF InsertToken, IInv, TypeOK, Doc
<1> QED
  BY <1>1 DEF InsertToken

(* What is known of entries[] when a worker failed.                        *)
LEMMA RollbackCuts ==
  ASSUME IInv, Rollback
  PROVE  /\ Len(before.entries) \in Nat /\ Len(before.entries) <= Len(entries)
         /\ entries' \in Seq(Token) /\ Len(entries') = Len(before.entries)
         /\ \A i \in 1 .. Len(entries') : entries'[i] = entries[i]
         /\ VocabularyConsistent'
<1>1. Len(before.entries) \in Nat /\ Len(before.entries) <= entry_count
  BY DEF Rollback, IInv, BatchInv, Batching
<1>2. /\ entries' \in Seq(Token) /\ Len(entries') = Len(before.entries)
      /\ \A i \in 1 .. Len(entries') : entries'[i] = entries[i]
      /\ VocabularyConsistent'
  BY <1>1, VocabularyCut DEF Rollback, IInv
<1> QED
  BY <1>1, <1>2 DEF entry_count

(* The steps that leave the vocabulary and doc_freq alone.                 *)
LEMMA VocabularyEdges ==
  ASSUME [Next]_vars
  PROVE  \/ AddToken \/ InsertToken \/ Rollback
         \/ UNCHANGED <<entries, token_map>>
<1> USE DEF corpus, caller
<1>1. CASE UNCHANGED vars
  BY <1>1 DEF vars
<1>2. ASSUME NEW doc \in Docs, CallAddDoc(doc) PROVE UNCHANGED <<entries, token_map>>
  BY <1>2 DEF CallAddDoc
<1>3. ASSUME NEW b \in Batches, RejectBatch(b) \/ BatchBegin(b)
      PROVE  UNCHANGED <<entries, token_map>>
  BY <1>3 DEF RejectBatch, BatchBegin
<1>4. CASE CallerStep
  BY <1>4 DEF CallerStep, SkipDoc, StartDoc, EndDoc, AddReturn, InsertDoc, Fallback,
              StartResolve, Commit
<1>5. ASSUME NEW w \in Workers, WorkerStep(w) PROVE UNCHANGED <<entries, token_map>>
  BY <1>5 DEF WorkerStep, WorkerStart, WorkerClaim, WorkerStop, WorkerSkip, WorkerResolve
<1> QED
  BY <1>1, <1>2, <1>3, <1>4, <1>5 DEF Next

(* The table and entries[] keep describing the same numbering, and the     *)
(* vocabulary stays within its cap.                                        *)
LEMMA VocabularyStep ==
  IInv /\ [Next]_vars => VocabularyConsistent' /\ Len(entries') <= MaxEntries
<1> SUFFICES ASSUME IInv, [Next]_vars
             PROVE  VocabularyConsistent' /\ Len(entries') <= MaxEntries
  OBVIOUS
<1>1. /\ TypeOK /\ VocabularyConsistent /\ entry_count <= MaxEntries
      /\ Len(entries) \in Nat /\ MaxEntries \in Nat
  BY Numbers DEF IInv, SlotsWritten, TypeOK
<1>2. CASE AddToken
  BY <1>1, <1>2, AddTokenIs, VocabularyGrows
<1>3. CASE InsertToken
  BY <1>1, <1>3, InsertTokenIs, VocabularyGrows
<1>4. CASE Rollback
  <2>1. /\ Len(before.entries) \in Nat /\ Len(before.entries) <= Len(entries)
        /\ Len(entries') = Len(before.entries) /\ VocabularyConsistent'
    BY <1>4, RollbackCuts
  <2> QED
    BY <1>1, <2>1 DEF entry_count
<1>5. CASE UNCHANGED <<entries, token_map>>
  BY <1>1, <1>5 DEF VocabularyConsistent, entry_count
<1> QED
  BY <1>2, <1>3, <1>4, <1>5, VocabularyEdges

-------------------------------------------------------------------------------
(* The slots.                                                              *)

(* Nothing is written to the documents by the steps other than these.      *)
LEMMA SlotEdges ==
  ASSUME [Next]_vars
  PROVE  \/ \E b \in Batches : BatchBegin(b)
         \/ SkipDoc \/ StartDoc \/ AddToken \/ Fallback \/ Rollback
         \/ \E w \in Workers : WorkerResolve(w)
         \/ UNCHANGED <<slot, doc_count, doc_cap, source>>
<1> USE DEF corpus, caller
<1>1. CASE UNCHANGED vars
  BY <1>1 DEF vars
<1>2. ASSUME NEW doc \in Docs, CallAddDoc(doc)
      PROVE  UNCHANGED <<slot, doc_count, doc_cap, source>>
  BY <1>2 DEF CallAddDoc
<1>3. ASSUME NEW b \in Batches, RejectBatch(b)
      PROVE  UNCHANGED <<slot, doc_count, doc_cap, source>>
  BY <1>3 DEF RejectBatch
<1>4. ASSUME EndDoc \/ AddReturn \/ InsertDoc \/ InsertToken \/ StartResolve \/ Commit
      PROVE  UNCHANGED <<slot, doc_count, doc_cap, source>>
  BY <1>4 DEF EndDoc, AddReturn, InsertDoc, InsertToken, StartResolve, Commit
<1>5. ASSUME NEW w \in Workers,
             WorkerStart(w) \/ WorkerClaim(w) \/ WorkerStop(w) \/ WorkerSkip(w)
      PROVE  UNCHANGED <<slot, doc_count, doc_cap, source>>
  BY <1>5 DEF WorkerStart, WorkerClaim, WorkerStop, WorkerSkip
<1> QED
  BY <1>1, <1>2, <1>3, <1>4, <1>5 DEF Next, CallerStep, WorkerStep

(* The documents stay within the caps and every slot of theirs is written. *)
LEMMA SlotsStep == IInv /\ [Next]_vars => SlotsWritten'
<1> SUFFICES ASSUME IInv, [Next]_vars PROVE SlotsWritten'
  OBVIOUS
<1>0. /\ TypeOK /\ doc_count \in Nat /\ doc_cap \in Nat /\ MaxDocs \in Nat
      /\ doc_count <= MaxDocs /\ doc_count <= doc_cap
      /\ slot \in [Slots -> {Null, Garbage} \union IdList]
      /\ \A d \in 0 .. doc_count - 1 : slot[d] # Garbage
      /\ \A d \in 0 .. doc_count - 1 : d \in Slots
  BY Numbers DEF IInv, SlotsWritten, TypeOK
<1>1. Len(entries') <= MaxEntries
  BY VocabularyStep
<1> SUFFICES /\ doc_count' <= MaxDocs /\ doc_count' <= doc_cap'
             /\ \A d \in 0 .. doc_count' - 1 : slot'[d] # Garbage
  BY <1>1 DEF SlotsWritten, entry_count
<1>2. ASSUME NEW b \in Batches, BatchBegin(b)
      PROVE  /\ doc_count' <= MaxDocs /\ doc_count' <= doc_cap'
             /\ \A d \in 0 .. doc_count' - 1 : slot'[d] # Garbage
  <2>1. b \in Seq(Doc)
    BY TokensAssumption DEF Doc
  <2>2. ValidCount(b) \in Nat
    BY <2>1, ValidFinite
  <2>3. /\ doc_count' = doc_count + ValidCount(b) /\ doc_count' <= MaxDocs
        /\ doc_count' <= doc_cap'
    BY <1>0, <1>2, <2>2 DEF BatchBegin, Fits
  <2>4. \A d \in 0 .. doc_count' - 1 :
          slot'[d] = IF d \in doc_count .. doc_count' - 1 THEN Null ELSE slot[d]
    BY SMTT(30), <1>0, <1>2, <2>2, <2>3, Numbers DEF BatchBegin, ZeroedSlots
  <2> QED
    BY <1>0, <2>2, <2>3, <2>4, ListsAreWritten
<1>3. CASE SkipDoc
  <2>1. doc_count' = doc_count /\ doc_count <= doc_cap'
    BY <1>0, <1>3, CapGrows DEF SkipDoc
  <2>2. \A d \in 0 .. doc_count - 1 : slot'[d] = slot[d]
    BY <1>0, <1>3 DEF SkipDoc
  <2> QED
    BY <1>0, <2>1, <2>2
<1>4. CASE StartDoc
  <2>1. doc_count' = doc_count + 1 /\ doc_count < doc_cap' /\ doc_cap' \in Nat /\ doc_count < MaxDocs
    BY <1>0, <1>4, CapGrows DEF StartDoc
  <2>2. <<>> # Garbage
    <3>1. <<>> \in IdList
      BY DEF IdList
    <3> QED
      BY <3>1, ListsAreWritten
  <2>3. \A d \in 0 .. doc_count : slot'[d] = IF d = doc_count THEN <<>> ELSE slot[d]
    BY <1>0, <1>4, Numbers DEF StartDoc
  <2> QED
    BY <1>0, <2>1, <2>2, <2>3
<1>5. CASE AddToken
  <2>1. PICK id \in Ids \union {NotFound} :
           /\ doc_count - 1 \in Slots /\ doc_count > 0
           /\ slot[doc_count - 1] \in IdList
           /\ slot' = [slot EXCEPT ![doc_count - 1] = Append(slot[doc_count - 1], id)]
    BY <1>5, AddTokenIs
  <2>2. Append(slot[doc_count - 1], id) \in IdList
    BY <2>1 DEF IdList
  <2>3. \A d \in Slots : slot'[d] # slot[d] => slot'[d] \in IdList
    BY <1>0, <2>1, <2>2
  <2>4. doc_count' = doc_count /\ doc_cap' = doc_cap
    BY <1>5 DEF AddToken
  <2> QED
    BY <1>0, <2>3, <2>4, ListsAreWritten
<1>6. CASE Fallback
  <2>1. base_doc \in Nat /\ base_doc <= doc_count
    BY <1>6 DEF Fallback, IInv, TypeOK, BatchInv, Batching
  <2> QED
    BY <1>0, <1>6, <2>1 DEF Fallback
<1>7. CASE Rollback
  <2>1. base_doc \in Nat /\ base_doc <= doc_count
    BY <1>7 DEF Rollback, IInv, TypeOK, BatchInv, Batching
  <2>2. doc_count' = base_doc /\ doc_cap' = doc_cap
    BY <1>7 DEF Rollback
  <2>3. \A d \in 0 .. base_doc - 1 : slot'[d] = slot[d]
    BY <1>0, <1>7, <2>1 DEF Rollback
  <2> QED
    BY <1>0, <2>1, <2>2, <2>3
<1>8. ASSUME NEW w \in Workers, WorkerResolve(w)
      PROVE  /\ doc_count' <= MaxDocs /\ doc_count' <= doc_cap'
             /\ \A d \in 0 .. doc_count' - 1 : slot'[d] # Garbage
  <2> DEFINE j == wrange[w][1] + 1
  <2>1. /\ j \in Valid(batch)
        /\ \/ slot' = [slot EXCEPT ![SlotOf(j)] = Null]
           \/ slot' = [slot EXCEPT ![SlotOf(j)] = IdsOf(batch[j])]
        /\ UNCHANGED <<doc_count, doc_cap>>
    BY <1>8, ResolveIs
  <2> HIDE DEF j
  <2>2. IdsOf(batch[j]) \in IdList
    <3>1. batch[j] \in Doc
      BY <1>0, <2>1, ValidFinite DEF TypeOK
    <3> QED
      BY <1>0, <3>1, IdsAre
  <2>3. \A d \in Slots : slot'[d] = slot[d] \/ slot'[d] = Null \/ slot'[d] \in IdList
    BY <1>0, <2>1, <2>2
  <2> QED
    BY <1>0, <2>1, <2>3, ListsAreWritten
<1>9. CASE UNCHANGED <<slot, doc_count, doc_cap, source>>
  BY <1>0, <1>9
<1> QED
  BY <1>2, <1>3, <1>4, <1>5, <1>6, <1>7, <1>8, <1>9, SlotEdges

-------------------------------------------------------------------------------
(* The chunks of the workers.                                              *)

(* What RangesInv says of the workers' chunks, with the types it needs.    *)
LEMMA ChunksAre ==
  ASSUME IInv, pc = "resolve"
  PROVE  /\ next_idx \in Nat /\ Len(batch) \in Nat
         /\ \A v \in Workers : wrange[v][1] \in Nat /\ wrange[v][2] \in Nat
         /\ \A v \in Workers : wpc[v] = "docs" =>
              wrange[v][1] < wrange[v][2] /\ wrange[v][2] <= next_idx /\ wrange[v][2] <= Len(batch)
         /\ \A v, u \in Workers : v # u /\ wpc[v] = "docs" /\ wpc[u] = "docs" =>
              wrange[v][2] <= wrange[u][1] \/ wrange[u][2] <= wrange[v][1]
<1>1. \A v \in Workers : wrange[v] \in Nat \X Nat
  BY DEF IInv, TypeOK
<1>2. \A v \in Workers : wrange[v][1] \in Nat /\ wrange[v][2] \in Nat
  BY <1>1
<1> QED
  BY <1>2 DEF IInv, TypeOK, RangesInv

(* Claiming the next chunk.                                                *)
LEMMA ClaimIs ==
  ASSUME IInv, NEW w \in Workers, WorkerClaim(w)
  PROVE  /\ pc = "resolve" /\ next_idx \in Nat /\ next_idx' \in Nat /\ next_idx < next_idx'
         /\ Len(batch) \in Nat
         /\ UNCHANGED <<pc, batch, base_doc, doc_map, slot>>
         /\ \A v \in Workers : v # w => wrange'[v] = wrange[v] /\ wpc'[v] = wpc[v]
         /\ wpc'[w] = "docs" => /\ wrange'[w][1] = next_idx /\ next_idx < Len(batch)
                                /\ wrange'[w][2] = IF next_idx' < Len(batch) THEN next_idx'
                                                                              ELSE Len(batch)
<1>1. /\ next_idx \in Nat /\ Len(batch) \in Nat
      /\ wpc \in [Workers -> {"start", "claim", "docs", "done"}] /\ DOMAIN wrange = Workers
  BY DEF IInv, TypeOK
<1>2. next_idx' \in Nat /\ next_idx < next_idx'
  BY <1>1, CapsAssumption DEF WorkerClaim, NextIdx
<1>3. pc = "resolve" /\ UNCHANGED <<pc, batch, base_doc, doc_map, slot>>
  BY DEF WorkerClaim, caller, corpus
<1>4. CASE next_idx >= Len(batch)
  BY <1>1, <1>2, <1>3, <1>4 DEF WorkerClaim, WorkerGoto
<1>5. CASE next_idx < Len(batch)
  <2>1. /\ wpc' = [wpc EXCEPT ![w] = "docs"]
        /\ wrange' = [wrange EXCEPT ![w] =
             <<next_idx, IF next_idx' < Len(batch) THEN next_idx' ELSE Len(batch)>>]
    BY <1>1, <1>5 DEF WorkerClaim, WorkerGoto
  <2> QED
    BY <1>1, <1>2, <1>3, <1>5, <2>1
<1> QED
  BY <1>1, <1>4, <1>5

(* The steps of a worker that change its chunk only by the document it     *)
(* leaves behind.                                                          *)
LEMMA AdvanceEdge ==
  ASSUME IInv, NEW w \in Workers, WorkerSkip(w) \/ WorkerResolve(w)
  PROVE  /\ pc = "resolve" /\ wpc[w] = "docs" /\ AdvanceDoc(w)
         /\ UNCHANGED <<pc, batch, next_idx, base_doc, doc_map>>
  BY DEF WorkerSkip, WorkerResolve, caller, corpus

(* The other steps of a worker leave its chunk alone and enter none.       *)
LEMMA NoChunkEdge ==
  ASSUME IInv, NEW w \in Workers, WorkerStart(w) \/ WorkerStop(w)
  PROVE  /\ pc = "resolve" /\ UNCHANGED <<pc, batch, next_idx, wrange, base_doc, doc_map, slot>>
         /\ \A v \in Workers : wpc'[v] = "docs" => wpc[v] = "docs"
<1>1. wpc \in [Workers -> {"start", "claim", "docs", "done"}]
  BY DEF IInv, TypeOK
<1> QED
  BY <1>1 DEF WorkerStart, WorkerStop, WorkerGoto, caller, corpus

(* Which steps reach or continue Phase B.                                  *)
LEMMA ResolveEdges ==
  ASSUME [Next]_vars, pc' = "resolve"
  PROVE  \/ StartResolve \/ (\E w \in Workers : WorkerStep(w)) \/ UNCHANGED vars
<1>1. ASSUME NEW doc \in Docs, CallAddDoc(doc) PROVE FALSE
  BY <1>1 DEF CallAddDoc
<1>2. ASSUME NEW b \in Batches, RejectBatch(b) \/ BatchBegin(b) PROVE FALSE
  BY <1>2 DEF RejectBatch, BatchBegin
<1>3. ASSUME SkipDoc \/ StartDoc \/ AddToken \/ EndDoc \/ AddReturn \/ InsertDoc
             \/ InsertToken \/ Fallback \/ Rollback \/ Commit
      PROVE  FALSE
  BY <1>3 DEF SkipDoc, StartDoc, AddToken, EndDoc, AddReturn, InsertDoc, InsertToken,
              Fallback, Rollback, Commit
<1> QED
  BY <1>1, <1>2, <1>3 DEF Next, CallerStep

(* The workers keep chunks of their own.                                   *)
LEMMA RangesStep == IInv /\ [Next]_vars => RangesInv'
<1> SUFFICES ASSUME IInv, [Next]_vars, pc' = "resolve"
             PROVE  /\ \A v \in Workers : wpc'[v] = "docs" =>
                         /\ wrange'[v][1] < wrange'[v][2] /\ wrange'[v][2] <= next_idx'
                         /\ wrange'[v][2] <= Len(batch')
                    /\ \A v, u \in Workers : v # u /\ wpc'[v] = "docs" /\ wpc'[u] = "docs" =>
                         wrange'[v][2] <= wrange'[u][1] \/ wrange'[u][2] <= wrange'[v][1]
  BY DEF RangesInv
<1>1. CASE StartResolve
  BY <1>1 DEF StartResolve
<1>2. CASE UNCHANGED vars
  BY <1>2 DEF vars, work, IInv, RangesInv
<1>3. ASSUME NEW w \in Workers, WorkerStart(w) \/ WorkerStop(w)
      PROVE  RangesInv'
  BY <1>3, NoChunkEdge, ChunksAre DEF RangesInv
<1>4. ASSUME NEW w \in Workers, WorkerClaim(w)
      PROVE  RangesInv'
  <2>1. /\ pc = "resolve" /\ next_idx \in Nat /\ next_idx' \in Nat /\ next_idx < next_idx'
        /\ Len(batch) \in Nat /\ batch' = batch
        /\ \A v \in Workers : v # w => wrange'[v] = wrange[v] /\ wpc'[v] = wpc[v]
        /\ wpc'[w] = "docs" => /\ wrange'[w][1] = next_idx /\ next_idx < Len(batch)
                               /\ wrange'[w][2] = IF next_idx' < Len(batch) THEN next_idx'
                                                                             ELSE Len(batch)
    BY <1>4, ClaimIs
  <2>2. \A v \in Workers : wpc'[v] = "docs" =>
          /\ wrange'[v][1] < wrange'[v][2] /\ wrange'[v][2] <= next_idx'
          /\ wrange'[v][2] <= Len(batch')
    BY <2>1, ChunksAre
  <2>3. \A v, u \in Workers : v # u /\ wpc'[v] = "docs" /\ wpc'[u] = "docs" =>
          wrange'[v][2] <= wrange'[u][1] \/ wrange'[u][2] <= wrange'[v][1]
    <3> SUFFICES ASSUME NEW v \in Workers, NEW u \in Workers, v # u,
                        wpc'[v] = "docs", wpc'[u] = "docs"
                 PROVE  wrange'[v][2] <= wrange'[u][1] \/ wrange'[u][2] <= wrange'[v][1]
      OBVIOUS
    <3>1. CASE v = w
      BY <2>1, <3>1, ChunksAre
    <3>2. CASE u = w
      BY <2>1, <3>2, ChunksAre
    <3>3. CASE v # w /\ u # w
      BY <2>1, <3>3, ChunksAre
    <3> QED
      BY <3>1, <3>2, <3>3
  <2> QED
    BY <2>2, <2>3 DEF RangesInv
<1>5. ASSUME NEW w \in Workers, WorkerSkip(w) \/ WorkerResolve(w)
      PROVE  RangesInv'
  <2>1. /\ pc = "resolve" /\ wpc[w] = "docs" /\ AdvanceDoc(w) /\ UNCHANGED <<batch, next_idx>>
    BY <1>5, AdvanceEdge
  <2>2. /\ wrange'[w][1] = wrange[w][1] + 1 /\ wrange'[w][2] = wrange[w][2]
        /\ wpc'[w] = IF wrange[w][1] + 1 < wrange[w][2] THEN "docs" ELSE "claim"
        /\ \A v \in Workers : v # w => wrange'[v] = wrange[v] /\ wpc'[v] = wpc[v]
    BY <2>1, AdvanceIs DEF IInv
  <2>3. \A v \in Workers : wpc'[v] = "docs" =>
          /\ wrange'[v][1] < wrange'[v][2] /\ wrange'[v][2] <= next_idx'
          /\ wrange'[v][2] <= Len(batch')
    BY <2>1, <2>2, ChunksAre
  <2>4. \A v, u \in Workers : v # u /\ wpc'[v] = "docs" /\ wpc'[u] = "docs" =>
          wrange'[v][2] <= wrange'[u][1] \/ wrange'[u][2] <= wrange'[v][1]
    <3> SUFFICES ASSUME NEW v \in Workers, NEW u \in Workers, v # u,
                        wpc'[v] = "docs", wpc'[u] = "docs"
                 PROVE  wrange'[v][2] <= wrange'[u][1] \/ wrange'[u][2] <= wrange'[v][1]
      OBVIOUS
    <3>1. \A q \in Workers : /\ wrange'[q][2] = wrange[q][2]
                             /\ wrange'[q][1] = wrange[q][1] \/ wrange'[q][1] = wrange[q][1] + 1
      BY <2>2
    <3>2. wpc[v] = "docs" /\ wpc[u] = "docs"
      BY <2>1, <2>2
    <3>3. wrange[v][2] <= wrange[u][1] \/ wrange[u][2] <= wrange[v][1]
      BY <2>1, <3>2, ChunksAre
    <3>4. /\ wrange[v][1] \in Nat /\ wrange[v][2] \in Nat
          /\ wrange[u][1] \in Nat /\ wrange[u][2] \in Nat
      BY <2>1, ChunksAre
    <3> QED
      BY <3>1, <3>3, <3>4
  <2> QED
    BY <2>3, <2>4 DEF RangesInv
<1> QED
  BY <1>1, <1>2, <1>3, <1>4, <1>5, ResolveEdges DEF RangesInv, WorkerStep

(* No step of a worker makes a position pending again.                     *)
LEMMA PendingShrinks ==
  ASSUME IInv, NEW w \in Workers, WorkerStep(w), NEW j \in Nat, Pending(j)'
  PROVE  Pending(j)
<1>1. CASE WorkerStart(w) \/ WorkerStop(w)
  BY <1>1, NoChunkEdge DEF Pending
<1>2. CASE WorkerClaim(w)
  <2>1. /\ next_idx \in Nat /\ next_idx' \in Nat /\ next_idx < next_idx'
        /\ \A v \in Workers : v # w => wrange'[v] = wrange[v] /\ wpc'[v] = wpc[v]
        /\ wpc'[w] = "docs" => wrange'[w][1] = next_idx
    BY <1>2, ClaimIs
  <2>2. CASE j > next_idx'
    BY <2>1, <2>2 DEF Pending
  <2>3. CASE \E v \in Workers : wpc'[v] = "docs" /\ wrange'[v][1] < j /\ j <= wrange'[v][2]
    <3>1. PICK v \in Workers : wpc'[v] = "docs" /\ wrange'[v][1] < j /\ j <= wrange'[v][2]
      BY <2>3
    <3>2. CASE v = w
      BY <2>1, <3>1, <3>2 DEF Pending
    <3>3. CASE v # w
      BY <2>1, <3>1, <3>3 DEF Pending
    <3> QED
      BY <3>2, <3>3
  <2> QED
    BY <2>2, <2>3 DEF Pending
<1>3. CASE WorkerSkip(w) \/ WorkerResolve(w)
  <2>1. /\ pc = "resolve" /\ wpc[w] = "docs" /\ AdvanceDoc(w) /\ next_idx' = next_idx
    BY <1>3, AdvanceEdge
  <2>2. /\ wrange'[w][1] = wrange[w][1] + 1 /\ wrange'[w][2] = wrange[w][2]
        /\ \A v \in Workers : v # w => wrange'[v] = wrange[v] /\ wpc'[v] = wpc[v]
    BY <2>1, AdvanceIs DEF IInv
  <2>3. \A v \in Workers : wpc'[v] = "docs" => wpc[v] = "docs"
    BY <2>1, <2>2
  <2>4. \A v \in Workers : wrange[v][1] \in Nat
    BY <2>1, ChunksAre
  <2>5. \A v \in Workers : wrange'[v][1] < j => wrange[v][1] < j
    BY <2>2, <2>4
  <2>6. \A v \in Workers : wrange'[v][2] = wrange[v][2]
    BY <2>2
  <2> QED
    BY <2>1, <2>3, <2>5, <2>6 DEF Pending
<1> QED
  BY <1>1, <1>2, <1>3 DEF WorkerStep

(* A position a worker is at is pending, and no longer when it leaves it.  *)
LEMMA PendingEnds ==
  ASSUME IInv, NEW w \in Workers, WorkerSkip(w) \/ WorkerResolve(w),
         NEW j \in Nat, j = wrange[w][1] + 1
  PROVE  Pending(j) /\ ~ Pending(j)'
<1>1. /\ pc = "resolve" /\ wpc[w] = "docs" /\ AdvanceDoc(w) /\ next_idx' = next_idx
  BY AdvanceEdge
<1>2. /\ wrange'[w][1] = wrange[w][1] + 1 /\ wrange'[w][2] = wrange[w][2]
      /\ \A v \in Workers : v # w => wrange'[v] = wrange[v] /\ wpc'[v] = wpc[v]
  BY <1>1, AdvanceIs DEF IInv
<1>3. Pending(j)
  BY <1>1, ChunksAre DEF Pending
<1>4. ~ (j > next_idx')
  BY <1>1, ChunksAre
<1>5. \A v \in Workers : ~ (wpc'[v] = "docs" /\ wrange'[v][1] < j /\ j <= wrange'[v][2])
  <2> SUFFICES ASSUME NEW v \in Workers, wpc'[v] = "docs", wrange'[v][1] < j, j <= wrange'[v][2]
               PROVE  FALSE
    OBVIOUS
  <2>1. v # w
    BY <1>1, <1>2, ChunksAre
  <2>2. wpc[v] = "docs" /\ wrange[v][1] < j /\ j <= wrange[v][2]
    BY <1>2, <2>1
  <2>3. wrange[v][2] <= wrange[w][1] \/ wrange[w][2] <= wrange[v][1]
    BY <1>1, <2>1, <2>2, ChunksAre
  <2>4. /\ wrange[v][1] \in Nat /\ wrange[v][2] \in Nat /\ wrange[w][1] \in Nat
        /\ wrange[w][2] \in Nat /\ wrange[w][1] < wrange[w][2]
    BY <1>1, ChunksAre
  <2> QED
    BY <2>2, <2>3, <2>4
<1> QED
  BY <1>3, <1>4, <1>5 DEF Pending

-------------------------------------------------------------------------------
(* The documents.                                                          *)

(* A document's slot is NULL or holds ids of the vocabulary.               *)
LEMMA SlotsHold ==
  ASSUME IInv
  PROVE  \A d \in 0 .. doc_count - 1 :
           /\ d \in Slots /\ d \in Nat
           /\ slot[d] = Null \/ slot[d] \in IdList
           /\ slot[d] # Null =>
                \A i \in DOMAIN slot[d] : slot[d][i] \in Int /\ slot[d][i] < Len(entries)
<1> SUFFICES ASSUME NEW d \in 0 .. doc_count - 1
             PROVE  /\ d \in Slots /\ d \in Nat
                    /\ slot[d] = Null \/ slot[d] \in IdList
                    /\ slot[d] # Null =>
                         \A i \in DOMAIN slot[d] :
                           slot[d][i] \in Int /\ slot[d][i] < Len(entries)
  OBVIOUS
<1>1. /\ slot \in [Slots -> {Null, Garbage} \union IdList] /\ doc_count \in Nat
      /\ doc_count <= MaxDocs /\ slot[d] # Garbage /\ Len(entries) \in Nat
  BY DEF IInv, TypeOK, SlotsWritten
<1>2. d \in Slots /\ d \in Nat
  BY <1>1, Numbers
<1>3. slot[d] = Null \/ slot[d] \in IdList
  BY <1>1, <1>2
<1>4. slot[d] # Null => \A i \in DOMAIN slot[d] : slot[d][i] # NotFound => slot[d][i] < Len(entries)
  <2>1. CASE pc = "tokens" /\ d = doc_count - 1
    BY <2>1 DEF IInv, DocsInv, Partial, entry_count
  <2>2. CASE ~ (pc = "tokens" /\ d = doc_count - 1)
    BY <2>2 DEF IInv, DocsInv, Faithful, entry_count
  <2> QED
    BY <2>1, <2>2
<1>5. ASSUME slot[d] # Null, NEW i \in DOMAIN slot[d]
      PROVE  slot[d][i] \in Int /\ slot[d][i] < Len(entries)
  <2>1. slot[d][i] \in Ids \union {NotFound}
    BY <1>3, <1>5 DEF IdList
  <2>2. slot[d][i] \in Int
    BY <2>1, Numbers
  <2>3. CASE slot[d][i] = NotFound
    BY <1>1, <2>3, Numbers
  <2>4. CASE slot[d][i] # NotFound
    BY <1>4, <1>5, <2>2, <2>4
  <2> QED
    BY <2>2, <2>3, <2>4
<1> QED
  BY <1>2, <1>3, <1>5

(* A slot that is left alone stays faithful as the vocabulary grows.       *)
LEMMA FaithfulKept ==
  ASSUME NEW d, Faithful(d), slot[d] = Null \/ slot[d] \in IdList,
         slot'[d] = slot[d], source'[d] = source[d],
         Len(entries) \in Nat, Len(entries') \in Nat, Len(entries) <= Len(entries'),
         \A i \in 1 .. Len(entries) : entries'[i] = entries[i]
  PROVE  Faithful(d)'
<1> SUFFICES ASSUME slot[d] # Null
             PROVE  /\ Len(slot[d]) = Len(source[d])
                    /\ \A i \in DOMAIN slot[d] : slot[d][i] # NotFound =>
                         /\ slot[d][i] < Len(entries')
                         /\ entries'[slot[d][i] + 1] = source[d][i]
  BY DEF Faithful, entry_count
<1>1. Len(slot[d]) = Len(source[d])
  BY DEF Faithful
<1>2. ASSUME NEW i \in DOMAIN slot[d], slot[d][i] # NotFound
      PROVE  slot[d][i] < Len(entries') /\ entries'[slot[d][i] + 1] = source[d][i]
  <2>1. slot[d][i] \in Nat
    BY <1>2, Numbers DEF IdList
  <2>2. slot[d][i] < Len(entries) /\ entries[slot[d][i] + 1] = source[d][i]
    BY <1>2 DEF Faithful, entry_count
  <2> QED
    BY <2>1, <2>2
<1> QED
  BY <1>1, <1>2

(* The same for a step that leaves the vocabulary alone.                   *)
LEMMA FaithfulSame ==
  ASSUME NEW d, Faithful(d), slot'[d] = slot[d], source'[d] = source[d], entries' = entries
  PROVE  Faithful(d)'
  BY DEF Faithful, entry_count

(* The vocabulary only grows but in a rollback.                            *)
LEMMA EntriesGrow ==
  ASSUME IInv, [Next]_vars, ~ Rollback
  PROVE  /\ Len(entries) \in Nat /\ Len(entries') \in Nat /\ Len(entries) <= Len(entries')
         /\ \A i \in 1 .. Len(entries) : entries'[i] = entries[i]
<1>1. TypeOK /\ VocabularyConsistent /\ entry_count <= MaxEntries /\ Len(entries) \in Nat
  BY DEF IInv, SlotsWritten, TypeOK
<1>2. CASE AddToken
  BY <1>1, <1>2, AddTokenIs, VocabularyGrows
<1>3. CASE InsertToken
  BY <1>1, <1>3, InsertTokenIs, VocabularyGrows
<1>4. CASE UNCHANGED <<entries, token_map>>
  BY <1>1, <1>4
<1> QED
  BY <1>2, <1>3, <1>4, VocabularyEdges

(* The token add_doc looks up is the next one of its document.             *)
LEMMA PartialStep ==
  ASSUME IInv, AddToken
  PROVE  Partial(doc_count - 1)'
<1> DEFINE d == doc_count - 1
<1>1. PICK id \in Ids \union {NotFound} :
        /\ GetOrAdd(Head(todo), id) /\ Head(todo) \in Token \union {NoToken}
        /\ d \in Slots /\ doc_count > 0 /\ slot[d] \in IdList
        /\ slot' = [slot EXCEPT ![d] = Append(slot[d], id)]
  BY AddTokenIs
<1>2. /\ UNCHANGED <<doc_count, source>> /\ todo # <<>> /\ todo' = Tail(todo)
      /\ todo \in Seq(Token \union {NoToken}) /\ slot \in [Slots -> {Null, Garbage} \union IdList]
  BY DEF AddToken, IInv, TypeOK, Doc
<1>3. Partial(d)
  BY DEF AddToken, IInv, DocsInv
<1>4. /\ Len(entries) \in Nat /\ Len(entries') \in Nat /\ Len(entries) <= Len(entries')
      /\ \A i \in 1 .. Len(entries) : entries'[i] = entries[i]
      /\ id # NotFound => /\ id < Len(entries') /\ entries'[id + 1] = Head(todo)
  BY <1>1, VocabularyGrows DEF IInv, SlotsWritten
<1>5. d' = d
  BY <1>2
<1> HIDE DEF d
<1> DEFINE s == slot[d]
<1>6. /\ s \in Seq(Ids \union {NotFound}) /\ Len(s) \in Nat /\ slot'[d] = Append(s, id)
      /\ Len(slot'[d]) = Len(s) + 1 /\ DOMAIN slot'[d] = 1 .. Len(s) + 1
      /\ DOMAIN s = 1 .. Len(s)
      /\ slot'[d][Len(s) + 1] = id /\ \A i \in 1 .. Len(s) : slot'[d][i] = s[i]
      /\ slot'[d] \in IdList
  BY <1>1, <1>2 DEF IdList
<1>7. /\ Len(todo) \in Nat /\ Len(todo) > 0 /\ Len(todo') = Len(todo) - 1
      /\ Head(todo) = todo[1] /\ DOMAIN todo = 1 .. Len(todo) /\ DOMAIN todo' = 1 .. Len(todo')
      /\ \A i \in 1 .. Len(todo') : todo'[i] = todo[i + 1]
  BY <1>2
<1>8. /\ Len(s) + Len(todo) = Len(source[d])
      /\ \A i \in 1 .. Len(todo) : todo[i] = source[d][Len(s) + i]
      /\ \A i \in 1 .. Len(s) : s[i] # NotFound =>
           s[i] < Len(entries) /\ entries[s[i] + 1] = source[d][i]
  BY <1>3, <1>6, <1>7 DEF Partial, entry_count
<1> HIDE DEF s
<1>9. Len(slot'[d]) + Len(todo') = Len(source'[d])
  <2>1. /\ Len(s) \in Nat /\ Len(todo) \in Nat /\ Len(slot'[d]) = Len(s) + 1
        /\ Len(todo') = Len(todo) - 1
    BY <1>6, <1>7
  <2>2. Len(s) + Len(todo) = Len(source[d]) /\ source' = source
    BY <1>2, <1>8
  <2> QED
    BY <2>1, <2>2
<1>10. \A i \in DOMAIN todo' : todo'[i] = source'[d][Len(slot'[d]) + i]
  <2> SUFFICES ASSUME NEW i \in 1 .. Len(todo')
               PROVE  todo'[i] = source[d][Len(s) + 1 + i]
    BY <1>2, <1>6, <1>7
  <2>1. i + 1 \in 1 .. Len(todo) /\ Len(s) + (i + 1) = Len(s) + 1 + i
    BY <1>6, <1>7
  <2> QED
    BY <1>7, <1>8, <2>1
<1>11. ASSUME NEW i \in DOMAIN slot'[d], slot'[d][i] # NotFound
       PROVE  slot'[d][i] < Len(entries') /\ entries'[slot'[d][i] + 1] = source'[d][i]
  <2>1. CASE i = Len(s) + 1
    <3>1. slot'[d][i] = id /\ source' = source
      BY <1>2, <1>6, <2>1
    <3>2. 1 \in 1 .. Len(todo)
      BY <1>7
    <3>3. Head(todo) = source[d][Len(s) + 1]
      BY <1>7, <1>8, <3>2
    <3> QED
      BY <1>4, <1>11, <2>1, <3>1, <3>3
  <2>2. CASE i # Len(s) + 1
    <3>1. i \in 1 .. Len(s) /\ slot'[d][i] = s[i]
      BY <1>6, <1>11, <2>2
    <3>2. s[i] < Len(entries) /\ entries[s[i] + 1] = source[d][i]
      BY <1>8, <1>11, <3>1
    <3>3. s[i] \in Nat
      BY <1>6, <1>11, <3>1, Numbers
    <3>4. s[i] + 1 \in 1 .. Len(entries) /\ s[i] < Len(entries')
      BY <1>4, <3>2, <3>3
    <3>5. entries'[s[i] + 1] = entries[s[i] + 1] /\ source' = source
      BY <1>2, <1>4, <3>4
    <3> QED
      BY <3>1, <3>2, <3>4, <3>5
  <2> QED
    BY <2>1, <2>2
<1>12. slot'[d] # Null
  BY <1>6, ListsAreWritten
<1>13. Partial(d)'
  BY <1>9, <1>10, <1>11, <1>12, <1>5 DEF Partial, entry_count
<1> QED
  BY <1>13, <1>5 DEF d

(* Where add_doc is while it looks up the tokens of a document.            *)
LEMMA TokensEdges ==
  ASSUME [Next]_vars
  PROVE  /\ pc = "tokens" => AddToken \/ EndDoc \/ UNCHANGED vars
         /\ pc' = "tokens" => StartDoc \/ AddToken \/ UNCHANGED vars
<1>1. ASSUME NEW doc \in Docs, CallAddDoc(doc) PROVE pc # "tokens" /\ pc' # "tokens"
  BY <1>1 DEF CallAddDoc
<1>2. ASSUME NEW b \in Batches, RejectBatch(b) \/ BatchBegin(b)
      PROVE  pc # "tokens" /\ pc' # "tokens"
  BY <1>2 DEF RejectBatch, BatchBegin
<1>3. ASSUME SkipDoc \/ AddReturn \/ InsertDoc \/ InsertToken \/ Fallback \/ StartResolve
             \/ Rollback \/ Commit
      PROVE  pc # "tokens" /\ pc' # "tokens"
  BY <1>3 DEF SkipDoc, AddReturn, InsertDoc, InsertToken, Fallback, StartResolve, Rollback,
              Commit
<1>4. ASSUME NEW w \in Workers, WorkerStep(w) PROVE pc # "tokens" /\ pc' # "tokens"
  BY <1>4 DEF WorkerStep, WorkerStart, WorkerClaim, WorkerStop, WorkerSkip, WorkerResolve,
              caller
<1>5. StartDoc => pc # "tokens"
  BY DEF StartDoc
<1>6. EndDoc => pc' # "tokens"
  BY DEF EndDoc
<1> QED
  BY <1>1, <1>2, <1>3, <1>4, <1>5, <1>6 DEF Next, CallerStep

(* Every document keeps naming the tokens it was built from.               *)
LEMMA DocsStep == IInv /\ [Next]_vars => DocsInv'
<1> SUFFICES ASSUME IInv, [Next]_vars PROVE DocsInv'
  OBVIOUS
<1>0. /\ TypeOK /\ doc_count \in Nat /\ MaxDocs \in Nat
      /\ slot \in [Slots -> {Null, Garbage} \union IdList] /\ source \in [Slots -> Doc]
      /\ \A d \in 0 .. doc_count - 1 : (pc = "tokens" => d # doc_count - 1) => Faithful(d)
      /\ \A d \in 0 .. doc_count - 1 : d \in Slots /\ (slot[d] = Null \/ slot[d] \in IdList)
  BY SlotsHold, Numbers DEF IInv, TypeOK, DocsInv
<1>1. pc' = "tokens" => doc_count' > 0 /\ Partial(doc_count - 1)'
  <2>1. CASE StartDoc
    <3>1. /\ doc_count < MaxDocs /\ doc_count' = doc_count + 1 /\ batch[at] \in Doc
          /\ slot' = [slot EXCEPT ![doc_count] = <<>>]
          /\ source' = [source EXCEPT ![doc_count] = batch[at]] /\ todo' = batch[at]
      BY <1>0, <2>1 DEF StartDoc, TypeOK
    <3>2. doc_count \in Slots /\ doc_count' > 0 /\ doc_count' - 1 = doc_count
      BY <1>0, <3>1, Numbers
    <3>3. slot'[doc_count] = <<>> /\ source'[doc_count] = todo'
      BY <1>0, <3>1, <3>2
    <3>4. <<>> # Null
      <4>1. <<>> \in IdList
        BY DEF IdList
      <4> QED
        BY <4>1, ListsAreWritten
    <3>5. Len(todo') \in Nat /\ DOMAIN todo' = 1 .. Len(todo')
      BY <3>1 DEF Doc
    <3>6. Partial(doc_count - 1)'
      BY <3>2, <3>3, <3>4, <3>5 DEF Partial
    <3> QED
      BY <3>2, <3>6
  <2>2. CASE AddToken
    <3>1. doc_count' = doc_count /\ pc = "tokens"
      BY <2>2 DEF AddToken
    <3>2. doc_count > 0
      BY <3>1 DEF IInv, DocsInv
    <3>3. Partial(doc_count - 1)'
      BY <2>2, PartialStep
    <3> QED
      BY <3>1, <3>2, <3>3
  <2>3. CASE UNCHANGED vars
    BY <2>3 DEF vars, corpus, IInv, DocsInv, Partial, entry_count
  <2> QED
    BY <2>1, <2>2, <2>3, TokensEdges
<1>2. ASSUME NEW d \in 0 .. doc_count - 1, pc = "tokens" => d # doc_count - 1,
             slot'[d] = slot[d], source'[d] = source[d], ~ Rollback
      PROVE  Faithful(d)'
  <2>1. Faithful(d) /\ (slot[d] = Null \/ slot[d] \in IdList)
    BY <1>0, <1>2
  <2> QED
    BY <1>2, <2>1, EntriesGrow, FaithfulKept
<1> SUFFICES ASSUME NEW d \in 0 .. doc_count' - 1, pc' = "tokens" => d # doc_count' - 1
             PROVE  Faithful(d)'
  BY <1>1 DEF DocsInv
<1>3. ASSUME NEW b \in Batches, BatchBegin(b) PROVE Faithful(d)'
  <2>1. b \in Seq(Doc)
    BY TokensAssumption DEF Doc
  <2>8. ValidCount(b) \in Nat
    BY <2>1, ValidFinite
  <2>9. pc # "tokens"
    BY <1>3 DEF BatchBegin
  <2>2. /\ ValidCount(b) \in Nat /\ doc_count' = doc_count + ValidCount(b)
        /\ doc_count' <= MaxDocs
    BY <1>0, <1>3, <2>8 DEF BatchBegin, Fits
  <2>3. d \in Slots
    BY <1>0, <2>2, Numbers
  <2>4. slot'[d] = IF d \in doc_count .. doc_count' - 1 THEN Null ELSE slot[d]
    <3>1. ZeroedSlots(ValidCount(b)) = doc_count .. doc_count' - 1
      BY <1>0, <2>2 DEF ZeroedSlots
    <3>2. slot' = [e \in Slots |-> IF e \in ZeroedSlots(ValidCount(b)) THEN Null ELSE slot[e]]
      BY <1>3 DEF BatchBegin
    <3> QED
      BY <2>3, <3>1, <3>2
  <2>7. d \notin doc_count .. doc_count' - 1 => source'[d] = source[d]
    BY <1>3, <2>3 DEF BatchBegin
  <2>5. CASE d \in doc_count .. doc_count' - 1
    BY <2>4, <2>5 DEF Faithful
  <2>6. CASE d \notin doc_count .. doc_count' - 1
    <3>1. d \in 0 .. doc_count - 1
      BY <1>0, <2>2, <2>6
    <3>2. ~ Rollback
      BY <1>3 DEF BatchBegin, Rollback
    <3> QED
      BY <1>2, <2>9, <2>4, <2>6, <2>7, <3>1, <3>2
  <2> QED
    BY <2>5, <2>6
<1>4. CASE SkipDoc
  <2>1. doc_count' = doc_count /\ pc # "tokens" /\ ~ Rollback /\ source' = source
    BY <1>4 DEF SkipDoc, Rollback
  <2>2. slot'[d] = slot[d]
    BY <1>0, <1>4, <2>1 DEF SkipDoc
  <2> QED
    BY <1>2, <2>1, <2>2
<1>5. CASE StartDoc
  <2>1. doc_count' = doc_count + 1 /\ pc # "tokens" /\ pc' = "tokens" /\ ~ Rollback
    BY <1>5 DEF StartDoc, Rollback
  <2>2. d \in 0 .. doc_count - 1
    BY <1>0, <2>1
  <2>3. slot'[d] = slot[d] /\ source'[d] = source[d]
    BY <1>0, <1>5, <2>2 DEF StartDoc
  <2> QED
    BY <1>2, <2>1, <2>2, <2>3
<1>6. CASE AddToken
  <2>1. /\ doc_count' = doc_count /\ pc = "tokens" /\ pc' = "tokens" /\ ~ Rollback
        /\ source' = source
    BY <1>6 DEF AddToken, Rollback
  <2>2. slot'[d] = slot[d]
    BY <1>0, <1>6, <2>1 DEF AddToken
  <2> QED
    BY <1>2, <2>1, <2>2
<1>7. CASE Fallback
  <2>1. base_doc \in Nat /\ base_doc <= doc_count /\ pc # "tokens" /\ ~ Rollback
    BY <1>7 DEF Fallback, Rollback, IInv, TypeOK, BatchInv, Batching
  <2>2. d \in 0 .. doc_count - 1 /\ slot' = slot /\ source' = source
    BY <1>0, <1>7, <2>1 DEF Fallback
  <2> QED
    BY <1>2, <2>1, <2>2
<1>8. CASE Rollback
  <2>1. /\ base_doc \in Nat /\ base_doc <= doc_count /\ pc = "resolve" /\ doc_count' = base_doc
        /\ \A e \in 0 .. base_doc - 1 :
             slot[e] # Null => \A i \in DOMAIN slot[e] : slot[e][i] < Len(before.entries)
    BY <1>8 DEF Rollback, IInv, TypeOK, BatchInv, Batching
  <2>2. d \in 0 .. doc_count - 1 /\ d \notin base_doc .. doc_count - 1 /\ d \in 0 .. base_doc - 1
    BY <1>0, <2>1
  <2>3. slot'[d] = slot[d] /\ source'[d] = source[d]
    BY <1>0, <1>8, <2>2 DEF Rollback
  <2>4. /\ Len(entries') \in Nat /\ Len(entries') = Len(before.entries)
        /\ \A i \in 1 .. Len(entries') : entries'[i] = entries[i]
    BY <1>8, RollbackCuts
  <2> SUFFICES ASSUME slot[d] # Null
               PROVE  /\ Len(slot[d]) = Len(source[d])
                      /\ \A i \in DOMAIN slot[d] : slot[d][i] # NotFound =>
                           /\ slot[d][i] < Len(entries')
                           /\ entries'[slot[d][i] + 1] = source[d][i]
    BY <2>3 DEF Faithful, entry_count
  <2>5. Faithful(d) /\ slot[d] \in IdList
    BY <1>0, <2>1, <2>2
  <2>6. ASSUME NEW i \in DOMAIN slot[d], slot[d][i] # NotFound
        PROVE  slot[d][i] < Len(entries') /\ entries'[slot[d][i] + 1] = source[d][i]
    <3>1. slot[d][i] \in Nat
      BY <2>5, <2>6, Numbers DEF IdList
    <3>2. slot[d][i] < Len(entries')
      BY <2>1, <2>2, <2>4, <2>6
    <3>3. entries[slot[d][i] + 1] = source[d][i]
      BY <2>5, <2>6 DEF Faithful
    <3>4. slot[d][i] + 1 \in 1 .. Len(entries')
      BY <2>4, <3>1, <3>2
    <3> QED
      BY <2>4, <3>2, <3>3, <3>4
  <2> QED
    BY <2>5, <2>6 DEF Faithful
<1>9. ASSUME NEW w \in Workers, WorkerResolve(w) PROVE Faithful(d)'
  <2> DEFINE j == wrange[w][1] + 1
  <2>1. /\ pc = "resolve" /\ j \in Valid(batch)
        /\ \/ slot' = [slot EXCEPT ![SlotOf(j)] = Null]
           \/ slot' = [slot EXCEPT ![SlotOf(j)] = IdsOf(batch[j])]
        /\ UNCHANGED <<entries, doc_count, source>>
    BY <1>9, ResolveIs
  <2> HIDE DEF j
  <2>2. batch[j] \in Doc
    BY <1>0, <2>1, ValidFinite DEF TypeOK
  <2>3. SlotOf(j) \in Slots /\ source[SlotOf(j)] = batch[j]
    <3>1. SlotOf(j) \in Slots
      BY <2>1, SlotOfValid DEF Batching
    <3> QED
      BY <2>1, <3>1 DEF IInv, BatchInv, Batching
  <2>4. CASE d # SlotOf(j)
    <3>1. d \in 0 .. doc_count - 1 /\ slot'[d] = slot[d] /\ source'[d] = source[d]
      BY <1>0, <2>1, <2>4
    <3>2. Faithful(d)
      BY <1>0, <2>1, <3>1
    <3> QED
      BY <2>1, <3>1, <3>2, FaithfulSame
  <2>5. CASE d = SlotOf(j) /\ slot'[d] = Null
    BY <2>5 DEF Faithful
  <2>6. CASE d = SlotOf(j) /\ slot'[d] = IdsOf(batch[j])
    <3> DEFINE doc == batch[j]
    <3>1. /\ Len(IdsOf(doc)) = Len(doc) /\ Len(doc) \in Nat /\ DOMAIN IdsOf(doc) = 1 .. Len(doc)
          /\ \A i \in 1 .. Len(doc) : IdsOf(doc)[i] = Lookup(doc[i])
      BY <1>0, <2>2, IdsAre DEF IdsOf
    <3>2. \A i \in 1 .. Len(doc) : doc[i] \in Token \union {NoToken}
      BY <2>2 DEF Doc
    <3>3. source'[d] = doc
      BY <2>1, <2>3, <2>6
    <3>4. \A i \in 1 .. Len(doc) : Lookup(doc[i]) # NotFound =>
            Lookup(doc[i]) < Len(entries) /\ entries[Lookup(doc[i]) + 1] = doc[i]
      BY <3>2 DEF Lookup, IInv, VocabularyConsistent, entry_count
    <3> QED
      BY <2>1, <2>6, <3>1, <3>3, <3>4 DEF Faithful, entry_count
  <2> QED
    <3>1. slot'[SlotOf(j)] = Null \/ slot'[SlotOf(j)] = IdsOf(batch[j])
      BY <1>0, <2>1, <2>3
    <3> QED
      BY <2>4, <2>5, <2>6, <3>1
<1>10. ASSUME UNCHANGED <<slot, doc_count, doc_cap, source>>, ~ Rollback
       PROVE  Faithful(d)'
  <2>1. d \in 0 .. doc_count - 1 /\ slot'[d] = slot[d] /\ source'[d] = source[d]
    BY <1>10
  <2>2. CASE pc = "tokens" => d # doc_count - 1
    BY <1>2, <1>10, <2>1, <2>2
  <2>3. CASE pc = "tokens" /\ d = doc_count - 1
    <3>1. CASE EndDoc
      <4>1. todo = <<>> /\ entries' = entries
        BY <3>1 DEF EndDoc, corpus
      <4>2. Partial(d)
        BY <2>3 DEF IInv, DocsInv
      <4>3. Len(todo) = 0
        BY <4>1
      <4>4. Len(slot[d]) \in Nat
        <5>1. slot[d] \in IdList
          BY <1>0, <2>1, <4>2 DEF Partial
        <5> QED
          BY <5>1 DEF IdList
      <4>5. Len(slot[d]) = Len(source[d])
        BY <4>2, <4>3, <4>4 DEF Partial
      <4> QED
        BY <2>1, <4>1, <4>2, <4>5 DEF Partial, Faithful, entry_count
    <3>2. CASE AddToken
      <4>1. pc' = "tokens"
        BY <3>2 DEF AddToken
      <4> QED
        BY <1>10, <2>3, <4>1
    <3>3. CASE UNCHANGED vars
      <4>1. pc' = pc
        BY <3>3 DEF vars
      <4> QED
        BY <1>10, <2>3, <4>1
    <3> QED
      BY <2>3, <3>1, <3>2, <3>3, TokensEdges
  <2> QED
    BY <2>2, <2>3
<1> QED
  BY <1>3, <1>4, <1>5, <1>6, <1>7, <1>8, <1>9, <1>10, SlotEdges

-------------------------------------------------------------------------------
(* The batch under way.                                                    *)

(* Which steps begin or continue a batch.                                  *)
LEMMA BatchEdges ==
  ASSUME [Next]_vars, Batching'
  PROVE  \/ \E b \in Batches : BatchBegin(b)
         \/ InsertDoc \/ InsertToken \/ StartResolve
         \/ \E w \in Workers : WorkerStep(w)
         \/ UNCHANGED vars
<1>1. ASSUME NEW doc \in Docs, CallAddDoc(doc) PROVE FALSE
  BY <1>1 DEF CallAddDoc, Batching
<1>2. ASSUME NEW b \in Batches, RejectBatch(b) PROVE FALSE
  BY <1>2 DEF RejectBatch, Batching
<1>3. ASSUME SkipDoc \/ StartDoc \/ AddToken \/ EndDoc \/ AddReturn \/ Fallback \/ Rollback
             \/ Commit
      PROVE  FALSE
  BY <1>3 DEF SkipDoc, StartDoc, AddToken, EndDoc, AddReturn, Fallback, Rollback, Commit,
              Batching
<1> QED
  BY <1>1, <1>2, <1>3 DEF Next, CallerStep

(* A batch that begins remembers what was there before it.                 *)
LEMMA BeginStep ==
  ASSUME IInv, NEW b \in Batches, BatchBegin(b)
  PROVE  BatchInv'
<1>1. b \in Seq(Doc)
  BY TokensAssumption DEF Doc
<1>2. /\ ValidCount(b) \in Nat
      /\ \A j \in Valid(b) : DocMap(b)[j] \in Nat /\ DocMap(b)[j] < ValidCount(b)
  BY <1>1, ValidFinite, Numbering
<1>3. /\ doc_count \in Nat /\ entries \in Seq(Token) /\ Len(entries) \in Nat
      /\ MaxDocs \in Nat /\ pc = "idle"
  BY Numbers DEF BatchBegin, IInv, TypeOK
<1>4. /\ pc' = "insert" /\ doc_count' = doc_count + ValidCount(b) /\ doc_count' <= MaxDocs
      /\ batch' = b /\ doc_map' = DocMap(b) /\ map_out' = DocMap(b) /\ base_doc' = doc_count
      /\ before' = [entries |-> entries, doc_freq |-> doc_freq, slot |-> slot, docs |-> doc_count]
      /\ entries' = entries /\ doc_freq' = doc_freq
  BY <1>2, <1>3 DEF BatchBegin, Fits
<1>5. /\ before'.docs = base_doc' /\ base_doc' <= doc_count'
      /\ doc_map' = DocMap(batch') /\ map_out' = doc_map'
      /\ doc_count' = base_doc' + ValidCount(batch')
  BY <1>2, <1>3, <1>4
<1>6. /\ before'.entries \in Seq(Token) /\ Len(before'.entries) <= Len(entries')
      /\ \A i \in 1 .. Len(before'.entries) : entries'[i] = before'.entries[i]
      /\ \A i \in 0 .. Len(before'.entries) - 1 : doc_freq'[i] = before'.doc_freq[i]
  BY <1>3, <1>4
<1>7. \A d \in Slots :
        /\ slot'[d] = IF d \in doc_count .. doc_count' - 1 THEN Null ELSE slot[d]
        /\ d \in doc_count .. doc_count' - 1 => source'[d] = DocNumbered(b, d - doc_count)
  <2>1. ZeroedSlots(ValidCount(b)) = doc_count .. doc_count' - 1
    BY <1>2, <1>3, <1>4 DEF ZeroedSlots
  <2>2. /\ slot' = [d \in Slots |-> IF d \in ZeroedSlots(ValidCount(b)) THEN Null ELSE slot[d]]
        /\ source' = [d \in Slots |-> IF d \in doc_count .. doc_count' - 1
                                      THEN DocNumbered(b, d - doc_count) ELSE source[d]]
    BY DEF BatchBegin
  <2> QED
    BY <2>1, <2>2
<1>8. \A d \in 0 .. doc_count' - 1 : d \in Slots
  BY <1>2, <1>3, <1>4, Numbers
<1>9. ASSUME NEW j \in Valid(b) PROVE source'[doc_count + DocMap(b)[j]] = b[j]
  <2>1. PICK k \in Nat : k = DocMap(b)[j]
    BY <1>2
  <2>2. PICK d : d = doc_count + k
    OBVIOUS
  <2>3. /\ d \in doc_count .. doc_count' - 1 /\ d \in 0 .. doc_count' - 1 /\ d - doc_count = k
    BY SMTT(30), <1>2, <1>3, <1>4, <2>1, <2>2
  <2>4. source'[d] = DocNumbered(b, d - doc_count)
    BY <1>7, <1>8, <2>3
  <2>5. DocNumbered(b, k) = b[j]
    BY <1>1, <2>1, DocAtNumber
  <2>6. source'[d] = b[j]
    BY <2>3, <2>4, <2>5
  <2> QED
    BY <2>1, <2>2, <2>6
<1>10. \A j \in Valid(batch') : source'[base_doc' + doc_map'[j]] = batch'[j]
  BY <1>4, <1>9
<1>11. \A d \in 0 .. base_doc' - 1 :
         /\ slot'[d] = before'.slot[d]
         /\ slot'[d] # Null => \A i \in DOMAIN slot'[d] : slot'[d][i] < Len(before'.entries)
  <2> SUFFICES ASSUME NEW d \in 0 .. doc_count - 1
               PROVE  /\ slot'[d] = slot[d]
                      /\ slot[d] # Null => \A i \in DOMAIN slot[d] : slot[d][i] < Len(entries)
    BY <1>4
  <2>1. d \in Slots /\ d \notin doc_count .. doc_count' - 1
    BY <1>2, <1>3, <1>4, <1>8
  <2> QED
    BY <1>7, <2>1, SlotsHold
<1>12. \A d \in base_doc' .. doc_count' - 1 : slot'[d] = Null
  <2>1. base_doc' .. doc_count' - 1 \subseteq 0 .. doc_count' - 1
    BY <1>2, <1>3, <1>4
  <2> QED
    BY <1>4, <1>7, <1>8, <2>1
<1> QED
  BY <1>4, <1>5, <1>6, <1>10, <1>11, <1>12 DEF BatchInv, SlotOf, entry_count

(* Phase A leaves the entries there were, and their doc_freq, alone.       *)
LEMMA InsertKeeps ==
  ASSUME IInv, InsertToken, Batching
  PROVE  /\ Len(before.entries) <= Len(entries')
         /\ \A i \in 1 .. Len(before.entries) : entries'[i] = before.entries[i]
         /\ \A i \in 0 .. Len(before.entries) - 1 : doc_freq'[i] = before.doc_freq[i]
<1>1. PICK id \in Ids \union {NotFound} :
        /\ GetOrAdd(Head(todo), id) /\ Head(todo) \in Token \union {NoToken}
        /\ doc_freq' = IF id = NotFound THEN doc_freq
                       ELSE [doc_freq EXCEPT ![id] = FreqOf(id)]
  BY InsertTokenIs
<1>2. /\ Len(entries) \in Nat /\ Len(entries') \in Nat /\ Len(entries) <= Len(entries')
      /\ \A i \in 1 .. Len(entries) : entries'[i] = entries[i]
  BY <1>1, VocabularyGrows DEF IInv, SlotsWritten
<1>3. /\ before.entries \in Seq(Token) /\ Len(before.entries) \in Nat
      /\ Len(before.entries) <= Len(entries)
      /\ \A i \in 1 .. Len(before.entries) : entries[i] = before.entries[i]
      /\ \A i \in 0 .. Len(before.entries) - 1 : doc_freq[i] = before.doc_freq[i]
  BY DEF IInv, BatchInv, entry_count
<1>4. doc_freq \in [Ids -> Int] /\ Len(entries) <= MaxEntries
  BY DEF IInv, TypeOK, SlotsWritten, entry_count
<1>5. \A i \in 0 .. Len(before.entries) - 1 : doc_freq'[i] = doc_freq[i]
  <2> SUFFICES ASSUME NEW i \in 0 .. Len(before.entries) - 1
               PROVE  doc_freq'[i] = doc_freq[i]
    OBVIOUS
  <2>1. i \in Ids /\ i # Len(entries)
    BY <1>2, <1>3, <1>4, Numbers
  <2>2. FreqOf(i) = doc_freq[i]
    BY <2>1 DEF FreqOf, entry_count
  <2> QED
    BY <1>1, <1>4, <2>1, <2>2
<1> QED
  BY SMTT(30), <1>2, <1>3, <1>5

(* A batch under way keeps what it remembers.                              *)
LEMMA BatchStep == IInv /\ [Next]_vars => BatchInv'
<1> SUFFICES ASSUME IInv, [Next]_vars, Batching' PROVE BatchInv'
  BY DEF BatchInv
<1>1. ASSUME NEW b \in Batches, BatchBegin(b) PROVE BatchInv'
  BY <1>1, BeginStep
<1>2. CASE InsertDoc
  <2>1. /\ pc = "insert" /\ pc' = "insert"
        /\ UNCHANGED <<before, base_doc, doc_count, doc_map, map_out, batch, source, entries,
                       doc_freq, slot>>
    BY <1>2 DEF InsertDoc, corpus
  <2> QED
    BY <2>1 DEF IInv, BatchInv, Batching, SlotOf, entry_count
<1>3. CASE InsertToken
  <2>1. /\ pc = "insert" /\ pc' = "insert"
        /\ UNCHANGED <<before, base_doc, doc_count, doc_map, map_out, batch, source, slot>>
    BY <1>3 DEF InsertToken
  <2>2. /\ Len(before.entries) <= Len(entries')
        /\ \A i \in 1 .. Len(before.entries) : entries'[i] = before.entries[i]
        /\ \A i \in 0 .. Len(before.entries) - 1 : doc_freq'[i] = before.doc_freq[i]
    BY <1>3, <2>1, InsertKeeps DEF Batching
  <2>3. BatchInv /\ Batching
    BY <2>1 DEF IInv, Batching
  <2> QED
    BY <2>1, <2>2, <2>3 DEF BatchInv, SlotOf, entry_count
<1>4. CASE StartResolve
  <2>1. /\ pc = "insert" /\ pc' = "resolve"
        /\ UNCHANGED <<before, base_doc, doc_count, doc_map, map_out, batch, source, entries,
                       doc_freq, slot>>
    BY <1>4 DEF StartResolve, corpus
  <2>2. BatchInv /\ Batching
    BY <2>1 DEF IInv, Batching
  <2>3. \A j \in Valid(batch) : slot[SlotOf(j)] = Null
    BY <2>1, <2>2, SlotOfValid DEF BatchInv
  <2> QED
    BY <2>1, <2>2, <2>3 DEF BatchInv, SlotOf, entry_count
<1>5. ASSUME NEW w \in Workers, WorkerStep(w) PROVE BatchInv'
  <2>0. /\ pc = "resolve" /\ pc' = "resolve"
        /\ UNCHANGED <<before, base_doc, doc_count, doc_map, map_out, batch, source, entries,
                       doc_freq>>
    BY <1>5 DEF WorkerStep, WorkerStart, WorkerClaim, WorkerStop, WorkerSkip, WorkerResolve,
                caller, corpus
  <2>1. BatchInv /\ Batching /\ batch \in Seq(Doc)
    BY <2>0 DEF IInv, Batching, TypeOK
  <2>2. \A j \in Valid(batch) : j \in Nat /\ (Pending(j)' => Pending(j))
    <3> TAKE j \in Valid(batch)
    <3>1. j \in Nat
      BY <2>1, ValidFinite
    <3> QED
      BY <1>5, <3>1, PendingShrinks
  <2>3. CASE slot' = slot
    BY <2>0, <2>1, <2>2, <2>3 DEF BatchInv, SlotOf, entry_count
  <2>4. CASE WorkerResolve(w)
    <3>1. PICK j \in Valid(batch) :
            /\ j = wrange[w][1] + 1
            /\ \/ slot' = [slot EXCEPT ![SlotOf(j)] = Null]
               \/ slot' = [slot EXCEPT ![SlotOf(j)] = IdsOf(batch[j])]
      BY <2>4, ResolveIs
    <3>2. j \in Nat /\ ~ Pending(j)'
      BY <2>2, <2>4, <3>1, PendingEnds
    <3>3. /\ slot \in [Slots -> {Null, Garbage} \union IdList] /\ base_doc \in Nat
          /\ doc_count \in Nat
      BY DEF IInv, TypeOK
    <3>4. /\ SlotOf(j) \in base_doc .. doc_count - 1
          /\ \A i \in Valid(batch) : SlotOf(i) \in Slots /\ (i # j => SlotOf(i) # SlotOf(j))
      BY <2>1, <3>1, SlotOfValid
    <3>5. \A d \in Slots : d # SlotOf(j) => slot'[d] = slot[d]
      BY <3>1, <3>3
    <3>6. \A d \in 0 .. base_doc - 1 : slot'[d] = slot[d]
      <4> SUFFICES ASSUME NEW d \in 0 .. base_doc - 1 PROVE slot'[d] = slot[d]
        OBVIOUS
      <4>1. base_doc <= doc_count
        BY <2>1 DEF BatchInv
      <4>2. d \in 0 .. doc_count - 1 /\ d # SlotOf(j)
        BY <3>3, <3>4, <4>1
      <4> QED
        BY <3>5, <4>2, SlotsHold
    <3>7. \A i \in Valid(batch) : Pending(i)' => slot'[SlotOf(i)] = Null
      <4> SUFFICES ASSUME NEW i \in Valid(batch), Pending(i)'
                   PROVE  slot'[SlotOf(i)] = Null
        OBVIOUS
      <4>1. Pending(i) /\ i # j
        BY <2>2, <3>2
      <4>2. slot[SlotOf(i)] = Null
        BY <2>0, <2>1, <4>1 DEF BatchInv
      <4>3. SlotOf(i) # SlotOf(j)
        BY <3>4, <4>1
      <4> QED
        BY <3>4, <3>5, <4>2, <4>3
    <3>8. \A i \in Valid(batch) : SlotOf(i)' = SlotOf(i)
      BY <2>0 DEF SlotOf
    <3> QED
      BY <2>0, <2>1, <3>6, <3>7, <3>8 DEF BatchInv, entry_count
  <2> QED
    BY <1>5, <2>3, <2>4 DEF WorkerStep, WorkerStart, WorkerClaim, WorkerStop, WorkerSkip,
                            caller, corpus
<1>6. CASE UNCHANGED vars
  BY <1>6 DEF vars, corpus, work, IInv, BatchInv, Batching, Pending, SlotOf, entry_count
<1> QED
  BY <1>1, <1>2, <1>3, <1>4, <1>5, <1>6, BatchEdges

-------------------------------------------------------------------------------
(* The positions given to the caller.                                      *)

(* The two maps a caller may get: the numbering of the batch, which gives  *)
(* nothing when no document is valid, and the invalid one.                 *)
LEMMA MapsAre ==
  ASSUME NEW b \in Seq(Doc)
  PROVE  /\ DocMap(b) \in Seq(Int) /\ Invalid(b) \in Seq(Int) /\ <<>> \in Seq(Int)
         /\ \A j \in DOMAIN Invalid(b) : Invalid(b)[j] < 0
         /\ ValidCount(b) = 0 => \A j \in DOMAIN DocMap(b) : DocMap(b)[j] < 0
<1>1. /\ Len(b) \in Nat /\ IsFiniteSet(Valid(b)) /\ ValidCount(b) = Cardinality(Valid(b))
  BY ValidFinite DEF ValidCount
<1>2. /\ DOMAIN DocMap(b) = 1 .. Len(b)
      /\ \A j \in 1 .. Len(b) : DocMap(b)[j] \in Int /\ (DocMap(b)[j] >= 0 <=> j \in Valid(b))
  BY Numbering
<1>3. DocMap(b) \in [1 .. Len(b) -> Int]
  <2>1. DocMap(b) = [j \in 1 .. Len(b) |-> DocMap(b)[j]]
    BY DEF DocMap
  <2> QED
    BY <1>2, <2>1
<1>4. Invalid(b) \in [1 .. Len(b) -> Int] /\ \A j \in 1 .. Len(b) : Invalid(b)[j] < 0
  BY DEF Invalid, NotFound
<1>5. \A f \in [1 .. Len(b) -> Int] : f \in Seq(Int)
  BY <1>1
<1>6. ValidCount(b) = 0 => Valid(b) = {}
  BY <1>1, FS_EmptySet
<1>7. DOMAIN Invalid(b) = 1 .. Len(b)
  BY DEF Invalid
<1> QED
  BY <1>2, <1>3, <1>4, <1>5, <1>6, <1>7

(* The steps that end a call, and what the others do to doc_map_out.       *)
LEMMA MapEdges ==
  ASSUME [Next]_vars
  PROVE  \/ \E doc \in Docs : CallAddDoc(doc)
         \/ \E b \in Batches : RejectBatch(b) \/ BatchBegin(b)
         \/ AddReturn \/ Fallback \/ Rollback \/ Commit
         \/ UNCHANGED vars
         \/ pc' # "idle" /\ map_out' = map_out /\ (pc' \in {"add", "tokens"} => pc \in {"add", "tokens"})
<1>1. ASSUME SkipDoc \/ StartDoc \/ AddToken \/ EndDoc \/ InsertDoc \/ InsertToken \/ StartResolve
      PROVE  pc' # "idle" /\ map_out' = map_out /\ (pc' \in {"add", "tokens"} => pc \in {"add", "tokens"})
  BY <1>1 DEF SkipDoc, StartDoc, AddToken, EndDoc, InsertDoc, InsertToken, StartResolve
<1>2. ASSUME NEW w \in Workers, WorkerStep(w)
      PROVE  pc' # "idle" /\ map_out' = map_out /\ (pc' \in {"add", "tokens"} => pc \in {"add", "tokens"})
  BY <1>2 DEF WorkerStep, WorkerStart, WorkerClaim, WorkerStop, WorkerSkip, WorkerResolve, caller
<1> QED
  BY <1>1, <1>2 DEF Next, CallerStep

(* The map a caller gets names its own documents.                          *)
LEMMA MapStep == IInv /\ [Next]_vars => MapInv'
<1> SUFFICES ASSUME IInv, [Next]_vars PROVE MapInv'
  OBVIOUS
<1>0. /\ batch \in Seq(Doc) /\ map_out \in Seq(Int)
      /\ pc \in {"add", "tokens"} => \A j \in DOMAIN map_out : map_out[j] < 0
  BY DEF IInv, TypeOK, MapInv
<1>1. ASSUME map_out' \in Seq(Int), \A j \in DOMAIN map_out' : map_out'[j] < 0
      PROVE  MapInv'
  <2>1. \A j \in DOMAIN map_out' : map_out'[j] \in Int
    BY <1>1
  <2>2. \A j \in DOMAIN map_out' : ~ (map_out'[j] >= 0)
    BY <1>1, <2>1
  <2> QED
    BY <1>1, <2>2 DEF MapInv, DocMapSound
<1>2. ASSUME NEW doc \in Docs, CallAddDoc(doc) PROVE MapInv'
  BY <1>1, <1>2 DEF CallAddDoc
<1>3. ASSUME NEW b \in Batches, RejectBatch(b) PROVE MapInv'
  <2>1. b \in Seq(Doc)
    BY TokensAssumption DEF Doc
  <2>2. map_out' = <<>> \/ (ValidCount(b) = 0 /\ map_out' = DocMap(b)) \/ map_out' = Invalid(b)
    BY <1>3 DEF RejectBatch
  <2>3. map_out' \in Seq(Int) /\ \A j \in DOMAIN map_out' : map_out'[j] < 0
    <3>1. CASE map_out' = <<>>
      BY <3>1
    <3>2. CASE ValidCount(b) = 0 /\ map_out' = DocMap(b)
      BY <2>1, <3>2, MapsAre
    <3>3. CASE map_out' = Invalid(b)
      BY <2>1, <3>3, MapsAre
    <3> QED
      BY <2>2, <3>1, <3>2, <3>3
  <2> QED
    BY <1>1, <2>3
<1>4. ASSUME NEW b \in Batches, BatchBegin(b) PROVE MapInv'
  <2>1. b \in Seq(Doc)
    BY TokensAssumption DEF Doc
  <2>2. pc' = "insert" /\ map_out' = DocMap(b)
    BY <1>4 DEF BatchBegin
  <2> QED
    BY <2>1, <2>2, MapsAre DEF MapInv, DocMapSound
<1>5. CASE AddReturn
  BY <1>0, <1>1, <1>5 DEF AddReturn
<1>6. CASE Fallback \/ Rollback
  BY <1>0, <1>1, <1>6, MapsAre DEF Fallback, Rollback
<1>7. CASE Commit
  <2>1. /\ pc = "resolve" /\ pc' = "idle"
        /\ UNCHANGED <<map_out, base_doc, doc_count, source, batch>>
    BY <1>7 DEF Commit
  <2>2. /\ map_out = DocMap(batch) /\ doc_map = DocMap(batch)
        /\ \A j \in Valid(batch) : source[SlotOf(j)] = batch[j]
    BY <2>1 DEF IInv, BatchInv, Batching
  <2>3. ASSUME NEW j \in DOMAIN map_out, map_out[j] >= 0
        PROVE  base_doc + map_out[j] < doc_count /\ source[base_doc + map_out[j]] = batch[j]
    <3>1. j \in Valid(batch)
      BY <1>0, <2>2, <2>3, Numbering
    <3>2. SlotOf(j) \in base_doc .. doc_count - 1 /\ SlotOf(j) = base_doc + map_out[j]
      BY <2>1, <2>2, <3>1, SlotOfValid DEF Batching, SlotOf
    <3>3. base_doc \in Nat /\ doc_count \in Nat
      BY DEF IInv, TypeOK
    <3> QED
      BY <2>2, <3>1, <3>2, <3>3
  <2>4. DocMapSound'
    BY <2>1, <2>3 DEF DocMapSound
  <2> QED
    BY <1>0, <2>1, <2>4 DEF MapInv
<1>8. CASE UNCHANGED vars
  BY <1>8 DEF vars, corpus, IInv, MapInv, DocMapSound
<1>9. ASSUME pc' # "idle", map_out' = map_out, pc' \in {"add", "tokens"} => pc \in {"add", "tokens"}
      PROVE  MapInv'
  BY <1>0, <1>9 DEF MapInv, DocMapSound
<1> QED
  BY <1>2, <1>3, <1>4, <1>5, <1>6, <1>7, <1>8, <1>9, MapEdges

-------------------------------------------------------------------------------
(* The document frequencies.                                               *)

(* The documents of slots s from lo up to hi that contain id i.            *)
WithIn(s, i, lo, hi) == {d \in lo .. hi - 1 : HasToken(s[d], i)}

(* They are finitely many.                                                 *)
LEMMA WithInFinite ==
  ASSUME NEW s, NEW i, NEW lo \in Int, NEW hi \in Int
  PROVE  IsFiniteSet(WithIn(s, i, lo, hi)) /\ Cardinality(WithIn(s, i, lo, hi)) \in Nat
<1>1. IsFiniteSet(lo .. hi - 1)
  BY FS_Interval
<1>2. WithIn(s, i, lo, hi) \subseteq lo .. hi - 1
  BY DEF WithIn
<1>3. IsFiniteSet(WithIn(s, i, lo, hi))
  BY <1>1, <1>2, FS_Subset
<1> QED
  BY <1>3, FS_CardinalityType

(* Only whether a document contains the id matters.                        *)
LEMMA WithInSame ==
  ASSUME NEW s, NEW r, NEW i, NEW lo, NEW hi,
         \A d \in lo .. hi - 1 : HasToken(r[d], i) <=> HasToken(s[d], i)
  PROVE  WithIn(r, i, lo, hi) = WithIn(s, i, lo, hi)
  BY DEF WithIn

(* No document contains it: there are none.                                *)
LEMMA WithInNone ==
  ASSUME NEW s, NEW i, NEW lo, NEW hi, \A d \in lo .. hi - 1 : ~ HasToken(s[d], i)
  PROVE  Cardinality(WithIn(s, i, lo, hi)) = 0
<1>1. WithIn(s, i, lo, hi) = {}
  BY DEF WithIn
<1> QED
  BY <1>1, FS_EmptySet

(* One document more contains it.                                          *)
LEMMA WithInMore ==
  ASSUME NEW s, NEW r, NEW i, NEW lo \in Int, NEW hi \in Int, NEW e \in lo .. hi - 1,
         \A d \in lo .. hi - 1 : d # e => (HasToken(r[d], i) <=> HasToken(s[d], i)),
         HasToken(r[e], i), ~ HasToken(s[e], i)
  PROVE  Cardinality(WithIn(r, i, lo, hi)) = Cardinality(WithIn(s, i, lo, hi)) + 1
<1>1. WithIn(r, i, lo, hi) = WithIn(s, i, lo, hi) \union {e} /\ e \notin WithIn(s, i, lo, hi)
  BY DEF WithIn
<1>2. IsFiniteSet(WithIn(s, i, lo, hi))
  BY WithInFinite
<1> HIDE DEF WithIn
<1> QED
  BY <1>1, <1>2, FS_AddElement

(* The documents from lo to mid and from mid to hi are those from lo to hi.*)
LEMMA WithInSplit ==
  ASSUME NEW s, NEW i, NEW lo \in Int, NEW mid \in Int, NEW hi \in Int, lo <= mid, mid <= hi
  PROVE  Cardinality(WithIn(s, i, lo, hi)) =
           Cardinality(WithIn(s, i, lo, mid)) + Cardinality(WithIn(s, i, mid, hi))
<1>1. WithIn(s, i, lo, hi) = WithIn(s, i, lo, mid) \union WithIn(s, i, mid, hi)
  BY DEF WithIn
<1>2. WithIn(s, i, lo, mid) \intersect WithIn(s, i, mid, hi) = {}
  BY DEF WithIn
<1>3. /\ IsFiniteSet(WithIn(s, i, lo, mid)) /\ Cardinality(WithIn(s, i, lo, mid)) \in Nat
      /\ IsFiniteSet(WithIn(s, i, mid, hi)) /\ Cardinality(WithIn(s, i, mid, hi)) \in Nat
  BY WithInFinite
<1>4. Cardinality({}) = 0
  BY FS_EmptySet
<1> QED
  BY <1>1, <1>2, <1>3, <1>4, FS_Union

(* An id appended to a list is contained in it, and nothing else is new.   *)
LEMMA HasAppended ==
  ASSUME NEW s \in IdList, NEW id \in Ids \union {NotFound}, NEW i
  PROVE  HasToken(Append(s, id), i) <=> HasToken(s, i) \/ i = id
<1>1. Append(s, id) \in IdList /\ s \in Seq(Ids \union {NotFound})
  BY DEF IdList
<1>2. /\ Len(s) \in Nat /\ DOMAIN s = 1 .. Len(s) /\ DOMAIN Append(s, id) = 1 .. Len(s) + 1
      /\ Append(s, id)[Len(s) + 1] = id /\ \A k \in 1 .. Len(s) : Append(s, id)[k] = s[k]
  BY <1>1
<1>3. HasToken(Append(s, id), i) <=> \E k \in 1 .. Len(s) + 1 : Append(s, id)[k] = i
  <2>1. PICK t \in IdList : t = Append(s, id)
    BY <1>1
  <2>2. HasToken(t, i) <=> \E k \in DOMAIN t : t[k] = i
    BY HasTokenIs
  <2> QED
    BY <1>2, <2>1, <2>2
<1>4. HasToken(s, i) <=> \E k \in 1 .. Len(s) : s[k] = i
  BY <1>2, HasTokenIs
<1>5. (\E k \in 1 .. Len(s) + 1 : Append(s, id)[k] = i) <=> (\E k \in 1 .. Len(s) : s[k] = i) \/ i = id
  <2>1. \A k : k \in 1 .. Len(s) + 1 <=> k \in 1 .. Len(s) \/ k = Len(s) + 1
    BY <1>2
  <2> QED
    BY <1>2, <2>1
<1> QED
  BY <1>3, <1>4, <1>5

(* No document contains an id of the vocabulary's end.                     *)
LEMMA BeyondVocabulary ==
  ASSUME IInv, NEW d \in 0 .. doc_count - 1, NEW i \in Int, i >= Len(entries)
  PROVE  ~ HasToken(slot[d], i)
<1>1. /\ slot[d] = Null \/ slot[d] \in IdList
      /\ slot[d] # Null => \A k \in DOMAIN slot[d] : slot[d][k] \in Int /\ slot[d][k] < Len(entries)
      /\ Len(entries) \in Nat
  BY SlotsHold DEF IInv, TypeOK
<1>2. CASE slot[d] = Null
  BY <1>2, HasTokenIs
<1>3. CASE slot[d] # Null
  <2>1. HasToken(slot[d], i) <=> \E k \in DOMAIN slot[d] : slot[d][k] = i
    BY <1>1, <1>3, HasTokenIs
  <2>2. \A k \in DOMAIN slot[d] : slot[d][k] # i
    BY <1>1, <1>3
  <2> QED
    BY <2>1, <2>2
<1> QED
  BY <1>2, <1>3

(* FreqInv with the slots it counts in made explicit.                      *)
LEMMA FreqInvIs ==
  /\ FreqInv <=>
       /\ ~ Batching => \A i \in 0 .. Len(entries) - 1 :
            doc_freq[i] = Cardinality(WithIn(slot, i, 0, doc_count))
       /\ Batching => \A i \in 0 .. Len(entries) - 1 :
            doc_freq[i] = Cardinality(WithIn(slot, i, 0, base_doc))
       /\ pc = "resolve" => \A i \in Ids : freq[i] = Cardinality(WithIn(slot, i, base_doc, doc_count))
  /\ FreqInv' <=>
       /\ ~ Batching' => \A i \in 0 .. Len(entries') - 1 :
            doc_freq'[i] = Cardinality(WithIn(slot', i, 0, doc_count'))
       /\ Batching' => \A i \in 0 .. Len(entries') - 1 :
            doc_freq'[i] = Cardinality(WithIn(slot', i, 0, base_doc'))
       /\ pc' = "resolve" => \A i \in Ids : freq'[i] = Cardinality(WithIn(slot', i, base_doc', doc_count'))
  BY DEF FreqInv, With, WithIn, entry_count

(* The steps the frequencies do not depend on.                             *)
LEMMA FreqEdges ==
  ASSUME IInv, [Next]_vars
  PROVE  \/ \E b \in Batches : BatchBegin(b)
         \/ SkipDoc \/ StartDoc \/ AddToken \/ InsertToken \/ Fallback \/ StartResolve
         \/ Rollback \/ Commit \/ \E w \in Workers : WorkerResolve(w)
         \/ UNCHANGED <<entries, doc_freq, slot, doc_count, base_doc, freq>>
            /\ (Batching' <=> Batching) /\ (pc' = "resolve" => pc = "resolve")
<1> USE DEF corpus, caller, work, Batching
<1>1. CASE UNCHANGED vars
  BY <1>1 DEF vars
<1>2. ASSUME NEW doc \in Docs, CallAddDoc(doc)
      PROVE  UNCHANGED <<entries, doc_freq, slot, doc_count, base_doc, freq>>
             /\ (Batching' <=> Batching) /\ (pc' = "resolve" => pc = "resolve")
  BY <1>2 DEF CallAddDoc
<1>3. ASSUME NEW b \in Batches, RejectBatch(b)
      PROVE  UNCHANGED <<entries, doc_freq, slot, doc_count, base_doc, freq>>
             /\ (Batching' <=> Batching) /\ (pc' = "resolve" => pc = "resolve")
  BY <1>3 DEF RejectBatch
<1>4. ASSUME EndDoc \/ AddReturn \/ InsertDoc
      PROVE  UNCHANGED <<entries, doc_freq, slot, doc_count, base_doc, freq>>
             /\ (Batching' <=> Batching) /\ (pc' = "resolve" => pc = "resolve")
  BY <1>4 DEF EndDoc, AddReturn, InsertDoc
<1>5. ASSUME NEW w \in Workers,
             WorkerStart(w) \/ WorkerClaim(w) \/ WorkerStop(w) \/ WorkerSkip(w)
      PROVE  UNCHANGED <<entries, doc_freq, slot, doc_count, base_doc, freq>>
             /\ (Batching' <=> Batching) /\ (pc' = "resolve" => pc = "resolve")
  BY <1>5 DEF WorkerStart, WorkerClaim, WorkerStop, WorkerSkip
<1> QED
  BY <1>1, <1>2, <1>3, <1>4, <1>5 DEF Next, CallerStep, WorkerStep

(* add_doc counts a document once for each of its tokens.                  *)
LEMMA FreqAddToken ==
  ASSUME IInv, AddToken, NEW i \in 0 .. Len(entries') - 1
  PROVE  doc_freq'[i] = Cardinality(WithIn(slot', i, 0, doc_count))
<1> DEFINE d == doc_count - 1
<1>1. PICK id \in Ids \union {NotFound} :
        /\ GetOrAdd(Head(todo), id) /\ Head(todo) \in Token \union {NoToken}
        /\ d \in Slots /\ doc_count > 0 /\ slot[d] \in IdList
        /\ slot' = [slot EXCEPT ![d] = Append(slot[d], id)]
        /\ doc_freq' = IF id = NotFound \/ ~ NewInDoc(id) THEN doc_freq
                       ELSE [doc_freq EXCEPT ![id] = FreqOf(id) + 1]
  BY AddTokenIs
<1>2. /\ Len(entries) \in Nat /\ Len(entries') \in Nat /\ Len(entries') <= MaxEntries
      /\ \/ entries' = entries /\ (id # NotFound => id < Len(entries))
         \/ id = Len(entries) /\ Len(entries') = Len(entries) + 1
  BY <1>1, VocabularyGrows DEF IInv, SlotsWritten
<1>3. /\ slot \in [Slots -> {Null, Garbage} \union IdList] /\ doc_freq \in [Ids -> Int]
      /\ doc_count \in Nat
  BY DEF IInv, TypeOK
<1>4. i \in Ids /\ i \in Nat /\ i # NotFound
  BY <1>2, Numbers
<1>5. d \in 0 .. doc_count - 1 /\ \A e \in 0 .. doc_count - 1 : e \in Slots
  BY <1>1, <1>3, SlotsHold
<1>6. \A e \in 0 .. doc_count - 1 : e # d => (HasToken(slot'[e], i) <=> HasToken(slot[e], i))
  BY <1>1, <1>3, <1>5
<1>7. HasToken(slot'[d], i) <=> HasToken(slot[d], i) \/ i = id
  <2>1. slot'[d] = Append(slot[d], id)
    BY <1>1, <1>3
  <2> QED
    BY <1>1, <2>1, HasAppended
<1>8. i < Len(entries) => doc_freq[i] = Cardinality(WithIn(slot, i, 0, doc_count))
  <2>1. ~ Batching /\ FreqInv
    BY DEF AddToken, Batching, IInv
  <2> QED
    BY <1>2, <1>4, <2>1, FreqInvIs
<1>9. NewInDoc(id) <=> ~ HasToken(slot[d], id)
  BY DEF NewInDoc
<1> HIDE DEF d
<1>10. CASE i # id \/ HasToken(slot[d], i)
  <2>1. \A e \in 0 .. doc_count - 1 : HasToken(slot'[e], i) <=> HasToken(slot[e], i)
    BY <1>6, <1>7, <1>10
  <2>2. WithIn(slot', i, 0, doc_count) = WithIn(slot, i, 0, doc_count)
    BY <2>1, WithInSame
  <2>3. doc_freq'[i] = doc_freq[i]
    <3>1. CASE i # id
      BY <1>1, <1>3, <1>4, <3>1
    <3>2. CASE i = id
      BY <1>1, <1>9, <1>10, <3>2
    <3> QED
      BY <3>1, <3>2
  <2>4. i < Len(entries)
    <3>1. CASE i # id
      BY <1>2, <1>4, <3>1
    <3>2. CASE HasToken(slot[d], i)
      <4>1. i \in Int /\ ~ (i >= Len(entries))
        BY <1>4, <1>5, <3>2, BeyondVocabulary
      <4> QED
        BY <1>2, <4>1
    <3> QED
      BY <1>10, <3>1, <3>2
  <2> QED
    BY <1>8, <2>2, <2>3, <2>4
<1>11. CASE i = id /\ ~ HasToken(slot[d], i)
  <2>1. doc_freq'[i] = FreqOf(i) + 1
    BY <1>1, <1>3, <1>4, <1>9, <1>11
  <2>2. Cardinality(WithIn(slot', i, 0, doc_count)) = Cardinality(WithIn(slot, i, 0, doc_count)) + 1
    BY <1>3, <1>5, <1>6, <1>7, <1>11, WithInMore
  <2>3. FreqOf(i) = Cardinality(WithIn(slot, i, 0, doc_count))
    <3>1. CASE i < Len(entries)
      <4>1. FreqOf(i) = doc_freq[i]
        BY <1>2, <1>4, <3>1 DEF FreqOf, entry_count
      <4> QED
        BY <1>8, <3>1, <4>1
    <3>2. CASE i = Len(entries)
      <4>1. FreqOf(i) = 0
        BY <3>2 DEF FreqOf, entry_count
      <4>2. \A e \in 0 .. doc_count - 1 : ~ HasToken(slot[e], i)
        BY <1>2, <1>4, <3>2, BeyondVocabulary
      <4> QED
        BY <4>1, <4>2, WithInNone
    <3> QED
      BY <1>2, <1>4, <3>1, <3>2
  <2> QED
    BY <2>1, <2>2, <2>3
<1> QED
  BY <1>10, <1>11

(* Phase A enters new tokens with frequency zero.                          *)
LEMMA FreqInsertToken ==
  ASSUME IInv, InsertToken, NEW i \in 0 .. Len(entries') - 1
  PROVE  doc_freq'[i] = Cardinality(WithIn(slot, i, 0, base_doc))
<1>1. PICK id \in Ids \union {NotFound} :
        /\ GetOrAdd(Head(todo), id) /\ Head(todo) \in Token \union {NoToken}
        /\ doc_freq' = IF id = NotFound THEN doc_freq
                       ELSE [doc_freq EXCEPT ![id] = FreqOf(id)]
  BY InsertTokenIs
<1>2. /\ Len(entries) \in Nat /\ Len(entries') \in Nat /\ Len(entries') <= MaxEntries
      /\ \/ entries' = entries /\ (id # NotFound => id < Len(entries))
         \/ id = Len(entries) /\ Len(entries') = Len(entries) + 1
  BY <1>1, VocabularyGrows DEF IInv, SlotsWritten
<1>3. doc_freq \in [Ids -> Int] /\ i \in Ids /\ i \in Nat
  BY <1>2, Numbers DEF IInv, TypeOK
<1>4. Batching /\ FreqInv
  BY DEF InsertToken, Batching, IInv
<1>5. CASE i < Len(entries)
  <2>1. doc_freq[i] = Cardinality(WithIn(slot, i, 0, base_doc))
    BY <1>2, <1>3, <1>4, <1>5, FreqInvIs
  <2>2. FreqOf(i) = doc_freq[i]
    BY <1>2, <1>3, <1>5 DEF FreqOf, entry_count
  <2>3. doc_freq'[i] = doc_freq[i]
    BY <1>1, <1>3, <2>2
  <2> QED
    BY <2>1, <2>3
<1>6. CASE i >= Len(entries)
  <2>1. i = Len(entries) /\ id = i
    BY <1>2, <1>3, <1>6
  <2>2. id # NotFound
    BY <1>3, <2>1, Numbers
  <2>3. FreqOf(i) = 0
    BY <2>1 DEF FreqOf, entry_count
  <2>4. doc_freq'[i] = 0
    BY <1>1, <1>3, <2>1, <2>2, <2>3
  <2>5. base_doc \in Nat /\ doc_count \in Nat /\ base_doc <= doc_count
    BY <1>4 DEF IInv, TypeOK, BatchInv
  <2>6. \A d \in 0 .. base_doc - 1 : d \in 0 .. doc_count - 1
    BY <2>5
  <2>7. \A d \in 0 .. base_doc - 1 : ~ HasToken(slot[d], i)
    BY <1>2, <1>3, <1>6, <2>6, BeyondVocabulary
  <2> QED
    BY <2>4, <2>7, WithInNone
<1> QED
  BY <1>2, <1>3, <1>5, <1>6

(* A worker counts each token of the document it resolves once.            *)
LEMMA FreqResolve ==
  ASSUME IInv, NEW w \in Workers, WorkerResolve(w)
  PROVE  FreqInv'
<1>1. PICK j \in Valid(batch) :
        /\ j = wrange[w][1] + 1 /\ pc = "resolve" /\ pc' = "resolve"
        /\ \/ slot' = [slot EXCEPT ![SlotOf(j)] = Null] /\ freq' = freq
           \/ /\ slot' = [slot EXCEPT ![SlotOf(j)] = IdsOf(batch[j])]
              /\ freq' = [i \in Ids |-> IF HasToken(IdsOf(batch[j]), i)
                                        THEN freq[i] + 1 ELSE freq[i]]
        /\ UNCHANGED <<entries, doc_freq, doc_count, base_doc>>
  BY ResolveIs
<1>2. /\ slot \in [Slots -> {Null, Garbage} \union IdList] /\ freq \in [Ids -> Nat]
      /\ base_doc \in Nat /\ doc_count \in Nat /\ base_doc <= doc_count /\ Batching
      /\ batch \in Seq(Doc) /\ FreqInv
  BY <1>1 DEF IInv, TypeOK, BatchInv, Batching
<1>3. PICK e : e = SlotOf(j)
  OBVIOUS
<1>4. e \in base_doc .. doc_count - 1 /\ e \in Slots
  BY <1>1, <1>2, <1>3, SlotOfValid
<1>5. slot[e] = Null
  <2>1. j \in Nat
    BY <1>1, <1>2, ValidFinite
  <2>2. Pending(j)
    BY <1>1, <2>1, PendingEnds
  <2> QED
    BY <1>1, <1>2, <1>3, <2>2 DEF IInv, BatchInv
<1>6. \A d \in 0 .. doc_count - 1 : d # e => slot'[d] = slot[d]
  <2>1. \A d \in 0 .. doc_count - 1 : d \in Slots
    BY SlotsHold
  <2> QED
    BY <1>1, <1>2, <1>3, <2>1
<1>7. ASSUME NEW i PROVE WithIn(slot', i, 0, base_doc) = WithIn(slot, i, 0, base_doc)
  <2>1. \A d \in 0 .. base_doc - 1 : slot'[d] = slot[d]
    BY <1>2, <1>4, <1>6
  <2>2. \A d \in 0 .. base_doc - 1 : HasToken(slot'[d], i) <=> HasToken(slot[d], i)
    BY <2>1
  <2> QED
    BY <2>2, WithInSame
<1>8. ASSUME NEW i \in Ids
      PROVE  freq'[i] = Cardinality(WithIn(slot', i, base_doc, doc_count))
  <2>1. freq[i] = Cardinality(WithIn(slot, i, base_doc, doc_count))
    BY <1>1, <1>2, FreqInvIs
  <2>2. \A d \in base_doc .. doc_count - 1 : d # e => (HasToken(slot'[d], i) <=> HasToken(slot[d], i))
    BY <1>2, <1>6
  <2>3. ~ HasToken(slot[e], i)
    BY <1>5, HasTokenIs
  <2>4. CASE HasToken(slot'[e], i)
    <3>1. freq'[i] = freq[i] + 1
      <4>1. slot'[e] # Null
        BY <2>4, HasTokenIs
      <4>2. slot'[e] = IdsOf(batch[j]) /\ freq' = [k \in Ids |->
              IF HasToken(IdsOf(batch[j]), k) THEN freq[k] + 1 ELSE freq[k]]
        BY <1>1, <1>2, <1>3, <1>4, <4>1
      <4> QED
        BY <2>4, <4>2
    <3>2. Cardinality(WithIn(slot', i, base_doc, doc_count)) =
            Cardinality(WithIn(slot, i, base_doc, doc_count)) + 1
      BY <1>2, <1>4, <2>2, <2>3, <2>4, WithInMore
    <3> QED
      BY <2>1, <3>1, <3>2
  <2>5. CASE ~ HasToken(slot'[e], i)
    <3>1. freq'[i] = freq[i]
      <4>1. CASE freq' = freq
        BY <4>1
      <4>2. CASE /\ slot' = [slot EXCEPT ![SlotOf(j)] = IdsOf(batch[j])]
                 /\ freq' = [k \in Ids |-> IF HasToken(IdsOf(batch[j]), k)
                                           THEN freq[k] + 1 ELSE freq[k]]
        <5>1. slot'[e] = IdsOf(batch[j])
          BY <1>2, <1>3, <1>4, <4>2
        <5> QED
          BY <2>5, <4>2, <5>1
      <4> QED
        BY <1>1, <4>1, <4>2
    <3>2. \A d \in base_doc .. doc_count - 1 : HasToken(slot'[d], i) <=> HasToken(slot[d], i)
      BY <2>2, <2>3, <2>5
    <3>3. WithIn(slot', i, base_doc, doc_count) = WithIn(slot, i, base_doc, doc_count)
      BY <3>2, WithInSame
    <3> QED
      BY <2>1, <3>1, <3>3
  <2> QED
    BY <2>4, <2>5
<1>9. ASSUME NEW i \in 0 .. Len(entries) - 1
      PROVE  doc_freq[i] = Cardinality(WithIn(slot', i, 0, base_doc))
  BY <1>2, <1>7, FreqInvIs
<1>10. Batching' /\ pc' = "resolve"
  BY <1>1 DEF Batching
<1> QED
  BY <1>1, <1>8, <1>9, <1>10, FreqInvIs

(* The counts the workers leave are those of the documents of the batch,   *)
(* and are added to those of the documents before it.                      *)
LEMMA FreqCommit ==
  ASSUME IInv, Commit
  PROVE  FreqInv'
<1>1. /\ pc = "resolve" /\ pc' = "idle" /\ UNCHANGED <<entries, slot, doc_count>>
      /\ doc_freq' = [i \in Ids |-> IF i < entry_count THEN doc_freq[i] + freq[i]
                                    ELSE doc_freq[i]]
  BY DEF Commit
<1>2. /\ Batching /\ ~ Batching' /\ FreqInv /\ base_doc \in Nat /\ doc_count \in Nat
      /\ base_doc <= doc_count /\ Len(entries) \in Nat /\ Len(entries) <= MaxEntries
  BY <1>1 DEF IInv, TypeOK, BatchInv, Batching, SlotsWritten, entry_count
<1>3. ASSUME NEW i \in 0 .. Len(entries) - 1
      PROVE  doc_freq'[i] = Cardinality(WithIn(slot, i, 0, doc_count))
  <2>1. i \in Ids
    BY <1>2, Numbers
  <2>2. /\ doc_freq[i] = Cardinality(WithIn(slot, i, 0, base_doc))
        /\ freq[i] = Cardinality(WithIn(slot, i, base_doc, doc_count))
    BY <1>1, <1>2, <2>1, FreqInvIs
  <2>3. Cardinality(WithIn(slot, i, 0, doc_count)) =
          Cardinality(WithIn(slot, i, 0, base_doc)) + Cardinality(WithIn(slot, i, base_doc, doc_count))
    BY <1>2, WithInSplit
  <2>4. doc_freq'[i] = doc_freq[i] + freq[i]
    BY <1>1, <1>2, <2>1 DEF entry_count
  <2> QED
    BY <2>2, <2>3, <2>4
<1>4. pc' # "resolve"
  BY <1>1
<1> QED
  BY <1>1, <1>2, <1>3, <1>4, FreqInvIs

(* doc_freq keeps counting the documents.                                  *)
LEMMA FreqStep == IInv /\ [Next]_vars => FreqInv'
<1> SUFFICES ASSUME IInv, [Next]_vars PROVE FreqInv'
  OBVIOUS
<1>0. /\ FreqInv /\ doc_count \in Nat /\ base_doc \in Nat /\ Len(entries) \in Nat
      /\ slot \in [Slots -> {Null, Garbage} \union IdList] /\ MaxDocs \in Nat
      /\ \A d \in 0 .. doc_count - 1 : d \in Slots
  BY SlotsHold, Numbers DEF IInv, TypeOK
<1>1. ASSUME NEW b \in Batches, BatchBegin(b) PROVE FreqInv'
  <2>1. b \in Seq(Doc)
    BY TokensAssumption DEF Doc
  <2>2. /\ pc = "idle" /\ pc' = "insert" /\ base_doc' = doc_count
        /\ UNCHANGED <<entries, doc_freq>>
    BY <1>1 DEF BatchBegin
  <2>3. \A d \in 0 .. doc_count - 1 : slot'[d] = slot[d]
    BY <1>0, <1>1, <2>1, ValidFinite DEF BatchBegin, ZeroedSlots
  <2>4. ASSUME NEW i PROVE WithIn(slot', i, 0, doc_count) = WithIn(slot, i, 0, doc_count)
    <3>1. \A d \in 0 .. doc_count - 1 : HasToken(slot'[d], i) <=> HasToken(slot[d], i)
      BY <2>3
    <3> QED
      BY <3>1, WithInSame
  <2>5. ~ Batching /\ Batching' /\ pc' # "resolve"
    BY <2>2 DEF Batching
  <2> QED
    BY <1>0, <2>2, <2>4, <2>5, FreqInvIs
<1>2. CASE SkipDoc
  <2>1. /\ pc = "add" /\ pc' = "add" /\ UNCHANGED <<entries, doc_freq, doc_count>>
    BY <1>2 DEF SkipDoc
  <2>2. \A d \in 0 .. doc_count - 1 : slot'[d] = slot[d]
    BY <1>0, <1>2 DEF SkipDoc
  <2>3. ASSUME NEW i PROVE WithIn(slot', i, 0, doc_count) = WithIn(slot, i, 0, doc_count)
    <3>1. \A d \in 0 .. doc_count - 1 : HasToken(slot'[d], i) <=> HasToken(slot[d], i)
      BY <2>2
    <3> QED
      BY <3>1, WithInSame
  <2>4. ~ Batching /\ ~ Batching' /\ pc' # "resolve"
    BY <2>1 DEF Batching
  <2> QED
    BY <1>0, <2>1, <2>3, <2>4, FreqInvIs
<1>3. CASE StartDoc
  <2>1. /\ pc = "add" /\ pc' = "tokens" /\ UNCHANGED <<entries, doc_freq>>
        /\ doc_count < MaxDocs /\ doc_count' = doc_count + 1
        /\ slot' = [slot EXCEPT ![doc_count] = <<>>]
    BY <1>3 DEF StartDoc
  <2>2. /\ slot'[doc_count] = <<>>
        /\ \A d \in 0 .. doc_count' - 1 : d # doc_count => slot'[d] = slot[d] /\ d \in 0 .. doc_count - 1
    BY <1>0, <2>1, Numbers
  <2>3. \A i : ~ HasToken(slot'[doc_count], i)
    <3>1. <<>> \in IdList /\ DOMAIN <<>> = {}
      BY DEF IdList
    <3> QED
      BY <2>2, <3>1, HasTokenIs
  <2>4. ASSUME NEW i PROVE WithIn(slot', i, 0, doc_count') = WithIn(slot, i, 0, doc_count)
    <3>1. \A d \in 0 .. doc_count - 1 : d \in 0 .. doc_count' - 1 /\ d # doc_count
      BY <1>0, <2>1
    <3> QED
      BY <2>2, <2>3, <3>1 DEF WithIn
  <2>5. ~ Batching /\ ~ Batching' /\ pc' # "resolve"
    BY <2>1 DEF Batching
  <2> QED
    BY <1>0, <2>1, <2>4, <2>5, FreqInvIs
<1>4. CASE AddToken
  <2>1. /\ pc' = "tokens" /\ doc_count' = doc_count
    BY <1>4 DEF AddToken
  <2>2. ~ Batching' /\ pc' # "resolve"
    BY <2>1 DEF Batching
  <2>3. \A i \in 0 .. Len(entries') - 1 : doc_freq'[i] = Cardinality(WithIn(slot', i, 0, doc_count))
    BY <1>4, FreqAddToken
  <2> QED
    BY <2>1, <2>2, <2>3, FreqInvIs
<1>5. CASE InsertToken
  <2>1. /\ pc' = "insert" /\ slot' = slot /\ base_doc' = base_doc
    BY <1>5 DEF InsertToken
  <2>2. Batching' /\ pc' # "resolve"
    BY <2>1 DEF Batching
  <2>3. \A i \in 0 .. Len(entries') - 1 : doc_freq'[i] = Cardinality(WithIn(slot, i, 0, base_doc))
    BY <1>5, FreqInsertToken
  <2> QED
    BY <2>1, <2>2, <2>3, FreqInvIs
<1>6. CASE Fallback
  <2>1. /\ pc = "insert" /\ pc' = "add" /\ doc_count' = base_doc
        /\ UNCHANGED <<entries, doc_freq, slot>>
    BY <1>6 DEF Fallback
  <2>2. Batching /\ ~ Batching' /\ pc' # "resolve"
    BY <2>1 DEF Batching
  <2> QED
    BY <1>0, <2>1, <2>2, FreqInvIs
<1>7. CASE StartResolve
  <2>1. /\ pc = "insert" /\ pc' = "resolve" /\ freq' = [i \in Ids |-> 0]
        /\ UNCHANGED <<entries, doc_freq, slot, base_doc, doc_count>>
    BY <1>7 DEF StartResolve, corpus
  <2>2. Batching /\ Batching'
    BY <2>1 DEF Batching
  <2>3. \A d \in base_doc .. doc_count - 1 : slot[d] = Null
    BY <2>1, <2>2 DEF IInv, BatchInv
  <2>4. ASSUME NEW i \in Ids PROVE freq'[i] = Cardinality(WithIn(slot, i, base_doc, doc_count))
    <3>1. \A d \in base_doc .. doc_count - 1 : ~ HasToken(slot[d], i)
      BY <2>3, HasTokenIs
    <3> QED
      BY <2>1, <3>1, WithInNone
  <2> QED
    BY <1>0, <2>1, <2>2, <2>4, FreqInvIs
<1>8. CASE Rollback
  <2>1. /\ pc = "resolve" /\ pc' = "idle" /\ doc_count' = base_doc /\ doc_freq' = doc_freq
    BY <1>8 DEF Rollback
  <2>2. Batching /\ ~ Batching' /\ pc' # "resolve"
    BY <2>1 DEF Batching
  <2>3. Len(entries') \in Nat /\ Len(entries') <= Len(entries)
    BY <1>8, RollbackCuts
  <2>4. base_doc <= doc_count
    BY <2>2 DEF IInv, BatchInv
  <2>5. \A d \in 0 .. base_doc - 1 : slot'[d] = slot[d]
    BY <1>0, <1>8, <2>4 DEF Rollback
  <2>6. ASSUME NEW i \in 0 .. Len(entries') - 1
        PROVE  doc_freq'[i] = Cardinality(WithIn(slot', i, 0, base_doc))
    <3>1. \A d \in 0 .. base_doc - 1 : HasToken(slot'[d], i) <=> HasToken(slot[d], i)
      BY <2>5
    <3>2. WithIn(slot', i, 0, base_doc) = WithIn(slot, i, 0, base_doc)
      BY <3>1, WithInSame
    <3>3. i \in 0 .. Len(entries) - 1
      BY <1>0, <2>3
    <3>4. doc_freq[i] = Cardinality(WithIn(slot, i, 0, base_doc))
      BY <1>0, <2>2, <3>3, FreqInvIs
    <3> QED
      BY <2>1, <3>2, <3>4
  <2> QED
    BY <2>1, <2>2, <2>6, FreqInvIs
<1>9. CASE Commit
  BY <1>9, FreqCommit
<1>10. ASSUME NEW w \in Workers, WorkerResolve(w) PROVE FreqInv'
  BY <1>10, FreqResolve
<1>11. ASSUME UNCHANGED <<entries, doc_freq, slot, doc_count, base_doc, freq>>,
              Batching' <=> Batching, pc' = "resolve" => pc = "resolve"
       PROVE  FreqInv'
  BY <1>0, <1>11, FreqInvIs
<1> QED
  BY <1>1, <1>2, <1>3, <1>4, <1>5, <1>6, <1>7, <1>8, <1>9, <1>10, <1>11, FreqEdges

-------------------------------------------------------------------------------
(* IInv holds when the corpus is created.                                  *)
LEMMA InitIInv == Init => IInv
<1> SUFFICES ASSUME Init PROVE IInv
  OBVIOUS
<1>1. TypeOK
  <2>1. <<>> \in Doc /\ <<>> \in Seq(Token) /\ <<>> \in Seq(Doc)
    BY DEF Doc
  <2>2. NotFound \in Ids \union {NotFound} /\ \A i \in Ids : 0 \in Int
    OBVIOUS
  <2>3. 0 \in Nat /\ 1 \in Nat \ {0} /\ FALSE \in BOOLEAN
    OBVIOUS
  <2>4. <<0, 0>> \in Nat \X Nat
    OBVIOUS
  <2>5. /\ entries \in Seq(Token) /\ batch \in Seq(Doc) /\ todo \in Doc
        /\ source \in [Slots -> Doc]
    BY <2>1 DEF Init
  <2>6. /\ doc_freq \in [Ids -> Int] /\ token_map \in [Token -> Ids \union {NotFound}]
        /\ slot \in [Slots -> {Null, Garbage} \union IdList] /\ freq \in [Ids -> Nat]
        /\ wpc \in [Workers -> {"start", "claim", "docs", "done"}]
        /\ wrange \in [Workers -> Nat \X Nat]
    BY <2>4 DEF Init
  <2>7. /\ doc_count \in Nat /\ doc_cap \in Nat /\ at \in Nat \ {0} /\ base_doc \in Nat
        /\ next_idx \in Nat
    BY DEF Init
  <2>8. pc \in {"idle", "add", "tokens", "insert", "resolve"} /\ error \in BOOLEAN
    BY DEF Init
  <2> QED
    BY <2>5, <2>6, <2>7, <2>8 DEF TypeOK
<1>2. /\ entries = <<>> /\ doc_count = 0 /\ doc_cap = 0 /\ pc = "idle" /\ map_out = <<>>
      /\ token_map = [t \in Token |-> NotFound] /\ MaxEntries \in Nat /\ MaxDocs \in Nat
  BY Numbers DEF Init
<1>3. Len(entries) = 0 /\ 1 .. Len(entries) = {} /\ 0 .. Len(entries) - 1 = {}
  BY <1>2
<1>4. 0 .. doc_count - 1 = {}
  BY <1>2
<1>5. VocabularyConsistent
  BY <1>2, <1>3 DEF VocabularyConsistent, entry_count
<1>6. SlotsWritten
  BY <1>2, <1>3, <1>4 DEF SlotsWritten, entry_count
<1>7. DocsInv /\ RangesInv /\ BatchInv
  BY <1>2, <1>4 DEF DocsInv, RangesInv, BatchInv, Batching
<1>8. FreqInv
  BY <1>2, <1>3 DEF FreqInv, Batching, entry_count
<1>9. MapInv
  <2>1. map_out \in Seq(Int) /\ DOMAIN map_out = {}
    BY <1>2
  <2> QED
    BY <1>2, <2>1 DEF MapInv, DocMapSound
<1> QED
  BY <1>1, <1>5, <1>6, <1>7, <1>8, <1>9 DEF IInv

(* IInv is inductive.                                                      *)
LEMMA IInvariance == Spec => []IInv
<1>1. IInv /\ [Next]_vars => IInv'
  BY TypeStep, VocabularyStep, SlotsStep, DocsStep, RangesStep, BatchStep, FreqStep, MapStep
     DEF IInv
<1> QED
  BY InitIInv, <1>1, PTL DEF Spec

(* The table and entries[] describe one numbering at every step.           *)
THEOREM OneNumbering == Spec => []VocabularyConsistent
<1>1. IInv => VocabularyConsistent
  BY DEF IInv
<1> QED
  BY <1>1, IInvariance, PTL

(* Between calls doc_freq of an entry is the number of documents that      *)
(* contain it, whatever calls, failures, fallbacks and rollbacks built     *)
(* them.                                                                   *)
THEOREM FrequenciesCount == Spec => []DocFreqExact
<1>1. IInv => DocFreqExact
  BY DEF IInv, FreqInv, DocFreqExact, Batching, With
<1> QED
  BY <1>1, IInvariance, PTL

(* Between calls the ids of a document name the tokens it was built from.  *)
THEOREM DocumentsNameTheirTokens == Spec => []DocsFaithful
<1>1. IInv => DocsFaithful
  BY DEF IInv, DocsInv, Faithful, DocsFaithful
<1> QED
  BY <1>1, IInvariance, PTL

(* No slot of a document holds memory nobody wrote, and the documents and  *)
(* the vocabulary stay within the arrays and the caps.                     *)
THEOREM SlotsAreWritten == Spec => []SlotsWritten
<1>1. IInv => SlotsWritten
  BY DEF IInv
<1> QED
  BY <1>1, IInvariance, PTL

(* A position given in doc_map_out is the place of the document passed.    *)
THEOREM MapNamesOwnDocs == Spec => []DocMapSound
<1>1. IInv => DocMapSound
  BY DEF IInv, MapInv
<1> QED
  BY <1>1, IInvariance, PTL

(* Phase B ends in a rollback or a commit.                                 *)
LEMMA ResolveEnds ==
  ASSUME [Next]_vars, pc = "resolve", pc' = "idle"
  PROVE  Rollback \/ Commit
<1>1. ASSUME NEW doc \in Docs, CallAddDoc(doc) PROVE FALSE
  BY <1>1 DEF CallAddDoc
<1>2. ASSUME NEW b \in Batches, RejectBatch(b) \/ BatchBegin(b) PROVE FALSE
  BY <1>2 DEF RejectBatch, BatchBegin
<1>3. ASSUME SkipDoc \/ StartDoc \/ AddToken \/ EndDoc \/ AddReturn \/ InsertDoc
             \/ InsertToken \/ Fallback \/ StartResolve
      PROVE  FALSE
  BY <1>3 DEF SkipDoc, StartDoc, AddToken, EndDoc, AddReturn, InsertDoc, InsertToken,
              Fallback, StartResolve
<1>4. ASSUME NEW w \in Workers, WorkerStep(w) PROVE FALSE
  BY <1>4 DEF WorkerStep, WorkerStart, WorkerClaim, WorkerStop, WorkerSkip, WorkerResolve, caller
<1>5. CASE UNCHANGED vars
  BY <1>5 DEF vars
<1> QED
  BY <1>1, <1>2, <1>3, <1>4, <1>5 DEF Next, CallerStep

(* A batch whose worker failed leaves no trace.                            *)
THEOREM RollbackLeavesNoTrace == Spec => RollbackRestores
<1>1. ASSUME IInv, [Next]_vars, pc = "resolve", pc' = "idle", error
      PROVE  /\ entries' = before.entries /\ doc_count' = before.docs
             /\ \A i \in 0 .. Len(entries') - 1 : doc_freq'[i] = before.doc_freq[i]
             /\ \A d \in 0 .. doc_count' - 1 : slot'[d] = before.slot[d]
  <2>1. Rollback
    BY <1>1, ResolveEnds DEF Commit
  <2>2. /\ before.docs = base_doc /\ base_doc <= doc_count /\ before.entries \in Seq(Token)
        /\ \A i \in 1 .. Len(before.entries) : entries[i] = before.entries[i]
        /\ \A i \in 0 .. Len(before.entries) - 1 : doc_freq[i] = before.doc_freq[i]
        /\ \A d \in 0 .. base_doc - 1 : slot[d] = before.slot[d]
    BY <1>1 DEF IInv, BatchInv, Batching, entry_count
  <2>3. /\ Len(before.entries) \in Nat /\ Len(before.entries) <= Len(entries)
        /\ entries' \in Seq(Token) /\ Len(entries') = Len(before.entries)
        /\ \A i \in 1 .. Len(entries') : entries'[i] = entries[i]
    BY <1>1, <2>1, RollbackCuts
  <2>4. entries' = before.entries
    BY <2>2, <2>3
  <2>5. doc_count' = base_doc /\ doc_freq' = doc_freq
    BY <2>1 DEF Rollback
  <2>6. base_doc \in Nat /\ doc_count \in Nat
    BY <1>1 DEF IInv, TypeOK
  <2>7. \A d \in 0 .. base_doc - 1 : d \in Slots /\ d \notin base_doc .. doc_count - 1
    <3>1. \A d \in 0 .. base_doc - 1 : d \in 0 .. doc_count - 1 /\ d \notin base_doc .. doc_count - 1
      BY <2>2, <2>6
    <3> QED
      BY <1>1, <3>1, SlotsHold
  <2>8. slot' = [d \in Slots |-> IF d \in base_doc .. doc_count - 1 THEN Null ELSE slot[d]]
    BY <2>1 DEF Rollback
  <2>9. \A d \in 0 .. base_doc - 1 : slot'[d] = slot[d]
    BY <2>7, <2>8
  <2> QED
    BY <2>2, <2>4, <2>5, <2>9
<1>2. IInv /\ [Next]_vars =>
        [pc = "resolve" /\ pc' = "idle" /\ error =>
           /\ entries' = before.entries /\ doc_count' = before.docs
           /\ \A i \in 0 .. Len(entries') - 1 : doc_freq'[i] = before.doc_freq[i]
           /\ \A d \in 0 .. doc_count' - 1 : slot'[d] = before.slot[d]]_vars
  BY <1>1
<1> QED
  BY <1>2, IInvariance, PTL DEF Spec, RollbackRestores
===============================================================================
