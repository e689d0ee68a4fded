---------------------------- MODULE Finalize_proofs ----------------------------
(***************************************************************************)
(* Theorems about Finalize, for any number of entries, documents and       *)
(* calls.  The first part is a small theory of the memory record: what     *)
(* Alloc, Write and FreeAll do to a sound memory, in terms of who holds a  *)
(* block and what the block contains.  With it each phase is a computation *)
(* on sets of pointers.                                                    *)
(***************************************************************************)
EXTENDS Finalize, FiniteSetTheorems, TLAPS

(* The fields of a memory.                                                 *)
LEMMA MemoryFields ==
  ASSUME NEW m \in Memory
  PROVE  /\ m.heap \in Seq(Contents) /\ Len(m.heap) \in Nat /\ DOMAIN m.heap = 1 .. Len(m.heap)
         /\ m.ptr \in [Pointer -> Nat] /\ m.bad \in BOOLEAN
         /\ \A b \in 1 .. Len(m.heap) : m.heap[b] \in Contents
         /\ \A p \in Pointer : p \in Held(m) <=> m.ptr[p] # 0
  BY DEF Memory, Held, Live, NULL

(* malloc gives a pointer that held nothing a block of its own.            *)
LEMMA AllocSound ==
  ASSUME NEW m, Sound(m), NEW p \in Pointer, p \notin Held(m), NEW c \in Contents, c # "freed"
  PROVE  LET n == Alloc(m, p, c)
         IN  /\ Sound(n) /\ Held(n) = Held(m) \union {p} /\ Content(n, p) = c
             /\ \A q \in Held(m) : Content(n, q) = Content(m, q)
<1> DEFINE n == Alloc(m, p, c)
           k == Len(m.heap) + 1
<1>0. m \in Memory
  BY DEF Sound
<1>1. /\ m.heap \in Seq(Contents) /\ Len(m.heap) \in Nat /\ m.ptr \in [Pointer -> Nat]
      /\ m.bad = FALSE /\ DOMAIN m.heap = 1 .. Len(m.heap)
  BY <1>0, MemoryFields DEF Sound
<1>2. /\ n.heap = Append(m.heap, c) /\ n.ptr = [m.ptr EXCEPT ![p] = k] /\ n.bad = m.bad
      /\ n = [heap |-> n.heap, ptr |-> n.ptr, bad |-> n.bad]
  BY DEF Alloc
<1>3. /\ n.heap \in Seq(Contents) /\ Len(n.heap) = k /\ n.heap[k] = c
      /\ \A b \in 1 .. Len(m.heap) : n.heap[b] = m.heap[b]
      /\ k \in Nat /\ k # 0 /\ k \notin 1 .. Len(m.heap)
  BY <1>1, <1>2
<1>4. n.ptr \in [Pointer -> Nat] /\ n.ptr[p] = k /\ \A q \in Pointer : q # p => n.ptr[q] = m.ptr[q]
  BY <1>1, <1>2, <1>3
<1>5. n \in Memory
  BY <1>1, <1>2, <1>3, <1>4 DEF Memory
<1> HIDE DEF n, k
<1>6. Held(n) = Held(m) \union {p}
  BY <1>3, <1>4 DEF Held, Live, NULL
<1>7. \A q \in Held(m) : /\ q # p /\ n.ptr[q] = m.ptr[q] /\ m.ptr[q] \in 1 .. Len(m.heap)
                         /\ Content(n, q) = Content(m, q) /\ Content(m, q) # "freed"
  <2> SUFFICES ASSUME NEW q \in Held(m)
               PROVE  /\ q # p /\ n.ptr[q] = m.ptr[q] /\ m.ptr[q] \in 1 .. Len(m.heap)
                      /\ Content(n, q) = Content(m, q) /\ Content(m, q) # "freed"
    OBVIOUS
  <2>1. q \in Pointer /\ q # p /\ m.ptr[q] \in 1 .. Len(m.heap) /\ Content(m, q) # "freed"
    BY DEF Held, Sound
  <2> QED
    BY <2>1, <1>3, <1>4 DEF Content
<1>8. Content(n, p) = c
  BY <1>3, <1>4 DEF Content
<1>9. \A q \in Held(n) : n.ptr[q] \in 1 .. Len(n.heap) /\ Content(n, q) # "freed"
  BY <1>1, <1>3, <1>4, <1>6, <1>7, <1>8 DEF k
<1>10. \A q, r \in Held(n) : n.ptr[q] = n.ptr[r] => q = r
  BY <1>3, <1>4, <1>6, <1>7 DEF Sound
<1>11. \A b \in 1 .. Len(n.heap) : n.heap[b] # "freed" => \E q \in Held(n) : n.ptr[q] = b
  <2> SUFFICES ASSUME NEW b \in 1 .. Len(n.heap), n.heap[b] # "freed"
               PROVE  \E q \in Held(n) : n.ptr[q] = b
    OBVIOUS
  <2>1. CASE b = k
    BY <2>1, <1>4, <1>6
  <2>2. CASE b # k
    <3>1. b \in 1 .. Len(m.heap) /\ m.heap[b] # "freed"
      BY <2>2, <1>1, <1>3 DEF k
    <3>2. PICK q \in Held(m) : m.ptr[q] = b
      BY <3>1 DEF Sound
    <3> QED
      BY <3>2, <1>6, <1>7
  <2> QED
    BY <2>1, <2>2
<1> QED
  BY <1>1, <1>2, <1>5, <1>6, <1>7, <1>8, <1>9, <1>10, <1>11 DEF Sound, n

(* A write changes the contents of one pointer's block.                    *)
LEMMA WriteSound ==
  ASSUME NEW m, Sound(m), NEW p \in Held(m), NEW c \in Contents, c # "freed"
  PROVE  LET n == Write(m, p, c)
         IN  /\ Sound(n) /\ Held(n) = Held(m) /\ Content(n, p) = c
             /\ \A q \in Held(m) \ {p} : Content(n, q) = Content(m, q)
<1> DEFINE n == Write(m, p, c)
<1>0. m \in Memory /\ p \in Pointer
  BY DEF Sound, Held
<1>1. /\ m.heap \in Seq(Contents) /\ Len(m.heap) \in Nat /\ m.ptr \in [Pointer -> Nat]
      /\ m.bad = FALSE /\ DOMAIN m.heap = 1 .. Len(m.heap)
      /\ m.ptr[p] \in 1 .. Len(m.heap) /\ m.heap[m.ptr[p]] # "freed"
  BY <1>0, MemoryFields DEF Sound, Content
<1>2. /\ n.heap = [m.heap EXCEPT ![m.ptr[p]] = c] /\ n.ptr = m.ptr
      /\ n = [heap |-> n.heap, ptr |-> n.ptr, bad |-> n.bad]
  BY DEF Write
<1>3. n.bad = FALSE
  BY <1>1 DEF Write, Content
<1>4. /\ n.heap \in Seq(Contents) /\ Len(n.heap) = Len(m.heap) /\ n.heap[m.ptr[p]] = c
      /\ \A b \in 1 .. Len(m.heap) : b # m.ptr[p] => n.heap[b] = m.heap[b]
  BY <1>1, <1>2
<1>5. n \in Memory
  BY <1>1, <1>2, <1>3, <1>4 DEF Memory
<1> HIDE DEF n
<1>6. Held(n) = Held(m)
  BY <1>2 DEF Held, Live
<1>7. \A q \in Held(m) \ {p} : Content(n, q) = Content(m, q)
  BY <1>2, <1>4 DEF Sound, Content
<1>8. Content(n, p) = c
  BY <1>2, <1>4 DEF Content
<1>9. \A q \in Held(n) : n.ptr[q] \in 1 .. Len(n.heap) /\ Content(n, q) # "freed"
  BY <1>2, <1>4, <1>6, <1>7, <1>8 DEF Sound
<1>10. \A b \in 1 .. Len(n.heap) : n.heap[b] # "freed" => \E q \in Held(n) : n.ptr[q] = b
  BY <1>1, <1>2, <1>4, <1>6 DEF Sound
<1>11. \A q, r \in Held(n) : n.ptr[q] = n.ptr[r] => q = r
  BY <1>2, <1>6 DEF Sound
<1> QED
  BY <1>3, <1>5, <1>6, <1>7, <1>8, <1>9, <1>10, <1>11 DEF Sound, n

(* free of some pointers leaves the others and their blocks alone.         *)
LEMMA FreeSound ==
  ASSUME NEW m, Sound(m), NEW S \in SUBSET Pointer
  PROVE  LET n == FreeAll(m, S)
         IN  /\ Sound(n) /\ Held(n) = Held(m) \ S
             /\ \A q \in Held(m) \ S : Content(n, q) = Content(m, q)
<1> DEFINE n == FreeAll(m, S)
           blocks == {m.ptr[p] : p \in {q \in S : Live(m, q)}}
<1>0. m \in Memory /\ Held(m) \subseteq Pointer
  BY DEF Sound, Held
<1>1. /\ m.heap \in Seq(Contents) /\ Len(m.heap) \in Nat /\ m.ptr \in [Pointer -> Nat]
      /\ m.bad = FALSE /\ DOMAIN m.heap = 1 .. Len(m.heap)
  BY <1>0, MemoryFields DEF Sound
<1>2. {q \in S : Live(m, q)} = S \cap Held(m)
  BY DEF Held
<1>3. /\ n.heap = [b \in 1 .. Len(m.heap) |-> IF b \in blocks THEN "freed" ELSE m.heap[b]]
      /\ n.ptr = [p \in Pointer |-> IF p \in S THEN NULL ELSE m.ptr[p]]
      /\ n = [heap |-> n.heap, ptr |-> n.ptr, bad |-> n.bad]
  BY <1>1 DEF FreeAll
<1>4. n.bad = FALSE
  <2>1. \A b \in blocks : m.heap[b] # "freed"
    BY <1>2 DEF Sound, Content
  <2>2. \A p, q \in {r \in S : Live(m, r)} : m.ptr[p] = m.ptr[q] => p = q
    BY <1>2 DEF Sound
  <2> QED
    BY <1>1, <2>1, <2>2 DEF FreeAll
<1>5. /\ n.heap \in Seq(Contents) /\ Len(n.heap) = Len(m.heap)
      /\ \A b \in 1 .. Len(m.heap) : n.heap[b] = IF b \in blocks THEN "freed" ELSE m.heap[b]
  <2>1. \A b \in 1 .. Len(m.heap) : (IF b \in blocks THEN "freed" ELSE m.heap[b]) \in Contents
    BY <1>1 DEF Contents
  <2> QED
    BY <1>1, <1>3, <2>1
<1>6. n.ptr \in [Pointer -> Nat] /\ \A p \in Pointer : n.ptr[p] = IF p \in S THEN 0 ELSE m.ptr[p]
  BY <1>1, <1>3 DEF NULL
<1>7. n \in Memory
  BY <1>3, <1>4, <1>5, <1>6 DEF Memory
<1>8. \A b : b \in blocks <=> \E p \in S \cap Held(m) : m.ptr[p] = b
  BY <1>2
<1> HIDE DEF n, blocks
<1>9. Held(n) = Held(m) \ S
  BY <1>6 DEF Held, Live, NULL
<1>10. \A q \in Held(m) \ S : /\ n.ptr[q] = m.ptr[q] /\ m.ptr[q] \in 1 .. Len(m.heap)
                              /\ m.ptr[q] \notin blocks
  BY <1>0, <1>6, <1>8 DEF Sound
<1>11. \A q \in Held(m) \ S : Content(n, q) = Content(m, q)
  BY <1>5, <1>10 DEF Content
<1>12. \A q \in Held(n) : n.ptr[q] \in 1 .. Len(n.heap) /\ Content(n, q) # "freed"
  BY <1>5, <1>9, <1>10, <1>11 DEF Sound
<1>13. \A b \in 1 .. Len(n.heap) : n.heap[b] # "freed" => \E q \in Held(n) : n.ptr[q] = b
  <2> SUFFICES ASSUME NEW b \in 1 .. Len(n.heap), n.heap[b] # "freed"
               PROVE  \E q \in Held(n) : n.ptr[q] = b
    OBVIOUS
  <2>1. b \in 1 .. Len(m.heap) /\ b \notin blocks /\ m.heap[b] # "freed"
    BY <1>5
  <2>2. PICK q \in Held(m) : m.ptr[q] = b
    BY <2>1 DEF Sound
  <2> QED
    BY <2>1, <2>2, <1>8, <1>9, <1>10
<1>14. \A q, r \in Held(n) : n.ptr[q] = n.ptr[r] => q = r
  BY <1>9, <1>10 DEF Sound
<1> QED
  BY <1>4, <1>7, <1>9, <1>11, <1>12, <1>13, <1>14 DEF Sound, n

(* calloc or malloc as the code calls it: it may give nothing.             *)
LEMMA TryAllocSound ==
  ASSUME NEW m, Sound(m), NEW p \in Pointer, p \notin Held(m), NEW c \in Contents, c # "freed",
         NEW n \in TryAlloc(m, p, c)
  PROVE  /\ Sound(n) /\ Held(n) \in {Held(m), Held(m) \union {p}}
         /\ p \in Held(n) => Content(n, p) = c
         /\ \A q \in Held(m) : Content(n, q) = Content(m, q)
<1>1. n = m \/ n = Alloc(m, p, c)
  BY DEF TryAlloc
<1> QED
  BY <1>1, AllocSound

(* free of one pointer.                                                    *)
LEMMA OneFreeSound ==
  ASSUME NEW m, Sound(m), NEW p \in Pointer
  PROVE  LET n == Free(m, p)
         IN  /\ Sound(n) /\ Held(n) = Held(m) \ {p}
             /\ \A q \in Held(m) \ {p} : Content(n, q) = Content(m, q)
<1>1. {p} \in SUBSET Pointer
  OBVIOUS
<1> QED
  BY <1>1, FreeSound DEF Free

(* The pointers of the corpus and of finalize, spelt out.                  *)
LEMMA Pointers ==
  /\ Pointer = {"enriched_vecs", "enriched_vecs_q", "doc_vectors_q", "inv_mag",
                "enr_sparse_idx", "enr_sparse_val", "doc_sparse_idx", "doc_sparse_val",
                "inv_offsets", "inv_doc_ids", "doc_vectors", "doc_token_ids",
                "rev", "src_entries", "pass1_q", "scratch", "local_q", "doc_idf",
                "occ_counts", "tmp_ids", "cursor"}
  /\ Attached \subseteq Pointer /\ Enriched \subseteq Attached /\ DocQ \subseteq Attached
  /\ Sparse \subseteq Attached /\ InvIndex \subseteq Attached /\ Transient \subseteq Pointer
  /\ "doc_token_ids" \in Attached /\ "doc_vectors" \in Attached
  /\ \A m : Held(m) \subseteq Pointer /\ \A p \in Pointer : Live(m, p) <=> p \in Held(m)
  BY DEF Pointer, Attached, Local, Enriched, DocQ, Sparse, InvIndex, Transient, Held

(* A new corpus holds its token lists and nothing else.                    *)
LEMMA InitIInv == Init => IInv
<1> SUFFICES ASSUME Init PROVE IInv
  OBVIOUS
<1> DEFINE empty == [heap |-> <<>>, ptr |-> [p \in Pointer |-> NULL], bad |-> FALSE]
<1>1. Sound(empty) /\ Held(empty) = {}
  <2>1. Held(empty) = {}
    BY DEF Held, Live
  <2>2. empty \in Memory
    BY DEF Memory, NULL
  <2>3. ~ empty.bad /\ 1 .. Len(empty.heap) = {}
    OBVIOUS
  <2> HIDE DEF empty
  <2> QED
    BY <2>1, <2>2, <2>3 DEF Sound
<1> HIDE DEF empty
<1>2. "data" \in Contents /\ "doc_token_ids" \in Pointer
  BY Pointers DEF Contents
<1>3. mem = Alloc(empty, "doc_token_ids", "data")
  BY DEF Init, empty
<1>4. Sound(mem) /\ Held(mem) = {"doc_token_ids"}
  BY <1>1, <1>2, <1>3, AllocSound
<1>5. TypeOK /\ pc = "idle" /\ stage = "idle" /\ ~ finalized
  BY CountsAssumption DEF Init, TypeOK, stage
<1>6. Stage(stage, Held(mem))
  BY <1>4, <1>5 DEF Stage
<1> QED
  BY <1>4, <1>5, <1>6 DEF IInv

(* What each place says of the memory.                                     *)
LEMMA StageIs ==
  ASSUME IInv
  PROVE  /\ TypeOK /\ Sound(mem)
         /\ pc \in {"rev", "idle"} /\ stage # "final" => Held(mem) = {"doc_token_ids"}
         /\ pc = "enriched" => Held(mem) = Building
         /\ pc = "pass1" => \E e \in Enriched : Held(mem) = Building \union {e}
         /\ pc = "pass2" =>
              \E S \in {{"enriched_vecs"}, {"enriched_vecs_q"}, Enriched,
                        {"enriched_vecs_q", "pass1_q"}} : Held(mem) = Building \union S
         /\ pc = "requantize" =>
              \E S \in {{"enriched_vecs"}, {"enriched_vecs_q"}, Enriched} :
                Held(mem) = Building \union S
         /\ pc = "docvec" => \E e \in Enriched : Held(mem) = Building \union {e}
         /\ pc = "quantize" =>
              /\ SidesAgree(mem)
              /\ \E e \in Enriched : Held(mem) = Building \union {e, "doc_vectors"}
         /\ pc = "sparse" =>
              /\ SidesAgree(mem)
              /\ \E e \in Enriched :
                   Held(mem) = Building \union {e} \union (IF doc_count = 0 THEN {} ELSE DocQ)
         /\ pc = "inverted" =>
              /\ SidesAgree(mem)
              /\ \E E \in EnrichedForms, D \in DocForms :
                   Held(mem) = {"doc_token_ids"} \union E \union D
         /\ stage = "final" =>
              /\ SidesAgree(mem)
              /\ \E E \in EnrichedForms, D \in DocForms, I \in {{}, InvIndex} :
                   Held(mem) = E \union D \union I
         /\ pc = "gone" => Held(mem) = {}
         /\ pc \notin {"idle", "gone"} =>
              stage = pc /\ entry_count > 0 /\ ~ finalized /\ ~ finalize_failed
  BY DEF IInv, Stage, stage

(* A phase that fails has given everything back but the documents.         *)
LEMMA GiveBackKeeps ==
  ASSUME IInv, pc' = "idle", finalize_failed' = TRUE, UNCHANGED <<entry_count, doc_count, finalized>>,
         ~ finalized, Sound(mem'), Held(mem') = {"doc_token_ids"}
  PROVE  IInv'
<1>1. /\ TypeOK' /\ pc' = "idle" /\ ~ finalized' /\ stage' = "idle"
  BY DEF IInv, TypeOK, stage
<1>2. Stage(stage, Held(mem))'
  BY <1>1 DEF Stage
<1>3. stage' \notin {"quantize", "sparse", "inverted", "final"}
  BY <1>1
<1> QED
  BY <1>1, <1>2, <1>3 DEF IInv

(* Likewise through the common exit.                                       *)
LEMMA FailKeeps ==
  ASSUME IInv, Fail, ~ finalized, Sound(mem'), Held(mem') = {"doc_token_ids"}
  PROVE  IInv'
  BY GiveBackKeeps DEF Fail, FailWith, flags

(* A phase that goes on leaves what its successor expects.                 *)
LEMMA GoOnKeeps ==
  ASSUME IInv, NEW l, GoOn(l), pc \notin {"idle", "gone"},
         l \in {"enriched", "pass1", "pass2", "requantize", "docvec", "quantize", "sparse", "inverted"},
         Sound(mem'), Stage(l, Held(mem')),
         l \in {"quantize", "sparse", "inverted"} => SidesAgree(mem')
  PROVE  IInv'
<1>1. /\ pc' = l /\ stage' = l /\ TypeOK' /\ finalized' = finalized /\ ~ finalized
      /\ finalize_failed' = finalize_failed /\ ~ finalize_failed
      /\ entry_count' = entry_count /\ entry_count > 0
  BY DEF IInv, GoOn, flags, outcome, TypeOK, stage
<1>2. doc_count' = doc_count
  BY DEF GoOn, flags
<1>3. Stage(stage, Held(mem))'
  BY <1>1, <1>2 DEF Stage, DocForms
<1>4. stage' \in {"quantize", "sparse", "inverted", "final"} => SidesAgree(mem')
  BY <1>1
<1> QED
  BY <1>1, <1>3, <1>4 DEF IInv

(* The entry of finalize touches no buffer.                                *)
LEMMA CallKeeps ==
  ASSUME IInv, Call
  PROVE  IInv'
<1>1. /\ pc = "idle" /\ mem' = mem /\ flags' = flags /\ finalize_failed' = finalize_failed
  BY DEF Call
<1>2. /\ entry_count' = entry_count /\ doc_count' = doc_count
  BY <1>1 DEF flags
<1>a. /\ finalized \in BOOLEAN /\ finalize_failed \in BOOLEAN
      /\ finalized => ~ finalize_failed
  BY DEF IInv, TypeOK
<1>b. \/ pc' = pc /\ finalized' = finalized
      \/ pc' = pc /\ finalized' = TRUE /\ ~ finalize_failed /\ entry_count = 0
      \/ pc' = "rev" /\ finalized' = finalized /\ ~ finalized /\ ~ finalize_failed /\ entry_count > 0
  BY DEF Call
<1>3. TypeOK'
  BY <1>1, <1>2, <1>a, <1>b DEF IInv, TypeOK
<1>c. (finalized' => ~ finalize_failed')
      /\ (pc' \notin {"idle", "gone"} => entry_count' > 0 /\ ~ finalized' /\ ~ finalize_failed')
  BY <1>1, <1>2, <1>a, <1>b
<1>4. (stage' = stage) \/ (stage = "idle" /\ stage' = "rev")
  BY <1>1, <1>2, <1>b DEF stage
<1>5. Stage(stage', Held(mem))
  BY <1>4 DEF IInv, Stage
<1>6. Stage(stage, Held(mem))'
  BY <1>1, <1>2, <1>5 DEF Stage, DocForms
<1>7. stage' \in {"quantize", "sparse", "inverted", "final"} => SidesAgree(mem)
  BY <1>4 DEF IInv
<1> QED
  BY <1>1, <1>3, <1>c, <1>6, <1>7 DEF IInv

(* The sources are there both or, after a failure, not at all.             *)
LEMMA BuildSourcesKeeps ==
  ASSUME IInv, BuildSources
  PROVE  IInv'
<1>1. pc = "rev" /\ Sound(mem) /\ Held(mem) = {"doc_token_ids"} /\ ~ finalized
  BY StageIs DEF BuildSources, stage
<1>2. PICK m1 \in TryAlloc(mem, "rev", "data") :
        IF ~ Live(m1, "rev") THEN mem' = m1 /\ Fail
        ELSE \E m2 \in TryAlloc(m1, "src_entries", "zero") :
               IF ~ Live(m2, "src_entries") THEN mem' = Free(m2, "rev") /\ Fail
               ELSE mem' = m2 /\ GoOn("enriched")
  BY DEF BuildSources
<1>3. /\ Sound(m1) /\ Held(m1) \in {{"doc_token_ids"}, {"doc_token_ids", "rev"}}
      /\ Live(m1, "rev") <=> "rev" \in Held(m1)
  <2>1. "rev" \in Pointer /\ "data" \in Contents
    BY Pointers DEF Contents
  <2>2. Sound(m1) /\ Held(m1) \in {Held(mem), Held(mem) \union {"rev"}}
    BY <1>1, <2>1, TryAllocSound
  <2> QED
    BY <1>1, <2>1, <2>2, Pointers
<1>4. CASE ~ Live(m1, "rev")
  BY <1>1, <1>2, <1>3, <1>4, FailKeeps
<1>5. CASE Live(m1, "rev")
  <2>1. PICK m2 \in TryAlloc(m1, "src_entries", "zero") :
          IF ~ Live(m2, "src_entries") THEN mem' = Free(m2, "rev") /\ Fail
          ELSE mem' = m2 /\ GoOn("enriched")
    BY <1>2, <1>5
  <2>2. "rev" \in Pointer /\ "src_entries" \in Pointer /\ "zero" \in Contents
    BY Pointers DEF Contents
  <2>3. Sound(m2) /\ Held(m2) \in {Held(m1), Held(m1) \union {"src_entries"}}
    BY <1>3, <1>5, <2>2, TryAllocSound
  <2>4. CASE Live(m2, "src_entries")
    <3>1. Held(m2) = Building
      BY <1>3, <1>5, <2>2, <2>3, <2>4, Pointers DEF Building, Transient
    <3> QED
      BY <1>1, <2>1, <2>3, <2>4, <3>1, GoOnKeeps DEF Stage
  <2>5. CASE ~ Live(m2, "src_entries")
    <3>1. Held(m2) = {"doc_token_ids", "rev"}
      BY <1>3, <1>5, <2>2, <2>3, <2>5, Pointers
    <3>2. Sound(Free(m2, "rev")) /\ Held(Free(m2, "rev")) = {"doc_token_ids"}
      BY <2>2, <2>3, <3>1, OneFreeSound
    <3> QED
      BY <1>1, <2>1, <2>5, <3>2, FailKeeps
  <2> QED
    BY <2>4, <2>5
<1> QED
  BY <1>4, <1>5

(* The enriched vectors are of one kind, or everything goes.               *)
LEMMA AllocEnrichedKeeps ==
  ASSUME IInv, AllocEnriched
  PROVE  IInv'
<1>1. pc = "enriched" /\ Sound(mem) /\ Held(mem) = Building /\ ~ finalized
  BY StageIs DEF AllocEnriched
<1>2. /\ "enriched_vecs_q" \in Pointer \ Building /\ "enriched_vecs" \in Pointer \ Building
      /\ "uninit" \in Contents /\ "zero" \in Contents
  BY Pointers DEF Contents, Building, Transient
<1>3. ASSUME NEW e \in Enriched, NEW c \in {"uninit", "zero"}, mem' = Alloc(mem, e, c), GoOn("pass1")
      PROVE  IInv'
  <2>1. e \in Pointer \ Building /\ c \in Contents /\ c # "freed"
    BY <1>2 DEF Enriched
  <2>2. Sound(mem') /\ Held(mem') = Building \union {e}
    BY <1>1, <1>3, <2>1, AllocSound
  <2> QED
    BY <1>1, <1>3, <2>2, GoOnKeeps DEF Stage
<1>4. CASE mem' = FreeAll(mem, Transient) /\ Fail
  <2>1. Sound(mem') /\ Held(mem') = Building \ Transient
    BY <1>1, <1>4, Pointers, FreeSound
  <2>2. Held(mem') = {"doc_token_ids"}
    BY <2>1 DEF Building, Transient
  <2> QED
    BY <1>1, <1>4, <2>1, <2>2, FailKeeps
<1> QED
  BY <1>3, <1>4 DEF AllocEnriched, Enriched

(* Under skip_ri pass1_q is the corpus's enriched_vecs_q while pass 1 runs:*)
(* handing it off undoes that, and what pass 1 did through it was done to  *)
(* enriched_vecs_q.                                                        *)
Aliased(m) == [m EXCEPT !.ptr["pass1_q"] = m.ptr["enriched_vecs_q"]]
Unaliased(m) == [m EXCEPT !.ptr["pass1_q"] = NULL]

LEMMA AliasUndone ==
  ASSUME NEW m, Sound(m), "pass1_q" \notin Held(m), "enriched_vecs_q" \in Held(m)
  PROVE  /\ Held(Aliased(m)) = Held(m) \union {"pass1_q"}
         /\ Unaliased(Aliased(m)) = m
         /\ "scratch" \in Held(m) =>
              Unaliased(Free(Write(Aliased(m), "pass1_q", "pass1"), "scratch"))
                = Free(Write(m, "enriched_vecs_q", "pass1"), "scratch")
<1> DEFINE a == Aliased(m)
           w == Write(a, "pass1_q", "pass1")
           v == Write(m, "enriched_vecs_q", "pass1")
<1>0. /\ "pass1_q" \in Pointer /\ "enriched_vecs_q" \in Pointer /\ "scratch" \in Pointer
  BY Pointers
<1>1. /\ m.ptr \in [Pointer -> Nat] /\ m.ptr["pass1_q"] = 0 /\ m.ptr["enriched_vecs_q"] # 0
      /\ m = [heap |-> m.heap, ptr |-> m.ptr, bad |-> m.bad]
  BY <1>0 DEF Sound, Memory, Held, Live, NULL
<1>2. /\ a.heap = m.heap /\ a.bad = m.bad
      /\ a.ptr = [m.ptr EXCEPT !["pass1_q"] = m.ptr["enriched_vecs_q"]]
      /\ a = [heap |-> a.heap, ptr |-> a.ptr, bad |-> a.bad]
  BY <1>1 DEF Aliased
<1>3. /\ a.ptr \in [Pointer -> Nat] /\ a.ptr["pass1_q"] = m.ptr["enriched_vecs_q"]
      /\ \A p \in Pointer : p # "pass1_q" => a.ptr[p] = m.ptr[p]
  BY <1>0, <1>1, <1>2
<1> HIDE DEF a
<1>4. Held(a) = Held(m) \union {"pass1_q"}
  BY <1>0, <1>1, <1>3 DEF Held, Live, NULL
<1>5. Unaliased(a) = m
  <2>1. [a.ptr EXCEPT !["pass1_q"] = NULL] = m.ptr
    BY <1>0, <1>1, <1>3 DEF NULL
  <2>2. Unaliased(a) = [heap |-> a.heap, ptr |-> [a.ptr EXCEPT !["pass1_q"] = NULL], bad |-> a.bad]
    BY <1>2 DEF Unaliased
  <2> QED
    BY <1>1, <1>2, <2>1, <2>2
<1>6. w.heap = v.heap /\ w.bad = v.bad /\ w.ptr = a.ptr /\ v.ptr = m.ptr
  BY <1>2, <1>3 DEF Write, Content
<1>7. ASSUME "scratch" \in Held(m)
      PROVE  Unaliased(Free(w, "scratch")) = Free(v, "scratch")
  <2> HIDE DEF w, v
  <2>1. w.ptr["scratch"] = v.ptr["scratch"]
    BY <1>0, <1>3, <1>6
  <2>2. /\ {q \in {"scratch"} : Live(w, q)} = {q \in {"scratch"} : Live(v, q)}
        /\ {w.ptr[p] : p \in {q \in {"scratch"} : Live(w, q)}}
             = {v.ptr[p] : p \in {q \in {"scratch"} : Live(v, q)}}
    BY <2>1 DEF Live
  <2>3. /\ Free(w, "scratch").heap = Free(v, "scratch").heap
        /\ Free(w, "scratch").bad = Free(v, "scratch").bad
    BY <1>6, <2>2 DEF Free, FreeAll
  <2>4. /\ Free(w, "scratch").ptr = [p \in Pointer |-> IF p \in {"scratch"} THEN NULL ELSE a.ptr[p]]
        /\ Free(v, "scratch").ptr = [p \in Pointer |-> IF p \in {"scratch"} THEN NULL ELSE m.ptr[p]]
    BY <1>6 DEF Free, FreeAll
  <2>5. [Free(w, "scratch").ptr EXCEPT !["pass1_q"] = NULL] = Free(v, "scratch").ptr
    BY <2>4, <1>0, <1>1, <1>3 DEF NULL
  <2>6. \A x : Free(x, "scratch") = [heap |-> Free(x, "scratch").heap,
                                    ptr |-> Free(x, "scratch").ptr,
                                    bad |-> Free(x, "scratch").bad]
    BY DEF Free, FreeAll
  <2>7. PICK f : f = Free(w, "scratch")
    OBVIOUS
  <2>8. f = [heap |-> f.heap, ptr |-> f.ptr, bad |-> f.bad]
    BY <2>6, <2>7
  <2>9. Unaliased(f) = [heap |-> f.heap, ptr |-> [f.ptr EXCEPT !["pass1_q"] = NULL],
                        bad |-> f.bad]
    BY <2>8 DEF Unaliased
  <2> QED
    BY <2>3, <2>5, <2>6, <2>7, <2>9
<1> QED
  BY <1>4, <1>5, <1>7 DEF a

(* Pass 1 runs on int8 buffers or on float32 ones; afterwards no pointer   *)
(* shares a block and the scratch is gone.                                 *)
LEMMA Pass1Outcome ==
  ASSUME Sound(mem), NEW e \in Enriched, Held(mem) = Building \union {e}, NEW m \in Pass1Buffers
  PROVE  \/ /\ Live(m, "pass1_q")
            /\ LET n == HandOff(Free(Write(m, "pass1_q", "pass1"), "scratch"))
               IN  /\ Sound(n)
                   /\ Held(n) \in {Building \union {"enriched_vecs_q"},
                                   Building \union {"enriched_vecs_q", "pass1_q"}}
         \/ /\ ~ Live(m, "pass1_q") /\ Sound(m)
            /\ Held(m) \in {Building \union {"enriched_vecs"}, Building \union Enriched,
                            Building \union {"enriched_vecs_q"}}
<1> DEFINE Q == Building \union {"enriched_vecs_q"}
           Tried == UNION {TakePass1(n) : n \in TryAlloc(mem, "scratch", "zero")}
           GiveUp(n) == FreeAll(HandOff(n), {"scratch", "pass1_q"})
<1>1. /\ {"scratch", "pass1_q", "enriched_vecs", "enriched_vecs_q"} \subseteq Pointer
      /\ {"scratch", "pass1_q", "enriched_vecs", "enriched_vecs_q"} \intersect Building = {}
      /\ {"zero", "uninit", "pass1"} \subseteq Contents
      /\ e \in {"enriched_vecs", "enriched_vecs_q"} /\ Enriched = {"enriched_vecs", "enriched_vecs_q"}
  BY Pointers DEF Contents, Building, Transient, Enriched
<1>2. \A n : \A p \in {"scratch", "pass1_q", "enriched_vecs", "enriched_vecs_q"} :
        Live(n, p) <=> p \in Held(n)
  BY <1>1, Pointers
<1>3. CASE e = "enriched_vecs"
  <2>1. m = mem
    BY <1>1, <1>2, <1>3 DEF Pass1Buffers
  <2> QED
    BY <1>1, <1>2, <1>3, <2>1
<1>4. CASE e = "enriched_vecs_q"
  <2>0. Held(mem) = Q /\ Live(mem, "enriched_vecs_q")
    BY <1>2, <1>4
  <2>1. ASSUME NEW t \in Tried
        PROVE  /\ Live(t, "scratch") /\ Live(t, "pass1_q") =>
                    LET n == HandOff(Free(Write(t, "pass1_q", "pass1"), "scratch"))
                    IN  Sound(n) /\ Held(n) \in {Q, Q \union {"pass1_q"}}
               /\ ~ (Live(t, "scratch") /\ Live(t, "pass1_q")) =>
                    Sound(GiveUp(t)) /\ Held(GiveUp(t)) = Q
    <3>1. PICK n \in TryAlloc(mem, "scratch", "zero") : t \in TakePass1(n)
      BY DEF Tried
    <3>2. Sound(n) /\ Held(n) \in {Q, Q \union {"scratch"}}
      BY <1>1, <2>0, TryAllocSound
    <3>3. {"scratch", "pass1_q"} \in SUBSET Pointer
      BY <1>1
    <3>4. CASE skip_ri
      <4>1. t = Aliased(n) /\ \A x : HandOff(x) = Unaliased(x)
        BY <3>1, <3>4 DEF TakePass1, HandOff, Aliased, Unaliased
      <4>2. "pass1_q" \notin Held(n) /\ "enriched_vecs_q" \in Held(n)
        BY <1>1, <3>2
      <4>3. /\ Held(t) = Held(n) \union {"pass1_q"} /\ HandOff(t) = n
            /\ "scratch" \in Held(n) =>
                 HandOff(Free(Write(t, "pass1_q", "pass1"), "scratch"))
                   = Free(Write(n, "enriched_vecs_q", "pass1"), "scratch")
        BY <3>2, <4>1, <4>2, AliasUndone
      <4>4. CASE Live(t, "scratch")
        <5>1. "scratch" \in Held(n) /\ Held(n) = Q \union {"scratch"}
          BY <1>1, <1>2, <3>2, <4>3, <4>4
        <5>2. PICK w : w = Write(n, "enriched_vecs_q", "pass1")
          OBVIOUS
        <5>3. Sound(w) /\ Held(w) = Q \union {"scratch"}
          BY <1>1, <3>2, <4>2, <5>1, <5>2, WriteSound
        <5>4. Sound(Free(w, "scratch")) /\ Held(Free(w, "scratch")) = Q
          BY <1>1, <5>3, OneFreeSound
        <5> QED
          BY <1>2, <4>3, <4>4, <5>1, <5>2, <5>4
      <4>5. CASE ~ Live(t, "scratch")
        <5>1. Sound(GiveUp(t)) /\ Held(GiveUp(t)) = Held(n) \ {"scratch", "pass1_q"}
          BY <3>2, <3>3, <4>3, FreeSound
        <5> QED
          BY <1>1, <3>2, <4>5, <5>1
      <4> QED
        BY <4>4, <4>5
    <3>5. CASE ~ skip_ri
      <4>1. t \in TryAlloc(n, "pass1_q", "uninit") /\ \A x : HandOff(x) = x
        BY <3>1, <3>5 DEF TakePass1, HandOff
      <4>2. Sound(t) /\ Held(t) \in {Held(n), Held(n) \union {"pass1_q"}}
        BY <1>1, <3>2, <4>1, TryAllocSound
      <4>3. CASE Live(t, "scratch") /\ Live(t, "pass1_q")
        <5>1. "pass1_q" \in Held(t) /\ Held(t) = Q \union {"scratch", "pass1_q"}
          BY <1>1, <1>2, <3>2, <4>2, <4>3
        <5>2. PICK w : w = Write(t, "pass1_q", "pass1")
          OBVIOUS
        <5>3. Sound(w) /\ Held(w) = Q \union {"scratch", "pass1_q"}
          BY <1>1, <4>2, <5>1, <5>2, WriteSound
        <5>4. Sound(Free(w, "scratch")) /\ Held(Free(w, "scratch")) = Q \union {"pass1_q"}
          BY <1>1, <5>3, OneFreeSound
        <5> QED
          BY <4>1, <4>3, <5>2, <5>4
      <4>4. CASE ~ (Live(t, "scratch") /\ Live(t, "pass1_q"))
        <5>1. Sound(GiveUp(t)) /\ Held(GiveUp(t)) = Held(t) \ {"scratch", "pass1_q"}
          BY <3>3, <4>1, <4>2, FreeSound
        <5>2. Held(t) \ {"scratch", "pass1_q"} = Q
          BY <1>1, <3>2, <4>2
        <5> QED
          BY <4>4, <5>1, <5>2
      <4> QED
        BY <4>3, <4>4
    <3> QED
      BY <3>4, <3>5
  <2>2. \/ m \in Tried /\ Live(m, "scratch") /\ Live(m, "pass1_q")
        \/ \E t \in Tried : /\ ~ (Live(t, "scratch") /\ Live(t, "pass1_q"))
                            /\ m \in TryAlloc(GiveUp(t), "enriched_vecs", "zero")
    BY <2>0 DEF Pass1Buffers
  <2> HIDE DEF Tried, GiveUp
  <2>3. CASE m \in Tried /\ Live(m, "scratch") /\ Live(m, "pass1_q")
    <3>1. LET n == HandOff(Free(Write(m, "pass1_q", "pass1"), "scratch"))
          IN  Sound(n) /\ Held(n) \in {Q, Q \union {"pass1_q"}}
      BY <2>1, <2>3
    <3> QED
      BY <2>3, <3>1
  <2>4. CASE \E t \in Tried : /\ ~ (Live(t, "scratch") /\ Live(t, "pass1_q"))
                              /\ m \in TryAlloc(GiveUp(t), "enriched_vecs", "zero")
    <3>1. PICK t \in Tried : /\ ~ (Live(t, "scratch") /\ Live(t, "pass1_q"))
                             /\ m \in TryAlloc(GiveUp(t), "enriched_vecs", "zero")
      BY <2>4
    <3>2. PICK g : g = GiveUp(t)
      OBVIOUS
    <3>3. Sound(g) /\ Held(g) = Q
      BY <2>1, <3>1, <3>2
    <3>4. "enriched_vecs" \in Pointer /\ "enriched_vecs" \notin Q /\ "zero" \in Contents
      BY <1>1
    <3>5. Sound(m) /\ Held(m) \in {Q, Q \union {"enriched_vecs"}}
      BY <3>1, <3>2, <3>3, <3>4, TryAllocSound
    <3> QED
      BY <1>1, <1>2, <3>5
  <2> QED
    BY <2>2, <2>3, <2>4
<1> QED
  BY <1>1, <1>3, <1>4

(* Pass 1 leaves vectors to blend, or everything goes.                     *)
LEMMA Pass1Keeps ==
  ASSUME IInv, Pass1
  PROVE  IInv'
<1>1. pc = "pass1" /\ Sound(mem) /\ ~ finalized
  BY StageIs DEF Pass1
<1>2. PICK e \in Enriched : Held(mem) = Building \union {e}
  BY <1>1, StageIs
<1>3. PICK m \in Pass1Buffers :
       \/ /\ Live(m, "pass1_q")
          /\ mem' = HandOff(Free(Write(m, "pass1_q", "pass1"), "scratch"))
          /\ GoOn("pass2")
       \/ /\ ~ Live(m, "pass1_q") /\ Live(m, "enriched_vecs")
          /\ mem' = Write(m, "enriched_vecs", "pass1")
          /\ GoOn("pass2")
       \/ /\ ~ Live(m, "pass1_q") /\ ~ Live(m, "enriched_vecs")
          /\ mem' = FreeAll(m, Enriched \union Transient)
          /\ Fail
  BY DEF Pass1
<1>4. CASE Live(m, "pass1_q")
  <2>1. /\ Sound(mem') /\ GoOn("pass2")
        /\ Held(mem') \in {Building \union {"enriched_vecs_q"},
                           Building \union {"enriched_vecs_q", "pass1_q"}}
    BY <1>1, <1>2, <1>3, <1>4, Pass1Outcome
  <2>2. Stage("pass2", Held(mem'))
    BY <2>1 DEF Stage
  <2> QED
    BY <1>1, <2>1, <2>2, GoOnKeeps
<1>5. CASE ~ Live(m, "pass1_q")
  <2>1. /\ Sound(m)
        /\ Held(m) \in {Building \union {"enriched_vecs"}, Building \union Enriched,
                        Building \union {"enriched_vecs_q"}}
    BY <1>1, <1>2, <1>5, Pass1Outcome
  <2>2. "enriched_vecs" \in Pointer /\ "pass1" \in Contents
        /\ (Live(m, "enriched_vecs") <=> "enriched_vecs" \in Held(m))
    BY Pointers DEF Contents
  <2>3. CASE Live(m, "enriched_vecs")
    <3>1. "enriched_vecs" \in Held(m)
      BY <2>2, <2>3
    <3>2. Sound(mem') /\ Held(mem') = Held(m) /\ GoOn("pass2")
      BY <1>3, <1>5, <2>1, <2>2, <2>3, <3>1, WriteSound
    <3>3. Held(m) \in {Building \union {"enriched_vecs"}, Building \union Enriched}
      BY <2>1, <3>1 DEF Building, Transient
    <3>4. Stage("pass2", Held(mem'))
      BY <3>2, <3>3 DEF Stage
    <3> QED
      BY <1>1, <3>2, <3>4, GoOnKeeps
  <2>4. CASE ~ Live(m, "enriched_vecs")
    <3>1. Enriched \union Transient \in SUBSET Pointer
      BY Pointers
    <3>2. Sound(mem') /\ Held(mem') = Held(m) \ (Enriched \union Transient) /\ Fail
      BY <1>3, <1>5, <2>1, <2>4, <3>1, FreeSound
    <3>3. Held(mem') = {"doc_token_ids"}
      BY <2>1, <3>2 DEF Enriched, Transient, Building
    <3> QED
      BY <1>1, <3>2, <3>3, FailKeeps
  <2> QED
    BY <2>3, <2>4
<1> QED
  BY <1>4, <1>5

(* The contents of buffers that survive are not "freed".                   *)
LEMMA ContentKnown ==
  ASSUME NEW m, Sound(m), NEW p \in Held(m)
  PROVE  Content(m, p) \in Contents /\ Content(m, p) # "freed"
<1>1. m \in Memory /\ m.ptr[p] \in 1 .. Len(m.heap) /\ Content(m, p) # "freed"
  BY DEF Sound
<1> QED
  BY <1>1, MemoryFields DEF Content

(* Pass 2 writes the vectors that stay and frees its source.               *)
LEMMA Pass2Keeps ==
  ASSUME IInv, Pass2
  PROVE  IInv'
<1> DEFINE out == IF Live(mem, "enriched_vecs_q") THEN "enriched_vecs_q" ELSE "enriched_vecs"
<1>1. pc = "pass2" /\ Sound(mem) /\ ~ finalized
  BY StageIs DEF Pass2
<1>2. PICK S \in {{"enriched_vecs"}, {"enriched_vecs_q"}, Enriched, {"enriched_vecs_q", "pass1_q"}} :
        Held(mem) = Building \union S
  BY <1>1, StageIs
<1>3. /\ {"pass1_q", "local_q", "enriched_vecs", "enriched_vecs_q"} \subseteq Pointer
      /\ {"pass1", "blend"} \subseteq Contents /\ "local_q" \notin Held(mem)
      /\ out \in Held(mem) /\ out # "local_q"
  BY <1>2, Pointers DEF Contents, Building, Transient, Enriched
<1>4. PICK m : /\ \/ m = mem
                  \/ m = Write(mem, out, "blend")
                  \/ m = Free(Write(Alloc(mem, "local_q", "pass1"), out, "blend"), "local_q")
               /\ mem' = Free(m, "pass1_q") /\ GoOn("requantize")
  BY DEF Pass2
<1>5. Sound(m) /\ Held(m) = Held(mem)
  <2>1. CASE m = mem
    BY <1>1, <2>1
  <2>2. CASE m = Write(mem, out, "blend")
    BY <1>1, <1>3, <2>2, WriteSound
  <2>3. CASE m = Free(Write(Alloc(mem, "local_q", "pass1"), out, "blend"), "local_q")
    <3>1. PICK a : a = Alloc(mem, "local_q", "pass1")
      OBVIOUS
    <3>2. Sound(a) /\ Held(a) = Held(mem) \union {"local_q"}
      BY <1>1, <1>3, <3>1, AllocSound
    <3>3. PICK w : w = Write(a, out, "blend")
      OBVIOUS
    <3>4. Sound(w) /\ Held(w) = Held(mem) \union {"local_q"}
      BY <1>3, <3>2, <3>3, WriteSound
    <3>5. Sound(m) /\ Held(m) = Held(w) \ {"local_q"}
      BY <1>3, <2>3, <3>1, <3>3, <3>4, OneFreeSound
    <3> QED
      BY <1>3, <3>4, <3>5
  <2> QED
    BY <1>4, <2>1, <2>2, <2>3
<1>6. Sound(mem') /\ Held(mem') = Held(mem) \ {"pass1_q"}
  BY <1>3, <1>4, <1>5, OneFreeSound
<1>7. \E X \in {{"enriched_vecs"}, {"enriched_vecs_q"}, Enriched} :
        Held(mem) \ {"pass1_q"} = Building \union X
  <2>1. CASE S = {"enriched_vecs_q", "pass1_q"}
    <3>1. Held(mem) \ {"pass1_q"} = Building \union {"enriched_vecs_q"}
      BY <1>2, <2>1 DEF Building, Transient
    <3> QED
      BY <3>1
  <2>2. CASE S # {"enriched_vecs_q", "pass1_q"}
    <3>1. Held(mem) \ {"pass1_q"} = Building \union S
      BY <1>2, <2>2 DEF Building, Transient, Enriched
    <3> QED
      BY <1>2, <2>2, <3>1
  <2> QED
    BY <2>1, <2>2
<1> QED
  BY <1>1, <1>4, <1>6, <1>7, GoOnKeeps DEF Stage

(* One kind of enriched vectors remains.                                   *)
LEMMA RequantizeKeeps ==
  ASSUME IInv, Requantize
  PROVE  IInv'
<1>1. pc = "requantize" /\ Sound(mem) /\ ~ finalized /\ GoOn("docvec")
  BY StageIs DEF Requantize
<1>2. PICK S \in {{"enriched_vecs"}, {"enriched_vecs_q"}, Enriched} :
        Held(mem) = Building \union S
  BY <1>1, StageIs
<1>3. /\ "enriched_vecs" \in Pointer /\ "enriched_vecs_q" \in Pointer
      /\ Enriched = {"enriched_vecs", "enriched_vecs_q"}
      /\ Building \intersect Enriched = {}
      /\ Live(mem, "enriched_vecs") <=> "enriched_vecs" \in S
      /\ Live(mem, "enriched_vecs_q") <=> "enriched_vecs_q" \in S
  BY <1>2, Pointers DEF Building, Transient, Enriched
<1>4. CASE mem' = mem /\ S # Enriched
  <2>1. Stage("docvec", Held(mem'))
    BY <1>2, <1>3, <1>4 DEF Stage
  <2> QED
    BY <1>1, <1>4, <2>1, GoOnKeeps
<1>5. CASE S = Enriched /\ mem' = Free(mem, "enriched_vecs")
  <2>1. Sound(mem') /\ Held(mem') = Held(mem) \ {"enriched_vecs"}
    BY <1>1, <1>3, <1>5, OneFreeSound
  <2>2. Held(mem') = Building \union {"enriched_vecs_q"}
    BY <1>2, <1>3, <1>5, <2>1
  <2>3. Stage("docvec", Held(mem'))
    BY <1>3, <2>2 DEF Stage
  <2> QED
    BY <1>1, <2>1, <2>3, GoOnKeeps
<1>6. CASE /\ S = {"enriched_vecs"}
           /\ mem' = Free(Alloc(mem, "enriched_vecs_q", Content(mem, "enriched_vecs")), "enriched_vecs")
  <2>1. Content(mem, "enriched_vecs") \in Contents /\ Content(mem, "enriched_vecs") # "freed"
    BY <1>1, <1>2, <1>6, ContentKnown
  <2>2. PICK a : a = Alloc(mem, "enriched_vecs_q", Content(mem, "enriched_vecs"))
    OBVIOUS
  <2>3. Sound(a) /\ Held(a) = Held(mem) \union {"enriched_vecs_q"}
    <3>1. "enriched_vecs_q" \notin Held(mem)
      BY <1>2, <1>3, <1>6
    <3> QED
      BY <1>1, <1>3, <2>1, <2>2, <3>1, AllocSound
  <2>4. Sound(mem') /\ Held(mem') = Held(a) \ {"enriched_vecs"}
    BY <1>3, <1>6, <2>2, <2>3, OneFreeSound
  <2>5. Held(mem') = Building \union {"enriched_vecs_q"}
    BY <1>2, <1>3, <1>6, <2>3, <2>4
  <2>6. Stage("docvec", Held(mem'))
    BY <1>3, <2>5 DEF Stage
  <2> QED
    BY <1>1, <2>4, <2>6, GoOnKeeps
<1> QED
  BY <1>2, <1>3, <1>4, <1>5, <1>6 DEF Requantize

(* The document vectors are summed from the vectors that remain.           *)
LEMMA BuildDocVectorsKeeps ==
  ASSUME IInv, BuildDocVectors
  PROVE  IInv'
<1>1. pc = "docvec" /\ Sound(mem) /\ ~ finalized
  BY StageIs DEF BuildDocVectors
<1>2. PICK e \in Enriched : Held(mem) = Building \union {e}
  BY <1>1, StageIs
<1>3. /\ "doc_vectors" \in Pointer /\ Enriched = {"enriched_vecs", "enriched_vecs_q"}
      /\ Enriched \intersect Building = {} /\ "doc_vectors" \notin Held(mem)
      /\ "doc_vectors" # e /\ Enriched \union Transient \in SUBSET Pointer
      /\ {"doc_vectors_q", "doc_sparse_val", "enr_sparse_val"} \intersect Building = {}
      /\ Live(mem, "enriched_vecs_q") <=> e = "enriched_vecs_q"
  BY <1>2, Pointers DEF Building, Transient, Enriched
<1>4. CASE mem' = FreeAll(mem, Enriched \union Transient) /\ Fail
  <2>1. Sound(mem') /\ Held(mem') = Held(mem) \ (Enriched \union Transient)
    BY <1>1, <1>3, <1>4, FreeSound
  <2>2. Held(mem') = {"doc_token_ids"}
    BY <1>2, <2>1 DEF Enriched, Transient, Building
  <2> QED
    BY <1>1, <1>4, <2>1, <2>2, FailKeeps
<1>5. CASE mem' = Alloc(mem, "doc_vectors", Content(mem, e)) /\ GoOn("quantize")
  <2>1. Content(mem, e) \in Contents /\ Content(mem, e) # "freed"
    BY <1>1, <1>2, ContentKnown
  <2>2. /\ Sound(mem') /\ Held(mem') = Held(mem) \union {"doc_vectors"}
        /\ Content(mem', "doc_vectors") = Content(mem, e)
        /\ Content(mem', e) = Content(mem, e)
    BY <1>1, <1>2, <1>3, <1>5, <2>1, AllocSound
  <2>3. Held(mem') = Building \union {e, "doc_vectors"}
    BY <1>2, <2>2
  <2>4. SidesAgree(mem')
    BY <1>3, <2>2, <2>3 DEF SidesAgree, Building, Transient, Enriched
  <2>5. Stage("quantize", Held(mem'))
    BY <2>3 DEF Stage
  <2> QED
    BY <1>1, <1>5, <2>2, <2>4, <2>5, GoOnKeeps
<1> QED
  BY <1>3, <1>4, <1>5 DEF BuildDocVectors, Enriched

(* The documents are quantized with their magnitudes, or everything goes.  *)
LEMMA QuantizeDocsKeeps ==
  ASSUME IInv, QuantizeDocs
  PROVE  IInv'
<1>1. pc = "quantize" /\ Sound(mem) /\ ~ finalized /\ SidesAgree(mem) /\ doc_count \in Nat
  BY StageIs DEF QuantizeDocs, TypeOK
<1>2. PICK e \in Enriched : Held(mem) = Building \union {e, "doc_vectors"}
  BY <1>1, StageIs
<1>3. /\ {"doc_vectors", "doc_vectors_q", "inv_mag"} \subseteq Pointer
      /\ {"doc_vectors_q", "inv_mag", "doc_sparse_val", "enr_sparse_val"} \intersect Held(mem) = {}
      /\ "doc_vectors" \notin Building \union {e} /\ e \in Enriched /\ "zero" \in Contents
      /\ \A n : \A p \in {"doc_vectors_q", "inv_mag"} : Live(n, p) <=> p \in Held(n)
  BY <1>2, Pointers DEF Building, Transient, Enriched, Contents
<1>4. Content(mem, "doc_vectors") = Content(mem, e)
  BY <1>1, <1>2 DEF SidesAgree
<1>5. CASE doc_count = 0 /\ mem' = Free(mem, "doc_vectors") /\ GoOn("sparse")
  <2>1. Sound(mem') /\ Held(mem') = Building \union {e}
    <3>1. Sound(mem') /\ Held(mem') = Held(mem) \ {"doc_vectors"}
      BY <1>1, <1>3, <1>5, OneFreeSound
    <3> QED
      BY <1>2, <1>3, <3>1
  <2>2. SidesAgree(mem')
    BY <1>3, <2>1 DEF SidesAgree, Building, Transient, Enriched
  <2>3. Stage("sparse", Held(mem'))
    BY <1>5, <2>1 DEF Stage
  <2> QED
    BY <1>1, <1>5, <2>1, <2>2, <2>3, GoOnKeeps
<1>6. ASSUME doc_count > 0,
             NEW m1 \in TryAlloc(mem, "doc_vectors_q", "zero"),
             NEW m2 \in TryAlloc(m1, "inv_mag", "zero"),
             IF Live(m2, "doc_vectors_q") /\ Live(m2, "inv_mag")
             THEN /\ mem' = Free(Write(m2, "doc_vectors_q", Content(m2, "doc_vectors")),
                                 "doc_vectors")
                  /\ GoOn("sparse")
             ELSE /\ mem' = FreeAll(m2, DenseBuilt \union Transient)
                  /\ Fail
      PROVE  IInv'
  <2>1. /\ Sound(m1) /\ Held(m1) \in {Held(mem), Held(mem) \union {"doc_vectors_q"}}
        /\ \A q \in Held(mem) : Content(m1, q) = Content(mem, q)
    BY <1>1, <1>3, TryAllocSound
  <2>2. /\ Sound(m2) /\ Held(m2) \in {Held(m1), Held(m1) \union {"inv_mag"}}
        /\ \A q \in Held(m1) : Content(m2, q) = Content(m1, q)
    <3>1. "inv_mag" \notin Held(m1)
      BY <1>3, <2>1
    <3> QED
      BY <1>3, <2>1, <3>1, TryAllocSound
  <2>3. \A q \in Held(mem) : q \in Held(m2) /\ Content(m2, q) = Content(mem, q)
    BY <2>1, <2>2
  <2>4. CASE Live(m2, "doc_vectors_q") /\ Live(m2, "inv_mag")
    <3>1. Held(m2) = Held(mem) \union DocQ
      BY <1>3, <2>1, <2>2, <2>4 DEF DocQ
    <3>2. PICK c : c = Content(m2, "doc_vectors")
      OBVIOUS
    <3>3. "doc_vectors" \in Held(m2) /\ e \in Held(m2) /\ c = Content(m2, e)
      BY <1>2, <1>4, <2>3, <3>2
    <3>4. c \in Contents /\ c # "freed"
      BY <2>2, <3>2, <3>3, ContentKnown
    <3>5. PICK w : w = Write(m2, "doc_vectors_q", c)
      OBVIOUS
    <3>6. /\ Sound(w) /\ Held(w) = Held(m2) /\ Content(w, "doc_vectors_q") = c
          /\ Content(w, e) = c
      <4>1. "doc_vectors_q" \in Held(m2) /\ "doc_vectors_q" # e
        BY <3>1 DEF DocQ, Enriched
      <4> QED
        BY <2>2, <3>3, <3>4, <3>5, <4>1, WriteSound
    <3>7. mem' = Free(w, "doc_vectors") /\ GoOn("sparse")
      BY <1>6, <2>4, <3>2, <3>5
    <3>8. /\ Sound(mem') /\ Held(mem') = Held(w) \ {"doc_vectors"}
          /\ \A q \in Held(w) \ {"doc_vectors"} : Content(mem', q) = Content(w, q)
      BY <1>3, <3>6, <3>7, OneFreeSound
    <3>9. Held(mem') = Building \union {e} \union DocQ
      BY <1>2, <1>3, <3>1, <3>6, <3>8 DEF DocQ
    <3>10. Content(mem', "doc_vectors_q") = Content(mem', e)
      <4>1. "doc_vectors_q" \in Held(mem') /\ e \in Held(mem')
        BY <3>9 DEF DocQ
      <4> QED
        BY <3>6, <3>8, <4>1
    <3>11. SidesAgree(mem')
      BY <3>9, <3>10 DEF SidesAgree, Building, Transient, Enriched, DocQ
    <3>12. Stage("sparse", Held(mem'))
      BY <1>6, <3>9 DEF Stage
    <3> QED
      BY <1>1, <3>7, <3>8, <3>11, <3>12, GoOnKeeps
  <2>5. CASE ~ (Live(m2, "doc_vectors_q") /\ Live(m2, "inv_mag"))
    <3>1. DenseBuilt \union Transient \in SUBSET Pointer
      BY Pointers DEF DenseBuilt
    <3>2. Sound(mem') /\ Held(mem') = Held(m2) \ (DenseBuilt \union Transient) /\ Fail
      BY <1>6, <2>2, <2>5, <3>1, FreeSound
    <3>3. Held(m2) \subseteq Held(mem) \union DocQ /\ Held(mem) \subseteq Held(m2)
      BY <2>1, <2>2 DEF DocQ
    <3>4. Held(mem') = {"doc_token_ids"}
      BY <1>2, <3>2, <3>3 DEF DenseBuilt, Transient, Building, Enriched, DocQ
    <3> QED
      BY <1>1, <3>2, <3>4, FailKeeps
  <2> QED
    BY <2>4, <2>5
<1> QED
  BY <1>5, <1>6 DEF QuantizeDocs

(* One side of the sparsification ends with its dense buffer still there,  *)
(* or with both sparse arrays holding what it held.                        *)
LEMMA SparsifySound ==
  ASSUME NEW m, Sound(m), NEW idx \in Pointer, NEW val \in Pointer, NEW dense \in Held(m),
         idx # val, idx \notin Held(m), val \notin Held(m),
         NEW n \in Sparsify(m, idx, val, dense)
  PROVE  /\ Sound(n)
         /\ \A q \in Held(m) \ {dense} : Content(n, q) = Content(m, q)
         /\ \/ /\ dense \in Held(n) /\ Held(m) \subseteq Held(n)
               /\ Held(n) \subseteq Held(m) \union {idx, val}
            \/ /\ Held(n) = (Held(m) \ {dense}) \union {idx, val}
               /\ Content(n, val) = Content(m, dense)
<1> DEFINE tried == UNION {TryAlloc(x, val, "uninit") : x \in TryAlloc(m, idx, "uninit")}
           Filled(t) == Write(Write(t, idx, Content(t, dense)), val, Content(t, dense))
<1>1. "uninit" \in Contents /\ dense \in Pointer /\ dense # idx /\ dense # val
  BY DEF Contents, Held
<1>2. ASSUME NEW t \in tried
      PROVE  /\ Sound(t) /\ Held(m) \subseteq Held(t) /\ Held(t) \subseteq Held(m) \union {idx, val}
             /\ \A q \in Held(m) : Content(t, q) = Content(m, q)
  <2>1. PICK x \in TryAlloc(m, idx, "uninit") : t \in TryAlloc(x, val, "uninit")
    OBVIOUS
  <2>2. /\ Sound(x) /\ Held(x) \in {Held(m), Held(m) \union {idx}}
        /\ \A q \in Held(m) : Content(x, q) = Content(m, q)
    BY <1>1, TryAllocSound
  <2>3. val \notin Held(x)
    BY <2>2
  <2>4. /\ Sound(t) /\ Held(t) \in {Held(x), Held(x) \union {val}}
        /\ \A q \in Held(x) : Content(t, q) = Content(x, q)
    BY <1>1, <2>1, <2>2, <2>3, TryAllocSound
  <2> QED
    BY <2>2, <2>4
<1>3. CASE n \in tried
  BY <1>2, <1>3
<1>4. CASE \E t \in tried : Live(t, idx) /\ Live(t, val) /\ n = Free(Filled(t), dense)
  <2>1. PICK t \in tried : Live(t, idx) /\ Live(t, val) /\ n = Free(Filled(t), dense)
    BY <1>4
  <2>2. /\ Sound(t) /\ Held(t) = Held(m) \union {idx, val}
        /\ \A q \in Held(m) : Content(t, q) = Content(m, q)
    <3>1. idx \in Held(t) /\ val \in Held(t)
      BY <2>1 DEF Held
    <3> QED
      BY <1>2, <3>1
  <2>3. PICK c : c = Content(t, dense)
    OBVIOUS
  <2>4. c = Content(m, dense) /\ c \in Contents /\ c # "freed"
    BY <2>2, <2>3, ContentKnown
  <2>5. PICK v : v = Write(t, idx, c)
    OBVIOUS
  <2>6. /\ Sound(v) /\ Held(v) = Held(t)
        /\ \A q \in Held(t) \ {idx} : Content(v, q) = Content(t, q)
    BY <2>2, <2>4, <2>5, WriteSound
  <2>7. PICK w : w = Write(v, val, c)
    OBVIOUS
  <2>8. /\ Sound(w) /\ Held(w) = Held(t) /\ Content(w, val) = c
        /\ \A q \in Held(t) \ {val} : Content(w, q) = Content(v, q)
    BY <2>2, <2>4, <2>6, <2>7, WriteSound
  <2>9. n = Free(w, dense)
    BY <2>1, <2>3, <2>5, <2>7
  <2>10. /\ Sound(n) /\ Held(n) = Held(w) \ {dense}
         /\ \A q \in Held(w) \ {dense} : Content(n, q) = Content(w, q)
    BY <1>1, <2>8, <2>9, OneFreeSound
  <2>11. Held(n) = (Held(m) \ {dense}) \union {idx, val} /\ Content(n, val) = Content(m, dense)
    BY <1>1, <2>2, <2>4, <2>8, <2>10
  <2>12. \A q \in Held(m) \ {dense} : Content(n, q) = Content(m, q)
    BY <2>2, <2>6, <2>8, <2>10
  <2> QED
    BY <2>10, <2>11, <2>12
<1> QED
  BY <1>3, <1>4 DEF Sparsify

(* Both sides become sparse, or none, or everything goes.                  *)
LEMMA SparsifyVectorsKeeps ==
  ASSUME IInv, SparsifyVectors
  PROVE  IInv'
<1>1. pc = "sparse" /\ Sound(mem) /\ ~ finalized /\ SidesAgree(mem) /\ doc_count \in Nat
  BY StageIs DEF SparsifyVectors, TypeOK
<1>2. PICK e \in Enriched :
        Held(mem) = Building \union {e} \union (IF doc_count = 0 THEN {} ELSE DocQ)
  BY <1>1, StageIs
<1>3. /\ Sparse \union {"enriched_vecs_q", "doc_vectors_q"} \subseteq Pointer
      /\ Sparse \intersect Held(mem) = {} /\ "doc_vectors" \notin Held(mem)
      /\ e \in {"enriched_vecs", "enriched_vecs_q"}
      /\ \A n : \A p \in {"enriched_vecs_q", "doc_vectors_q"} : Live(n, p) <=> p \in Held(n)
      /\ Transient \in SUBSET Pointer
  BY <1>2, Pointers DEF Building, Transient, Enriched, DocQ, Sparse
<1>4. CASE mem' = FreeAll(mem, Transient) /\ GoOn("inverted")
  <2>1. /\ Sound(mem') /\ Held(mem') = Held(mem) \ Transient
        /\ \A q \in Held(mem) \ Transient : Content(mem', q) = Content(mem, q)
    BY <1>1, <1>3, <1>4, FreeSound
  <2>2. Held(mem') = {"doc_token_ids"} \union {e} \union (IF doc_count = 0 THEN {} ELSE DocQ)
    BY <1>2, <1>3, <2>1 DEF Building, Transient, DocQ
  <2>3. SidesAgree(mem')
    BY <1>1, <2>1 DEF SidesAgree
  <2>4. {e} \in EnrichedForms /\ (IF doc_count = 0 THEN {} ELSE DocQ) \in DocForms
    BY <1>3 DEF EnrichedForms, DocForms
  <2>5. Stage("inverted", Held(mem'))
    BY <2>2, <2>4 DEF Stage
  <2> QED
    BY <1>1, <1>4, <2>1, <2>3, <2>5, GoOnKeeps
<1>5. ASSUME NEW m, Sound(m), SparseFailed(m),
             Held(m) \subseteq Building \union {"enriched_vecs_q"} \union DocQ \union Sparse,
             "doc_token_ids" \in Held(m)
      PROVE  IInv'
  <2>1. Sparse \union {"enriched_vecs_q"} \union DocQ \union Transient \in SUBSET Pointer
    BY Pointers
  <2>2. /\ Sound(mem')
        /\ Held(mem') = Held(m) \ (Sparse \union {"enriched_vecs_q"} \union DocQ \union Transient)
    BY <1>5, <2>1, FreeSound DEF SparseFailed
  <2>3. Held(mem') = {"doc_token_ids"}
    BY <1>5, <2>2 DEF Building, Transient, DocQ, Sparse
  <2> QED
    BY <1>1, <1>5, <2>2, <2>3, GiveBackKeeps DEF SparseFailed, FailWith
<1>6. ASSUME sparse, Live(mem, "enriched_vecs_q"), Live(mem, "doc_vectors_q"),
             NEW m1 \in Sparsify(mem, "enr_sparse_idx", "enr_sparse_val", "enriched_vecs_q"),
             IF Live(m1, "enriched_vecs_q") THEN SparseFailed(m1)
             ELSE \E m2 \in Sparsify(m1, "doc_sparse_idx", "doc_sparse_val", "doc_vectors_q") :
                    IF Live(m2, "doc_vectors_q") THEN SparseFailed(m2)
                    ELSE /\ mem' = FreeAll(m2, Transient)
                         /\ GoOn("inverted")
      PROVE  IInv'
  <2>1. /\ "enriched_vecs_q" \in Held(mem) /\ "doc_vectors_q" \in Held(mem)
        /\ doc_count # 0 /\ e = "enriched_vecs_q" /\ Held(mem) = Building \union {e} \union DocQ
    BY <1>2, <1>3, <1>6 DEF Building, Transient, DocQ
  <2>2. Content(mem, "doc_vectors_q") = Content(mem, "enriched_vecs_q")
    BY <1>1, <2>1 DEF SidesAgree, Enriched
  <2>3. /\ {"enr_sparse_idx", "enr_sparse_val"} \subseteq Pointer \ Held(mem)
        /\ {"doc_sparse_idx", "doc_sparse_val"} \subseteq Pointer \ Held(mem)
        /\ "enr_sparse_idx" # "enr_sparse_val" /\ "doc_sparse_idx" # "doc_sparse_val"
        /\ "doc_vectors_q" # "enriched_vecs_q"
    BY <1>3 DEF Sparse
  <2>4. /\ Sound(m1)
        /\ \A q \in Held(mem) \ {"enriched_vecs_q"} : Content(m1, q) = Content(mem, q)
        /\ \/ /\ "enriched_vecs_q" \in Held(m1) /\ Held(mem) \subseteq Held(m1)
              /\ Held(m1) \subseteq Held(mem) \union {"enr_sparse_idx", "enr_sparse_val"}
           \/ /\ Held(m1) = (Held(mem) \ {"enriched_vecs_q"})
                              \union {"enr_sparse_idx", "enr_sparse_val"}
              /\ Content(m1, "enr_sparse_val") = Content(mem, "enriched_vecs_q")
    BY <1>1, <1>6, <2>1, <2>3, SparsifySound
  <2>5. CASE Live(m1, "enriched_vecs_q")
    <3>1. /\ Held(m1) \subseteq Building \union {"enriched_vecs_q"} \union DocQ \union Sparse
          /\ "doc_token_ids" \in Held(m1)
      <4>1. "enriched_vecs_q" \in Held(m1)
        BY <1>3, <2>5
      <4> QED
        BY <2>1, <2>3, <2>4, <4>1 DEF Sparse, Building
    <3> QED
      BY <1>5, <1>6, <2>4, <2>5, <3>1
  <2>6. CASE ~ Live(m1, "enriched_vecs_q")
    <3>1. PICK m2 \in Sparsify(m1, "doc_sparse_idx", "doc_sparse_val", "doc_vectors_q") :
            IF Live(m2, "doc_vectors_q") THEN SparseFailed(m2)
            ELSE mem' = FreeAll(m2, Transient) /\ GoOn("inverted")
      BY <1>6, <2>6
    <3>2. /\ Held(m1) = (Building \union DocQ) \union {"enr_sparse_idx", "enr_sparse_val"}
          /\ Content(m1, "enr_sparse_val") = Content(mem, "enriched_vecs_q")
          /\ Content(m1, "doc_vectors_q") = Content(m1, "enr_sparse_val")
      <4>1. "enriched_vecs_q" \notin Held(m1)
        BY <1>3, <2>6
      <4>2. (Building \union {"enriched_vecs_q"} \union DocQ) \ {"enriched_vecs_q"} = Building \union DocQ
        BY DEF Building, Transient, DocQ
      <4> QED
        BY <2>1, <2>2, <2>3, <2>4, <4>1, <4>2
    <3>3. /\ "doc_vectors_q" \in Held(m1) /\ "enr_sparse_val" \in Held(m1)
          /\ "doc_sparse_idx" \notin Held(m1) /\ "doc_sparse_val" \notin Held(m1)
          /\ "enr_sparse_val" # "doc_vectors_q"
      BY <3>2 DEF Building, Transient, DocQ
    <3>4. /\ Sound(m2)
          /\ \A q \in Held(m1) \ {"doc_vectors_q"} : Content(m2, q) = Content(m1, q)
          /\ \/ /\ "doc_vectors_q" \in Held(m2) /\ Held(m1) \subseteq Held(m2)
                /\ Held(m2) \subseteq Held(m1) \union {"doc_sparse_idx", "doc_sparse_val"}
             \/ /\ Held(m2) = (Held(m1) \ {"doc_vectors_q"})
                                \union {"doc_sparse_idx", "doc_sparse_val"}
                /\ Content(m2, "doc_sparse_val") = Content(m1, "doc_vectors_q")
      BY <2>3, <2>4, <3>1, <3>3, SparsifySound
    <3>5. CASE Live(m2, "doc_vectors_q")
      <4>1. "doc_vectors_q" \in Held(m2)
        BY <1>3, <3>5
      <4>2. /\ Held(m1) \subseteq Held(m2)
            /\ Held(m2) \subseteq Held(m1) \union {"doc_sparse_idx", "doc_sparse_val"}
        BY <3>4, <4>1
      <4>3. /\ Held(m2) \subseteq Building \union {"enriched_vecs_q"} \union DocQ \union Sparse
            /\ "doc_token_ids" \in Held(m2)
        BY <3>2, <4>2 DEF Sparse, Building
      <4> QED
        BY <1>5, <3>1, <3>4, <3>5, <4>3
    <3>6. CASE ~ Live(m2, "doc_vectors_q")
      <4>1. /\ Held(m2) = (Held(m1) \ {"doc_vectors_q"}) \union {"doc_sparse_idx", "doc_sparse_val"}
            /\ Content(m2, "doc_sparse_val") = Content(m2, "enr_sparse_val")
        BY <1>3, <3>2, <3>3, <3>4, <3>6
      <4>2. /\ Sound(mem') /\ Held(mem') = Held(m2) \ Transient /\ GoOn("inverted")
            /\ \A q \in Held(m2) \ Transient : Content(mem', q) = Content(m2, q)
        BY <1>3, <3>1, <3>4, <3>6, FreeSound
      <4> DEFINE E == {"enr_sparse_idx", "enr_sparse_val"}
                 D == {"inv_mag", "doc_sparse_idx", "doc_sparse_val"}
      <4>3. Held(mem') = {"doc_token_ids"} \union E \union D
        BY <3>2, <4>1, <4>2 DEF Building, Transient, DocQ
      <4>4. E \in EnrichedForms /\ D \in DocForms
        BY <2>1 DEF EnrichedForms, DocForms
      <4>5. Content(mem', "doc_sparse_val") = Content(mem', "enr_sparse_val")
        <5>1. "doc_sparse_val" \in Held(mem') /\ "enr_sparse_val" \in Held(mem')
          BY <4>3
        <5> QED
          BY <4>1, <4>2, <5>1
      <4>6. SidesAgree(mem')
        BY <4>3, <4>5 DEF SidesAgree, Enriched
      <4> HIDE DEF E, D
      <4>7. Stage("inverted", Held(mem'))
        BY <4>3, <4>4 DEF Stage
      <4> QED
        BY <1>1, <4>2, <4>6, <4>7, GoOnKeeps
    <3> QED
      BY <3>5, <3>6
  <2> QED
    BY <2>5, <2>6
<1> QED
  BY <1>4, <1>6 DEF SparsifyVectors

(* The inverted index is there with both its arrays or not at all, and its *)
(* scratch is gone.                                                        *)
LEMMA InvertedSound ==
  ASSUME Sound(mem), NEW n \in InvertedIndexes,
         Held(mem) \intersect (InvIndex \union {"occ_counts", "tmp_ids", "cursor"}) = {}
  PROVE  /\ Sound(n) /\ Held(n) \in {Held(mem), Held(mem) \union InvIndex}
         /\ \A q \in Held(mem) : Content(n, q) = Content(mem, q)
<1> DEFINE H == Held(mem)
           occ == TryAlloc(mem, "occ_counts", "zero")
           tmp == UNION {IF Live(m, "occ_counts") THEN TryAlloc(m, "tmp_ids", "uninit")
                         ELSE {m} : m \in occ}
           cur == UNION {IF Live(m, "tmp_ids") THEN TryAlloc(m, "cursor", "data")
                         ELSE {m} : m \in tmp}
           inv == UNION {IF Live(m, "cursor")
                         THEN UNION {TryAlloc(k, "inv_doc_ids", "data") :
                                       k \in TryAlloc(m, "inv_offsets", "data")}
                         ELSE {m} : m \in cur}
           Scratch == {"cursor", "tmp_ids", "occ_counts"}
           Good(m, S) == /\ Sound(m) /\ H \subseteq Held(m) /\ Held(m) \subseteq H \union S
                         /\ \A q \in H : Content(m, q) = Content(mem, q)
<1>0. /\ InvIndex = {"inv_offsets", "inv_doc_ids"} /\ Scratch \subseteq Pointer /\ InvIndex \subseteq Pointer
      /\ {"zero", "uninit", "data"} \subseteq Contents
      /\ H \intersect (InvIndex \union Scratch) = {}
  BY Pointers DEF InvIndex, Contents
<1>1. \A m \in occ : Good(m, {"occ_counts"})
  BY <1>0, TryAllocSound
<1>2. \A m \in tmp : Good(m, {"occ_counts", "tmp_ids"})
  <2> SUFFICES ASSUME NEW m \in tmp PROVE Good(m, {"occ_counts", "tmp_ids"})
    OBVIOUS
  <2>1. PICK o \in occ : m = o \/ m \in TryAlloc(o, "tmp_ids", "uninit")
    OBVIOUS
  <2>2. "tmp_ids" \notin Held(o) /\ Good(o, {"occ_counts"})
    BY <1>0, <1>1
  <2> HIDE DEF occ, tmp
  <2> QED
    BY <1>0, <2>1, <2>2, TryAllocSound
<1>3. \A m \in cur : Good(m, Scratch)
  <2> SUFFICES ASSUME NEW m \in cur PROVE Good(m, Scratch)
    OBVIOUS
  <2>1. PICK o \in tmp : m = o \/ m \in TryAlloc(o, "cursor", "data")
    OBVIOUS
  <2>2. "cursor" \notin Held(o) /\ Good(o, {"occ_counts", "tmp_ids"})
    BY <1>0, <1>2
  <2> HIDE DEF occ, tmp, cur
  <2> QED
    BY <1>0, <2>1, <2>2, TryAllocSound
<1>4. \A m \in inv : Good(m, Scratch \union InvIndex)
  <2> SUFFICES ASSUME NEW m \in inv PROVE Good(m, Scratch \union InvIndex)
    OBVIOUS
  <2>1. PICK o \in cur : \/ m = o
                         \/ \E k \in TryAlloc(o, "inv_offsets", "data") :
                              m \in TryAlloc(k, "inv_doc_ids", "data")
    OBVIOUS
  <2>2. "inv_offsets" \notin Held(o) /\ "inv_doc_ids" \notin Held(o) /\ Good(o, Scratch)
    BY <1>0, <1>3
  <2> HIDE DEF occ, tmp, cur, inv
  <2>3. ASSUME NEW k \in TryAlloc(o, "inv_offsets", "data"), m \in TryAlloc(k, "inv_doc_ids", "data")
        PROVE  Good(m, Scratch \union InvIndex)
    <3>1. /\ Good(k, Scratch \union {"inv_offsets"}) /\ "inv_doc_ids" \notin Held(k)
      BY <1>0, <2>2, TryAllocSound
    <3> QED
      BY <1>0, <2>3, <3>1, TryAllocSound
  <2> QED
    BY <2>1, <2>2, <2>3
<1>5. PICK m \in inv :
        n = FreeAll(IF Live(m, "inv_offsets") /\ Live(m, "inv_doc_ids") THEN m
                    ELSE FreeAll(m, InvIndex), Scratch)
  BY DEF InvertedIndexes
<1>6. Good(m, Scratch \union InvIndex)
  BY <1>4
<1> HIDE DEF occ, tmp, cur, inv
<1>7. PICK k : k = IF Live(m, "inv_offsets") /\ Live(m, "inv_doc_ids") THEN m
                   ELSE FreeAll(m, InvIndex)
  OBVIOUS
<1>8. /\ Sound(k) /\ \A q \in H : q \in Held(k) /\ Content(k, q) = Content(mem, q)
      /\ Held(k) \ Scratch \in {H, H \union InvIndex}
  <2>1. CASE Live(m, "inv_offsets") /\ Live(m, "inv_doc_ids")
    <3>1. k = m /\ InvIndex \subseteq Held(m)
      BY <1>0, <1>7, <2>1 DEF Held
    <3>2. Held(k) \ Scratch = H \union InvIndex
      BY <1>0, <1>6, <3>1
    <3> QED
      BY <1>6, <3>1, <3>2
  <2>2. CASE ~ (Live(m, "inv_offsets") /\ Live(m, "inv_doc_ids"))
    <3>1. /\ Sound(k) /\ Held(k) = Held(m) \ InvIndex
          /\ \A q \in Held(m) \ InvIndex : Content(k, q) = Content(m, q)
      BY <1>0, <1>6, <1>7, <2>2, FreeSound
    <3>2. Held(k) \ Scratch = H
      BY <1>0, <1>6, <3>1
    <3> QED
      BY <1>0, <1>6, <3>1, <3>2
  <2> QED
    BY <2>1, <2>2
<1>9. /\ Sound(n) /\ Held(n) = Held(k) \ Scratch
      /\ \A q \in Held(k) \ Scratch : Content(n, q) = Content(k, q)
  BY <1>0, <1>5, <1>7, <1>8, FreeSound
<1> QED
  BY <1>0, <1>8, <1>9

(* The token lists go last, and what is left is the finalized corpus.      *)
LEMMA FinishKeeps ==
  ASSUME IInv, Finish
  PROVE  IInv'
<1>1. /\ pc = "inverted" /\ Sound(mem) /\ ~ finalized /\ ~ finalize_failed /\ entry_count > 0
      /\ SidesAgree(mem) /\ TypeOK
  BY StageIs DEF Finish
<1>2. PICK E \in EnrichedForms, D \in DocForms : Held(mem) = {"doc_token_ids"} \union E \union D
  BY <1>1, StageIs
<1>3. PICK m \in {mem} \union InvertedIndexes : mem' = Free(m, "doc_token_ids")
  BY DEF Finish
<1>4. /\ InvIndex \intersect Held(mem) = {} /\ "doc_token_ids" \in Pointer
      /\ "doc_token_ids" \notin E \union D \union InvIndex
      /\ Held(mem) \intersect {"occ_counts", "tmp_ids", "cursor"} = {}
  <2>1. /\ E \subseteq Enriched \union {"enr_sparse_idx", "enr_sparse_val"}
        /\ D \subseteq DocQ \union {"doc_sparse_idx", "doc_sparse_val"}
    BY DEF EnrichedForms, DocForms, Enriched, DocQ
  <2> QED
    BY <1>2, <2>1, Pointers DEF InvIndex, Enriched, DocQ
<1>5. /\ Sound(m) /\ Held(m) \in {Held(mem), Held(mem) \union InvIndex}
      /\ \A q \in Held(mem) : Content(m, q) = Content(mem, q)
  <2>1. Held(mem) \intersect (InvIndex \union {"occ_counts", "tmp_ids", "cursor"}) = {}
    BY <1>4
  <2>2. CASE m = mem
    BY <1>1, <2>2
  <2>3. CASE m \in InvertedIndexes
    BY <1>1, <2>1, <2>3, InvertedSound
  <2> QED
    BY <2>2, <2>3
<1>6. /\ Sound(mem') /\ Held(mem') = Held(m) \ {"doc_token_ids"}
      /\ \A q \in Held(m) \ {"doc_token_ids"} : Content(mem', q) = Content(m, q)
  BY <1>3, <1>4, <1>5, OneFreeSound
<1>7. \E I \in {{}, InvIndex} : Held(mem') = E \union D \union I
  <2>1. CASE Held(m) = Held(mem)
    <3>1. Held(mem') = E \union D \union {}
      BY <1>2, <1>4, <1>6, <2>1
    <3> QED
      BY <3>1
  <2>2. CASE Held(m) = Held(mem) \union InvIndex
    <3>1. Held(mem') = E \union D \union InvIndex
      BY <1>2, <1>4, <1>6, <2>2
    <3> QED
      BY <3>1
  <2> QED
    BY <1>5, <2>1, <2>2
<1>8. SidesAgree(mem')
  <2>1. \A q \in Enriched \union {"enr_sparse_val", "doc_vectors", "doc_vectors_q", "doc_sparse_val"} :
          q \in Held(mem') => q \in Held(mem) /\ Content(mem', q) = Content(mem, q)
    BY <1>5, <1>6 DEF InvIndex, Enriched
  <2> QED
    BY <1>1, <2>1 DEF SidesAgree
<1>9. /\ pc' = "idle" /\ finalized' = TRUE /\ UNCHANGED <<entry_count, doc_count, finalize_failed>>
  BY DEF Finish, flags
<1>10. stage' = "final" /\ TypeOK'
  BY <1>1, <1>9 DEF stage, TypeOK
<1>11. Stage("final", Held(mem'))
  BY <1>7 DEF Stage
<1>12. Stage(stage, Held(mem))'
  BY <1>9, <1>10, <1>11 DEF Stage, DocForms
<1> QED
  BY <1>1, <1>6, <1>8, <1>9, <1>10, <1>12 DEF IInv

(* Between calls only the corpus's own pointers hold blocks.               *)
LEMMA OnlyAttached ==
  ASSUME IInv, pc = "idle"
  PROVE  Held(mem) \subseteq Attached
<1>1. CASE stage = "final"
  <2>1. PICK E \in EnrichedForms, D \in DocForms, I \in {{}, InvIndex} :
          Held(mem) = E \union D \union I
    BY <1>1, StageIs
  <2>2. E \subseteq Attached /\ D \subseteq Attached /\ I \subseteq Attached
    BY DEF EnrichedForms, DocForms, Attached, Enriched, DocQ, Sparse
  <2> QED
    BY <2>1, <2>2
<1>2. CASE stage # "final"
  BY <1>2, StageIs, Pointers
<1> QED
  BY <1>1, <1>2

(* fce_sem_corpus_free leaves nothing.                                     *)
LEMMA FreeCorpusKeeps ==
  ASSUME IInv, FreeCorpus
  PROVE  IInv'
<1>1. Sound(mem) /\ pc = "idle" /\ TypeOK /\ (finalized => ~ finalize_failed)
  BY DEF FreeCorpus, IInv
<1>2. Held(mem) \subseteq Attached
  BY <1>1, OnlyAttached
<1>3. Sound(mem') /\ Held(mem') = {}
  <2>1. Sound(mem') /\ Held(mem') = Held(mem) \ Attached
    BY <1>1, Pointers, FreeSound DEF FreeCorpus
  <2> QED
    BY <1>2, <2>1
<1>4. /\ pc' = "gone" /\ UNCHANGED <<entry_count, doc_count, finalized, finalize_failed>>
  BY DEF FreeCorpus, flags, outcome
<1>5. TypeOK' /\ stage' = "gone"
  BY <1>1, <1>4 DEF TypeOK, stage
<1>6. Stage(stage, Held(mem))'
  BY <1>3, <1>5 DEF Stage
<1> QED
  BY <1>1, <1>3, <1>4, <1>5, <1>6 DEF IInv

(* The invariant holds in every reachable state.                           *)
LEMMA Invariance == Spec => []IInv
<1>1. IInv /\ UNCHANGED vars => IInv'
  BY DEF vars, flags, outcome, IInv, TypeOK, stage, Stage, DocForms
<1>2. IInv /\ [Next]_vars => IInv'
  BY <1>1, CallKeeps, BuildSourcesKeeps, AllocEnrichedKeeps, Pass1Keeps, Pass2Keeps,
     RequantizeKeeps, BuildDocVectorsKeeps, QuantizeDocsKeeps, SparsifyVectorsKeeps,
     FinishKeeps, FreeCorpusKeeps DEF Next
<1> QED
  BY InitIInv, <1>2, PTL DEF Spec

(* No block is freed twice or written after it was freed, on any exit of   *)
(* finalize and in fce_sem_corpus_free, although pass1_q aliases the       *)
(* corpus's enriched_vecs_q under skip_ri.                                 *)
THEOREM BlocksFreedOnce == Spec => []NoBadFree
<1>1. IInv => NoBadFree
  BY DEF IInv, Sound, NoBadFree
<1> QED
  BY <1>1, Invariance, PTL

(* Every block still allocated between calls belongs to the corpus, and    *)
(* none is left after fce_sem_corpus_free, whichever allocations failed.   *)
THEOREM NothingLeaks == Spec => []NoLeak
<1>1. ASSUME IInv PROVE NoLeak
  <2>1. /\ Sound(mem) /\ Held(mem) \subseteq Pointer
        /\ \A p \in Pointer : p \in Held(mem) <=> mem.ptr[p] # NULL
    BY <1>1 DEF IInv, Held, Live
  <2>2. LiveBlocks = {mem.ptr[p] : p \in Held(mem)}
    BY <2>1 DEF Sound, Content, LiveBlocks
  <2>3. CASE pc = "idle"
    <3>1. Held(mem) \subseteq Attached
      BY <1>1, <2>3, OnlyAttached
    <3>2. \A p \in Held(mem) : mem.ptr[p] # NULL
      BY <2>1
    <3>3. \A p \in Attached : mem.ptr[p] # NULL => p \in Held(mem)
      BY <2>1, Pointers
    <3> QED
      BY <2>2, <2>3, <3>1, <3>2, <3>3 DEF NoLeak, Owned
  <2>4. CASE pc = "gone"
    BY <1>1, <2>2, <2>4, StageIs DEF NoLeak
  <2> QED
    BY <2>3, <2>4 DEF NoLeak
<1> QED
  BY <1>1, Invariance, PTL

(* A finalized corpus has one representation of its entries and one of its *)
(* documents, complete: the assertion at the end of finalize.              *)
THEOREM OneRepresentationKept == Spec => []ExactlyOneRepresentation
<1>1. ASSUME IInv PROVE ExactlyOneRepresentation
  <2> SUFFICES ASSUME pc = "idle", finalized, entry_count > 0 PROVE ExactlyOneRepresentation
    BY DEF ExactlyOneRepresentation
  <2>1. stage = "final" /\ doc_count \in Nat
    BY <1>1 DEF stage, IInv, TypeOK
  <2>2. PICK E \in EnrichedForms, D \in DocForms, I \in {{}, InvIndex} :
          Held(mem) = E \union D \union I
    BY <1>1, <2>1, StageIs
  <2> DEFINE R == {"enriched_vecs", "enriched_vecs_q", "enr_sparse_idx"}
  <2>3. \A p \in Pointer : Live(mem, p) <=> p \in E \union D \union I
    BY <2>2, Pointers
  <2>4. {p \in R : Live(mem, p)} = R \intersect E
    <3>1. R \subseteq Pointer /\ R \intersect (D \union I) = {}
      BY Pointers DEF DocForms, DocQ, InvIndex
    <3> QED
      BY <2>3, <3>1
  <2>5. \E x : R \intersect E = {x}
    <3>1. CASE E = {"enriched_vecs"}
      <4>1. R \intersect E = {"enriched_vecs"}
        BY <3>1
      <4> QED
        BY <4>1
    <3>2. CASE E = {"enriched_vecs_q"}
      <4>1. R \intersect E = {"enriched_vecs_q"}
        BY <3>2
      <4> QED
        BY <4>1
    <3>3. CASE E = {"enr_sparse_idx", "enr_sparse_val"}
      <4>1. R \intersect E = {"enr_sparse_idx"}
        BY <3>3
      <4> QED
        BY <4>1
    <3> QED
      BY <3>1, <3>2, <3>3 DEF EnrichedForms
  <2>6. Cardinality({p \in R : Live(mem, p)}) = 1
    BY <2>4, <2>5, FS_Singleton
  <2>7. Live(mem, "enr_sparse_idx") <=> Live(mem, "enr_sparse_val")
    <3>1. ("enr_sparse_idx" \in E <=> "enr_sparse_val" \in E)
          /\ {"enr_sparse_idx", "enr_sparse_val"} \intersect (D \union I) = {}
      BY DEF EnrichedForms, DocForms, DocQ, InvIndex
    <3> QED
      BY <2>3, <3>1, Pointers
  <2>8. /\ Live(mem, "doc_sparse_idx") <=> Live(mem, "doc_sparse_val")
        /\ doc_count > 0 => /\ Live(mem, "doc_vectors_q") # Live(mem, "doc_sparse_idx")
                            /\ Live(mem, "inv_mag")
        /\ ~ Live(mem, "doc_vectors")
    <3>1. /\ "doc_sparse_idx" \in D <=> "doc_sparse_val" \in D
          /\ doc_count > 0 => /\ "doc_vectors_q" \in D <=> "doc_sparse_idx" \notin D
                              /\ "inv_mag" \in D
          /\ "doc_vectors" \notin D
      BY <2>1 DEF DocForms, DocQ
    <3>2. {"doc_sparse_idx", "doc_sparse_val", "doc_vectors_q", "doc_vectors"} \intersect (E \union I) = {}
      BY DEF EnrichedForms, InvIndex
    <3>3. /\ Live(mem, "doc_sparse_idx") <=> "doc_sparse_idx" \in D
          /\ Live(mem, "doc_sparse_val") <=> "doc_sparse_val" \in D
          /\ Live(mem, "doc_vectors_q") <=> "doc_vectors_q" \in D
          /\ Live(mem, "doc_vectors") <=> "doc_vectors" \in D
          /\ "inv_mag" \in D => Live(mem, "inv_mag")
      BY <2>3, <3>2, Pointers
    <3>4. Live(mem, "doc_vectors_q") \in BOOLEAN /\ Live(mem, "doc_sparse_idx") \in BOOLEAN
      BY DEF Live
    <3> QED
      BY <3>1, <3>3, <3>4
  <2>9. Live(mem, "inv_offsets") <=> Live(mem, "inv_doc_ids")
    <3>1. ("inv_offsets" \in I <=> "inv_doc_ids" \in I)
          /\ InvIndex \intersect (E \union D) = {}
      BY DEF EnrichedForms, DocForms, DocQ, InvIndex
    <3> QED
      BY <2>3, <3>1, Pointers DEF InvIndex
  <2> QED
    BY <2>6, <2>7, <2>8, <2>9 DEF ExactlyOneRepresentation
<1> QED
  BY <1>1, Invariance, PTL

(* A finalize that failed holds nothing but the documents, so that it can  *)
(* be tried again or freed.                                                *)
THEOREM FailedHoldsDocuments == Spec => []FailureGivesBack
<1>1. ASSUME IInv PROVE FailureGivesBack
  <2> SUFFICES ASSUME pc = "idle", finalize_failed PROVE FailureGivesBack
    BY DEF FailureGivesBack
  <2>1. ~ finalized /\ stage = "idle"
    BY <1>1 DEF IInv, stage
  <2>2. Held(mem) = {"doc_token_ids"}
    BY <1>1, <2>1, StageIs
  <2>3. \A p \in Attached : Live(mem, p) <=> p = "doc_token_ids"
    BY <2>2, Pointers
  <2> QED
    BY <2>1, <2>3, Pointers DEF FailureGivesBack
<1> QED
  BY <1>1, Invariance, PTL

(* Queries and documents are compared on vectors of the same pass: the     *)
(* document vectors were built from the enriched vectors that are kept.    *)
THEOREM SidesFromSamePass == Spec => []DocsMatchEnriched
<1>1. ASSUME IInv PROVE DocsMatchEnriched
  <2> SUFFICES ASSUME pc = "idle", finalized, entry_count > 0, doc_count > 0
               PROVE DocsMatchEnriched
    BY DEF DocsMatchEnriched
  <2>1. SidesAgree(mem)
    BY <1>1 DEF IInv, stage
  <2>2. \A p \in Enriched \union {"enr_sparse_val", "doc_vectors_q", "doc_sparse_val"} :
          Live(mem, p) => p \in Held(mem)
    BY Pointers DEF Enriched
  <2> QED
    BY <2>1, <2>2 DEF DocsMatchEnriched, SidesAgree, Enriched
<1> QED
  BY <1>1, Invariance, PTL
===============================================================================
