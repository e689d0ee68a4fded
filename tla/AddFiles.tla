-------------------------------- MODULE AddFiles --------------------------------
(***************************************************************************)
(* fce_sem_corpus_add_files (src/semantic/semantic.c): files are read and  *)
(* cut into chunks, chunks are buffered as documents, and a full buffer,   *)
(* or what is left at the end, is handed to fce_sem_corpus_add_docs_batch, *)
(* which may take fewer documents than it was given.  The callers (Python, *)
(* Java) label the documents from file_doc_counts.                         *)
(*                                                                         *)
(* A chunk is what its tokenization gives: "tokens", or "empty" when it    *)
(* holds no identifier.  What a batch accepts is what module Corpus shows: *)
(* the documents with tokens up to the document cap, none when it is       *)
(* rolled back, and any of them when it falls back to single calls.        *)
(***************************************************************************)
EXTENDS Integers, Sequences, FiniteSets, FiniteSetsExt

CONSTANTS
  Inputs,      \* the paths arrays: sequences of files, a file its chunks, <<>> for
               \* one that is empty, too large or cannot be opened
  BatchCap,    \* batch_cap
  MaxDocs      \* FCE_SEM_MAX_DOC_COUNT

ASSUME AddFilesAssumption ==
  /\ Inputs \subseteq Seq(Seq({"tokens", "empty"}))
  /\ BatchCap \in Nat \ {0} /\ MaxDocs \in Nat

VARIABLES
  files,            \* paths, as the chunks they yield
  fi, chunk,        \* file and chunk the loops are at
  batch,            \* token_counts and batch_file_idx
  file_doc_counts,
  total_docs,
  docs,             \* the corpus: the file each document came from
  deficit, left,    \* documents to charge to files, positions to look at
  pc

reading == <<files, fi, chunk>>
charging == <<deficit, left>>
vars == <<reading, batch, file_doc_counts, total_docs, docs, charging, pc>>

Files == 1 .. Len(files)

Init ==
  /\ files \in Inputs
  /\ fi = 1 /\ chunk = 1
  /\ batch = <<>>
  /\ file_doc_counts = [f \in Files |-> 0]
  /\ total_docs = 0
  /\ docs = <<>>
  /\ deficit = 0 /\ left = 0
  /\ pc = "read"

-------------------------------------------------------------------------------
(* The outer loop: on to the next file, past one that cannot be read, that *)
(* yields no chunk or whose chunks are done.                               *)
NextFile ==
  /\ pc = "read" /\ fi \in Files
  /\ \/ chunk = 1
     \/ chunk > Len(files[fi])
  /\ fi' = fi + 1 /\ chunk' = 1
  /\ UNCHANGED <<files, batch, file_doc_counts, total_docs, docs, charging, pc>>

(* The copy of a chunk cannot be allocated: the chunk is passed over. *)
SkipChunk ==
  /\ pc = "read" /\ fi \in Files /\ chunk <= Len(files[fi])
  /\ chunk' = chunk + 1
  /\ UNCHANGED <<files, fi, batch, file_doc_counts, total_docs, docs, charging, pc>>

BufferFull(b) == Len(b) >= BatchCap

(* A chunk is tokenized into the buffer and counted; a full buffer is      *)
(* flushed.                                                                *)
BufferChunk ==
  /\ pc = "read" /\ fi \in Files /\ chunk <= Len(files[fi])
  /\ batch' = Append(batch, [file |-> fi, kind |-> files[fi][chunk]])
  /\ total_docs' = total_docs + 1
  /\ file_doc_counts' = [file_doc_counts EXCEPT ![fi] = @ + 1]
  /\ chunk' = chunk + 1
  /\ pc' = IF BufferFull(batch') THEN "flush" ELSE "read"
  /\ UNCHANGED <<files, fi, docs, charging>>

(* The last flush, when something is left, and the end. *)
EndOfFiles ==
  /\ pc = "read" /\ fi \notin Files
  /\ pc' = IF batch # <<>> THEN "flush" ELSE "done"
  /\ UNCHANGED <<reading, batch, file_doc_counts, total_docs, docs, charging>>

-------------------------------------------------------------------------------
(* The documents of the batch that become documents of the corpus: their   *)
(* positions, in order.                                                    *)
AcceptedByBatch ==
  LET valid == {i \in DOMAIN batch : batch[i].kind = "tokens"}
      room == Min({MaxDocs - Len(docs), Len(batch)})
  IN  {a \in UNION {[1 .. n -> valid] : n \in 0 .. room} :
         \A i, j \in DOMAIN a : i < j => a[i] < a[j]}

LessDeficit_NotTaken(total, d) == total   \* mutant: only the files are charged

LessDeficit(total, d) == total - d

(* A flush: what was not accepted is taken off total_docs, and will be     *)
(* charged to files from the last document of the batch backwards.         *)
Flush ==
  /\ pc = "flush"
  /\ \E a \in AcceptedByBatch :
       /\ docs' = docs \o [i \in DOMAIN a |-> batch[a[i]].file]
       /\ deficit' = Len(batch) - Len(a)
  /\ total_docs' = LessDeficit(total_docs, deficit')
  /\ left' = Len(batch) /\ pc' = "charge"
  /\ UNCHANGED <<reading, batch, file_doc_counts>>

Share_Unclamped(c, d) == d   \* mutant: the whole deficit on the last file

(* What a file with c documents gives up of a deficit d. *)
Share(c, d) == Min({c, d})

Charge ==
  /\ pc = "charge" /\ left > 0 /\ deficit > 0
  /\ LET f == batch[left].file
         adj == Share(file_doc_counts[f], deficit)
     IN  /\ file_doc_counts' = [file_doc_counts EXCEPT ![f] = @ - adj]
         /\ deficit' = deficit - adj
  /\ left' = left - 1
  /\ UNCHANGED <<reading, batch, total_docs, docs, pc>>

(* The buffer is emptied, whatever is left of the deficit.                 *)
Flushed ==
  /\ pc = "charge" /\ (left = 0 \/ deficit = 0)
  /\ batch' = <<>> /\ deficit' = 0 /\ left' = 0
  /\ pc' = "read"
  /\ UNCHANGED <<reading, file_doc_counts, total_docs, docs>>

Next == NextFile \/ SkipChunk \/ BufferChunk \/ EndOfFiles
        \/ Flush \/ Charge \/ Flushed

Spec == Init /\ [][Next]_vars

-------------------------------------------------------------------------------
(* "The aggregate total_docs is always correct": it counts the documents   *)
(* in the corpus and those still buffered, whatever batches rejected; and  *)
(* the buffer never holds more than the batch_cap it was allocated for.    *)
TotalExact ==
  /\ total_docs = Len(docs) + IF pc = "charge" THEN 0 ELSE Len(batch)
  /\ Len(batch) <= BatchCap

(* The units the counts are made of: as many as the counts add up to.      *)
Units == UNION {{f} \X (1 .. file_doc_counts[f]) : f \in Files}

(* The counts add up to the documents, so labels built from them stay as   *)
(* many as the documents, and no count is negative, although a deficit     *)
(* larger than the last file's share is spread over earlier files, also    *)
(* over documents of theirs that earlier flushes had accepted: the loop    *)
(* always finds files to charge all of it to.                              *)
CountsAddUp ==
  /\ \A f \in Files : file_doc_counts[f] >= 0
  /\ pc # "charge" => Cardinality(Units) = Len(docs) + Len(batch)

(* "file_doc_counts[fi] is the number of documents contributed by          *)
(* paths[fi]", at least when every chunk with tokens became a document: no *)
(* cap was met and no allocation failed.                                   *)
CountsPerFile ==
  /\ pc = "done"
  /\ Len(docs) = MapThenSumSet(LAMBDA f : Cardinality({c \in DOMAIN files[f] :
                                              files[f][c] = "tokens"}), Files)
  => \A f \in Files : file_doc_counts[f] = Cardinality({d \in DOMAIN docs : docs[d] = f})

-------------------------------------------------------------------------------
(* What is true in every state.                                            *)
TypeOK ==
  /\ files \in Inputs /\ fi \in Nat \ {0} /\ chunk \in Nat \ {0}
  /\ batch \in Seq([file : Files, kind : {"tokens", "empty"}])
  /\ file_doc_counts \in [Files -> Nat]
  /\ total_docs \in Nat /\ docs \in Seq(Files)
  /\ deficit \in 0 .. Len(batch) /\ left \in 0 .. Len(batch)
  /\ pc \in {"read", "flush", "charge", "done"}

(* Positions of the batch that hold documents of file f.                   *)
Of(f) == {i \in DOMAIN batch : batch[i].file = f}

(* Positions whose file still has documents to give up.                    *)
Chargeable == {i \in DOMAIN batch : file_doc_counts[batch[i].file] > 0}

BufferInv ==
  /\ pc = "read" => Len(batch) < BatchCap
  /\ pc = "flush" => batch # <<>> /\ Len(batch) <= BatchCap
  /\ pc = "charge" => Len(batch) <= BatchCap
  /\ pc = "done" => batch = <<>>
  /\ total_docs = Len(docs) + IF pc = "charge" THEN 0 ELSE Len(batch)

(* The counts hold the documents and what is still to be charged.          *)
SumInv ==
  Cardinality(Units) = Len(docs) + IF pc = "charge" THEN deficit ELSE Len(batch)

(* A file counts at least the documents it has in the buffer, until it is  *)
(* charged; one that was gives up all it has or ends the deficit.  So the  *)
(* deficit left never exceeds the positions whose file can still be        *)
(* charged, and these are ahead of the loop.                               *)
ChargeInv ==
  /\ \A f \in Files :
       \/ Cardinality(Of(f)) <= file_doc_counts[f]
       \/ pc = "charge" /\ (deficit = 0 \/ file_doc_counts[f] = 0)
  /\ pc = "charge" => deficit <= Cardinality(Chargeable)
  /\ pc = "charge" /\ deficit > 0 => Chargeable \subseteq 1 .. left

IInv == TypeOK /\ BufferInv /\ SumInv /\ ChargeInv
===============================================================================
