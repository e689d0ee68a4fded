------------------------------- MODULE PyCorpus -------------------------------
(***************************************************************************)
(* The class Corpus of python/fast_code_embed and the process-wide toggles *)
(* it depends on: the dimension, the IDF weighting and the abbreviation    *)
(* expansion of src/semantic/semantic.c, which the tokenizer, finalize,    *)
(* the queries and fce_sem_corpus_save read live and fce_sem_corpus_load   *)
(* sets.  Corpora are built, searched, saved to and loaded from one path,  *)
(* which other processes write too; CacheFile shows what a save and a load *)
(* are on the file system, and this module uses the promise, CachePath.    *)
(*                                                                         *)
(* One thread calls.  A document is known by the call that added it, which *)
(* is the labels there were before, and by the path it came from, and so   *)
(* is the label it ought to have.  What is made of a document is the       *)
(* settings it was made with.                                              *)
(***************************************************************************)
EXTENDS Integers, Sequences, FiniteSetsExt

CONSTANTS
  Obj,      \* Python objects, free or holding a Corpus
  Built,    \* bound: those the constructor makes, not load only
  MaxDim,   \* FCE_SEM_DIM of the build
  Reports,  \* what fce_sem_corpus_add_files may do and report (AddFiles)
  MaxAdds,  \* bound: labels listed for one corpus
  None      \* no corpus, no file, a pin not set

ASSUME BuildAssumption ==
  /\ MaxDim \in {256, 768} /\ MaxAdds \in Nat /\ Built \subseteq Obj
  /\ None \notin BOOLEAN

(* The path each document that was added came from, and file_doc_counts.   *)
ASSUME ReportsAssumption ==
  \A r \in Reports : r.docs \in Seq(Nat \ {0}) /\ r.counts \in Seq(Nat)

VARIABLES
  dim,      \* g_sem_dim
  idf,      \* g_idf_enabled, resolved
  abbrev,   \* g_abbrev_enabled, resolved
  corpus,   \* corpus[o] the Corpus object o is
  file,     \* the cache the path holds
  view      \* view[o] the cache a loaded corpus points into

toggles == <<dim, idf, abbrev>>
pyVars == <<toggles, corpus, file, view>>

Path == INSTANCE CachePath WITH Process <- Obj, Cache <- {}

Dims == {d \in {256, 768} : d <= MaxDim}

CurrentCfg_NoDim == <<MaxDim, idf, abbrev>>  \* mutant: a load may change it

(* _current_cfg.                                                           *)
CurrentCfg == <<dim, idf, abbrev>>

(* What a file carries: the header's dimension, the dimension the vectors  *)
(* in it were made with and, of the labels, those of other documents.      *)
Content(h, r, docs, labels) ==
  [header |-> h, rows |-> r,
   mislabelled |-> {[of |-> docs[i], is |-> labels[i]] :
                      i \in {j \in DOMAIN labels : labels[j] # docs[j]}}]

PyInit ==
  /\ dim = MaxDim /\ idf \in BOOLEAN /\ abbrev \in BOOLEAN
  /\ corpus = [o \in Obj |-> None]
  /\ Path!Init

-------------------------------------------------------------------------------
(* The setters; a dimension the build does not have is ignored.            *)
SetDim(d) ==
  /\ d \in Dims /\ dim' = d
  /\ UNCHANGED <<idf, abbrev, corpus, file, view>>

SetIdfWeighting(b) == idf' = b /\ UNCHANGED <<dim, abbrev, corpus, file, view>>

SetAbbrevExpansion(b) == abbrev' = b /\ UNCHANGED <<dim, idf, corpus, file, view>>

New(o) ==
  /\ o \in Built /\ corpus[o] = None
  /\ corpus' = [corpus EXCEPT ![o] =
       [state |-> "building", pin |-> None, expanded |-> {}, docs |-> <<>>,
        labels |-> <<>>, rows |-> None, weighted |-> None, lost |-> FALSE,
        cfg |-> None]]
  /\ UNCHANGED <<toggles, file, view>>

(* _check_mutable does not raise.                                          *)
Mutable(o) ==
  /\ corpus[o] # None /\ corpus[o].state = "building"
  /\ corpus[o].pin \in {None, abbrev}

Changed(o, c) ==
  /\ corpus' = [corpus EXCEPT ![o] = c]
  /\ UNCHANGED <<toggles, file, view>>

Pinned(o) == [corpus[o] EXCEPT !.pin = abbrev]

(* Calls that get no further than _check_mutable, or add no token.         *)
Pin(o) == Mutable(o) /\ corpus[o].pin = None /\ Changed(o, Pinned(o))

(* Labels are listed, documents are taken and expanded.                    *)
Add(o, labels, docs) ==
  /\ Mutable(o) /\ Len(corpus[o].labels) + Len(labels) <= MaxAdds
  /\ Changed(o, [Pinned(o) EXCEPT
       !.labels = @ \o labels,
       !.docs = @ \o docs,
       !.expanded = IF docs = <<>> THEN @ ELSE @ \cup {abbrev}])

(* The document, or the label, of path p of the next call.                 *)
From(o, p) == [call |-> Len(corpus[o].labels), path |-> p]

(* add_doc: the label is listed whether or not the C side, which reports   *)
(* nothing, took the document.                                             *)
AddDoc(o, taken) ==
  Add(o, <<From(o, 1)>>, IF taken THEN <<From(o, 1)>> ELSE <<>>)

(* Labels made for the paths up to the p-th.                               *)
Upto(counts, p) == MapThenSumSet(LAMBDA q : counts[q], 1 .. p)
Covers(counts, p, i) == Upto(counts, p - 1) < i /\ i <= Upto(counts, p)

(* Every path is repeated as often as it is counted; the i-th label is     *)
(* such a path, or "" (0) past the end of the list.                        *)
LabelPath(counts, i) ==
  IF \E p \in DOMAIN counts : Covers(counts, p, i)
  THEN CHOOSE p \in DOMAIN counts : Covers(counts, p, i)
  ELSE 0

(* add_files: as many labels are listed as the corpus has grown by, taken  *)
(* from the counts, not from the documents.  The list is cut or filled up  *)
(* when the counts add up to another number, as AddFiles!CountsAddUp says  *)
(* they never do; here nothing rests on it.                                *)
AddFiles(o, r) ==
  Add(o, [i \in DOMAIN r.docs |-> From(o, LabelPath(r.counts, i))],
         [i \in DOMAIN r.docs |-> From(o, r.docs[i])])

(* finalize; when doc_idf cannot be allocated the vectors are not weighted.*)
Finalize(o, lost) ==
  /\ Mutable(o)
  /\ Changed(o, [Pinned(o) EXCEPT
       !.state = "finalized", !.rows = IF corpus[o].docs = <<>> THEN None ELSE dim,
       !.weighted = idf /\ ~lost, !.lost = lost, !.cfg = CurrentCfg])

FinalizeFails(o) ==
  Mutable(o) /\ Changed(o, [state |-> "failed"])

Queryable(o) == corpus[o] # None /\ corpus[o].state \in {"finalized", "loaded"}

(* search goes through: _check_query_cfg does not raise.                   *)
Answers(o) == Queryable(o) /\ corpus[o].cfg = CurrentCfg

-------------------------------------------------------------------------------
(* The vectors a save finds, in memory or in the mapping.                  *)
Rows(o) ==
  IF corpus[o].state = "loaded" THEN view[o].rows ELSE corpus[o].rows

Save_CutLabels(o) ==  \* mutant: surplus labels are cut off the end
  /\ Queryable(o)
  /\ Path!Publish(Content(dim, Rows(o), corpus[o].docs,
                          SubSeq(corpus[o].labels, 1, Len(corpus[o].docs))))
  /\ UNCHANGED <<toggles, corpus>>

(* save: the settings are not compared, the dimension written is the one   *)
(* active now, and there are labels for all documents or none.             *)
Save(o) ==
  /\ Queryable(o)
  /\ Len(corpus[o].labels) \in {0, Len(corpus[o].docs)}
  /\ Path!Publish(Content(dim, Rows(o), corpus[o].docs, corpus[o].labels))
  /\ UNCHANGED <<toggles, corpus>>

(* Another process saves a cache made with a setting of its own.           *)
SavedElsewhere ==
  /\ \E d \in Dims : Path!Publish(Content(d, d, <<>>, <<>>))
  /\ UNCHANGED <<toggles, corpus>>

(* A corpus from a file: its labels stay in C, the list is empty.          *)
Loaded(cfg) == [state |-> "loaded", docs |-> <<>>, labels |-> <<>>, cfg |-> cfg]

(* load: the dimension of the header becomes the active one, and the       *)
(* settings of that moment are taken for the corpus's.                     *)
Load(o) ==
  /\ corpus[o] = None /\ file # None /\ file.header \in Dims
  /\ Path!Open(o)
  /\ dim' = file.header /\ UNCHANGED <<idf, abbrev>>
  /\ corpus' = [corpus EXCEPT ![o] = Loaded(CurrentCfg')]

(* The file is rejected, or memory runs out, after the header was taken.   *)
LoadFails ==
  /\ file # None /\ file.header \in Dims
  /\ dim' = file.header
  /\ UNCHANGED <<idf, abbrev, corpus, file, view>>

(* close, or the garbage collector: the corpus and its mapping are freed.  *)
Close(o) ==
  /\ corpus[o] # None
  /\ Path!Close(o)
  /\ corpus' = [corpus EXCEPT ![o] = None]
  /\ UNCHANGED toggles

-------------------------------------------------------------------------------
Set ==
  \/ \E d \in {256, 768} : SetDim(d)
  \/ \E b \in BOOLEAN : SetIdfWeighting(b) \/ SetAbbrevExpansion(b)

Build(o) ==
  \/ New(o) \/ Pin(o) \/ FinalizeFails(o)
  \/ \E r \in Reports : AddFiles(o, r)
  \/ \E b \in BOOLEAN : AddDoc(o, b) \/ Finalize(o, b)

Use ==
  \/ SavedElsewhere \/ LoadFails
  \/ \E o \in Obj : Build(o) \/ Save(o) \/ Load(o) \/ Close(o)

PyNext == Set \/ Use

PySpec == PyInit /\ [][PyNext]_pyVars

(* The setters are called once at startup, as the documentation asks.      *)
StartupSpec == PyInit /\ [][Use]_pyVars

-------------------------------------------------------------------------------
(* "raises from search() if they have diverged, rather than returning      *)
(* silently wrong scores" (class Corpus): whenever search goes through,    *)
(* the query is made with the dimension, the weighting and the expansion   *)
(* all the documents were made with, whatever was set, loaded or rejected  *)
(* in between, save for the weights finalize could not allocate; on a      *)
(* loaded corpus, with the dimension of its header.                        *)
AnswersAgree ==
  \A o \in Obj : Answers(o) =>
    IF corpus[o].state = "loaded" THEN view[o].header = dim
    ELSE /\ corpus[o].rows \in {None, dim}
         /\ corpus[o].weighted = idf \/ corpus[o].lost
         /\ corpus[o].expanded \subseteq {abbrev}

(* "cannot save a consistent label set" (save), "keeps the label list      *)
(* aligned" (add_files): in a cache with labels a document has one from    *)
(* the call that added it, hence its own if that was add_doc or add_files  *)
(* of one path.  add_doc lists the label of a document the corpus did not  *)
(* take and every later label is then one off, but such a list is longer   *)
(* than the corpus, and whatever add_files reports cannot make it equal.   *)
SavedLabelsOfOwnCall ==
  file # None => \A label \in file.mislabelled : label.is.call = label.of.call

(* "each chunk's label is its source file path", which may be another only *)
(* "under partial-batch rejection (only at the library's OOM / 1M-doc /    *)
(* 5M-vocab limits)" (add_files): with the counts add_files reports when   *)
(* no limit is met, a cache has each document's own label.  It has not: a  *)
(* chunk without tokens is charged to another file (AddFiles, CountsPerFile*)
(* in the run add_files_labels), and the list is as long as it should be,  *)
(* so add_files does not warn and save does not raise.                     *)
SavedLabelsOwn == file # None => file.mislabelled = {}

(* "A cache file records its own dimension" (README.md): the dimension in  *)
(* the header is the one the vectors in the file were made with.           *)
HeaderTellsDimension == file # None => file.rows \in {None, file.header}

-------------------------------------------------------------------------------
(* The inductive invariant of the proofs.                                  *)

Cfgs == Dims \X BOOLEAN \X BOOLEAN

Origin == [call : Nat, path : Nat]

(* A corpus the constructor made and finalize did not fail on.             *)
BuiltCorpus ==
  [state : {"building", "finalized"}, pin : {None} \union BOOLEAN,
   expanded : SUBSET BOOLEAN, docs : Seq(Origin), labels : Seq(Origin),
   rows : {None} \union Dims, weighted : {None} \union BOOLEAN, lost : BOOLEAN,
   cfg : {None} \union Cfgs]

LoadedCorpus ==
  [state : {"loaded"}, docs : {<<>>}, labels : {<<>>}, cfg : Cfgs]

(* The shape of every object, and the dimension is one of the build's.     *)
PyTypeOK ==
  /\ dim \in Dims /\ idf \in BOOLEAN /\ abbrev \in BOOLEAN
  /\ corpus \in [Obj -> {None} \union BuiltCorpus \union LoadedCorpus
                           \union {[state |-> "failed"]}]
  /\ DOMAIN view = Obj

(* Documents were expanded as the pin says, which is not set before the    *)
(* first of them; _finalize_cfg is what finalize read, and the pin agreed. *)
KeepsSettings(c) ==
  /\ c.state = "building" =>
       /\ c.expanded \subseteq {c.pin}
       /\ c.pin \notin BOOLEAN => c.expanded = {}
  /\ c.state = "finalized" =>
       /\ c.cfg \in Cfgs
       /\ c.rows \in {None, c.cfg[1]}
       /\ c.weighted = c.cfg[2] \/ c.lost
       /\ c.expanded \subseteq {c.cfg[3]}

(* A list as long as the corpus has lost no step with it.                  *)
SameCalls(labels, docs) == \A i \in DOMAIN labels : labels[i].call = docs[i].call

KeepsLabels(c) ==
  /\ Len(c.docs) <= Len(c.labels)
  /\ Len(c.docs) = Len(c.labels) => SameCalls(c.labels, c.docs)

(* A loaded corpus has the dimension its header gave.                      *)
CorporaKept ==
  \A o \in Obj : corpus[o] # None =>
    /\ KeepsSettings(corpus[o])
    /\ corpus[o].state = "loaded" => view[o].header = corpus[o].cfg[1]
    /\ corpus[o].state # "failed" => KeepsLabels(corpus[o])

PyInv == PyTypeOK /\ CorporaKept /\ SavedLabelsOfOwnCall
================================================================================
