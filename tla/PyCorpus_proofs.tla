---------------------------- MODULE PyCorpus_proofs ----------------------------
(***************************************************************************)
(* Proofs about PyCorpus and about two modules of the library it calls:    *)
(* AddFiles, whose counts tell PyCorpus how many labels a path gets,       *)
(* and Search, which answers its queries.  Each is proved of its own       *)
(* specification and uses nothing of the others.                           *)
(*                                                                         *)
(* PyCorpus is taken for any set of objects, any number of documents and   *)
(* both builds of the library.  The argument rests on the inductive        *)
(* invariant PyInv of PyCorpus: what a corpus recorded of the settings is  *)
(* what its documents were made with, and a list of labels as long as the  *)
(* corpus has a label of its own call for every document.                  *)
(*                                                                         *)
(* AddFiles is taken for any files, any batch size and any cap.  The       *)
(* counts are taken apart into units, so that their sum is a cardinality;  *)
(* the invariant IInv says that the documents still to be charged never    *)
(* outnumber the positions of the buffer whose file can be charged.        *)
(*                                                                         *)
(* Search is taken for any calls on any corpora, any numbers of workers    *)
(* and chunks and any cap.  The argument rests on its SearchInv: no item   *)
(* is in two places, a full heap is ordered but for the sift under way,    *)
(* and whenever a document has been given up, as many that score no less   *)
(* as the caller wants are still in the lists and heaps.                   *)
(***************************************************************************)
EXTENDS PyCorpus, AddFiles, Search, FiniteSetTheorems, WellFoundedInduction, TLAPS

(* The active dimension is always one the build has.                       *)
LEMMA MaxDimBuilt == MaxDim \in Dims
  BY BuildAssumption DEF Dims

(* The invariant holds before any object is made.                          *)
LEMMA InitPyInv == PyInit => PyInv
<1> SUFFICES ASSUME PyInit PROVE PyInv
  OBVIOUS
<1>1. PyTypeOK
  BY MaxDimBuilt DEF PyInit, PyTypeOK, Path!Init
<1>2. CorporaKept
  BY DEF PyInit, CorporaKept
<1>3. SavedLabelsOfOwnCall
  BY DEF PyInit, SavedLabelsOfOwnCall, Path!Init
<1> QED
  BY <1>1, <1>2, <1>3 DEF PyInv

(* A method that leaves one corpus changed, built and sound, and nothing   *)
(* else, keeps the invariant.                                              *)
LEMMA ChangeKeeps ==
  ASSUME PyInv, NEW o \in Obj, NEW c \in BuiltCorpus, Changed(o, c),
         KeepsSettings(c), KeepsLabels(c)
  PROVE  PyInv'
<1> USE DEF PyInv, PyTypeOK, Changed, toggles
<1>0. /\ corpus' = [corpus EXCEPT ![o] = c]
      /\ UNCHANGED <<dim, idf, abbrev, file, view>>
  OBVIOUS
<1>1. PyTypeOK'
  BY <1>0
<1>2. c.state # "loaded"
  BY DEF BuiltCorpus
<1>3. \A p \in Obj : corpus'[p] = IF p = o THEN c ELSE corpus[p]
  BY <1>0
<1>4. CorporaKept'
  BY <1>0, <1>2, <1>3 DEF CorporaKept
<1>5. SavedLabelsOfOwnCall'
  BY <1>0 DEF SavedLabelsOfOwnCall
<1> QED
  BY <1>1, <1>4, <1>5

(* The setters touch no corpus.                                            *)
LEMMA SetKeeps == PyInv /\ Set => PyInv'
<1> SUFFICES ASSUME PyInv, Set PROVE PyInv'
  OBVIOUS
<1>1. /\ dim' \in Dims /\ idf' \in BOOLEAN /\ abbrev' \in BOOLEAN
      /\ UNCHANGED <<corpus, file, view>>
  BY DEF Set, SetDim, SetIdfWeighting, SetAbbrevExpansion, PyInv, PyTypeOK
<1> QED
  BY <1>1 DEF PyInv, PyTypeOK, CorporaKept, SavedLabelsOfOwnCall

(* A corpus the pin lets through is one under construction whose documents *)
(* were expanded as the next one will be.                                  *)
LEMMA MutableCorpus ==
  ASSUME PyInv, NEW o \in Obj, Mutable(o)
  PROVE  /\ corpus[o] \in BuiltCorpus /\ corpus[o].state = "building"
         /\ corpus[o].expanded \subseteq {abbrev}
         /\ KeepsLabels(corpus[o])
         /\ Pinned(o) \in BuiltCorpus /\ Pinned(o).pin = abbrev
         /\ corpus[o].docs \in Seq(Origin) /\ corpus[o].labels \in Seq(Origin)
<1>1. corpus[o] # None /\ corpus[o].state = "building" /\ corpus[o].pin \in {None, abbrev}
  BY DEF Mutable
<1>2. corpus[o] \in BuiltCorpus
  BY <1>1 DEF PyInv, PyTypeOK, LoadedCorpus
<1>3. corpus[o].expanded \subseteq {abbrev}
  BY <1>1, BuildAssumption DEF PyInv, PyTypeOK, CorporaKept, KeepsSettings
<1>4. KeepsLabels(corpus[o])
  BY <1>1 DEF PyInv, CorporaKept
<1>5. Pinned(o) \in BuiltCorpus /\ Pinned(o).pin = abbrev
  BY <1>2 DEF Pinned, BuiltCorpus, PyInv, PyTypeOK
<1> QED
  BY <1>1, <1>2, <1>3, <1>4, <1>5 DEF BuiltCorpus

(* What the methods that add change of a corpus, field by field.           *)
Extended(c, l, d, e) == [c EXCEPT !.labels = l, !.docs = d, !.expanded = e]

(* The fields of a corpus with one document more.                          *)
LEMMA ExtendedFields ==
  ASSUME NEW c \in BuiltCorpus, NEW l \in Seq(Origin), NEW d \in Seq(Origin),
         NEW e \in SUBSET BOOLEAN
  PROVE  /\ Extended(c, l, d, e) \in BuiltCorpus
         /\ Extended(c, l, d, e).state = c.state
         /\ Extended(c, l, d, e).pin = c.pin
         /\ Extended(c, l, d, e).expanded = e
         /\ Extended(c, l, d, e).labels = l
         /\ Extended(c, l, d, e).docs = d
  BY DEF BuiltCorpus, Extended

(* What finalize changes of a corpus, field by field.                      *)
Finalized(c, r, w, lost, g) ==
  [c EXCEPT !.state = "finalized", !.rows = r, !.weighted = w, !.lost = lost, !.cfg = g]

(* The fields of a corpus after finalize.                                  *)
LEMMA FinalizedFields ==
  ASSUME NEW c \in BuiltCorpus, NEW r \in {None} \union Dims, NEW w \in BOOLEAN,
         NEW lost \in BOOLEAN, NEW g \in Cfgs
  PROVE  /\ Finalized(c, r, w, lost, g) \in BuiltCorpus
         /\ Finalized(c, r, w, lost, g).state = "finalized"
         /\ Finalized(c, r, w, lost, g).rows = r
         /\ Finalized(c, r, w, lost, g).weighted = w
         /\ Finalized(c, r, w, lost, g).lost = lost
         /\ Finalized(c, r, w, lost, g).cfg = g
         /\ Finalized(c, r, w, lost, g).expanded = c.expanded
         /\ Finalized(c, r, w, lost, g).labels = c.labels
         /\ Finalized(c, r, w, lost, g).docs = c.docs
  BY ZenonT(30) DEF BuiltCorpus, Finalized

(* Longer lists that have lost no step with each other.                    *)
LEMMA LongerLists ==
  ASSUME NEW l \in Seq(Origin), NEW d \in Seq(Origin),
         NEW listed \in Seq(Origin), NEW added \in Seq(Origin),
         Len(d) <= Len(l), Len(d) = Len(l) => SameCalls(l, d),
         Len(added) <= Len(listed), Len(added) = Len(listed) => SameCalls(listed, added)
  PROVE  /\ l \o listed \in Seq(Origin) /\ d \o added \in Seq(Origin)
         /\ Len(d \o added) <= Len(l \o listed)
         /\ Len(d \o added) = Len(l \o listed) => SameCalls(l \o listed, d \o added)
<1> DEFINE ll == l \o listed
           dd == d \o added
<1>1. /\ Len(ll) = Len(l) + Len(listed) /\ Len(dd) = Len(d) + Len(added)
      /\ Len(l) \in Nat /\ Len(d) \in Nat /\ Len(listed) \in Nat /\ Len(added) \in Nat
      /\ ll \in Seq(Origin) /\ dd \in Seq(Origin)
      /\ DOMAIN ll = 1 .. Len(ll)
      /\ DOMAIN l = 1 .. Len(l) /\ DOMAIN listed = 1 .. Len(listed)
  OBVIOUS
<1>2. ASSUME Len(dd) = Len(ll) PROVE SameCalls(ll, dd)
  <2>1. Len(d) = Len(l) /\ Len(added) = Len(listed)
    BY <1>1, <1>2
  <2>2. /\ \A i \in 1 .. Len(l) : l[i].call = d[i].call
        /\ \A i \in 1 .. Len(listed) : listed[i].call = added[i].call
    BY <1>1, <2>1 DEF SameCalls
  <2>3. \A i \in 1 .. Len(ll) : ll[i].call = dd[i].call
    <3> SUFFICES ASSUME NEW i \in 1 .. Len(ll) PROVE ll[i].call = dd[i].call
      OBVIOUS
    <3>1. CASE i <= Len(l)
      <4>1. ll[i] = l[i] /\ dd[i] = d[i] /\ i \in 1 .. Len(l)
        BY <1>1, <2>1, <3>1
      <4> QED
        BY <2>2, <4>1
    <3>2. CASE i > Len(l)
      <4>1. ll[i] = listed[i - Len(l)]
        BY <1>1, <3>2
      <4>2. dd[i] = added[i - Len(l)]
        <5>1. i > Len(d) /\ i \in 1 .. Len(d) + Len(added)
          BY <1>1, <2>1, <3>2
        <5>2. dd[i] = added[i - Len(d)]
          BY <5>1
        <5> QED
          BY <2>1, <5>2
      <4>3. i - Len(l) \in 1 .. Len(listed)
        BY <1>1, <3>2
      <4> HIDE DEF ll, dd
      <4> QED
        BY <2>2, <4>1, <4>2, <4>3
    <3>3. i <= Len(l) \/ i > Len(l)
      BY <1>1
    <3> QED
      BY <3>1, <3>2, <3>3
  <2> HIDE DEF ll, dd
  <2> QED
    BY <1>1, <2>3 DEF SameCalls
<1> HIDE DEF ll, dd
<1>3. Len(dd) <= Len(ll)
  BY <1>1
<1> QED
  BY <1>1, <1>2, <1>3 DEF ll, dd

(* Documents and labels of one call, as many labels as documents or more.  *)
LEMMA AddKeeps ==
  ASSUME PyInv, NEW o \in Obj, NEW listed \in Seq(Origin), NEW added \in Seq(Origin),
         Add(o, listed, added),
         Len(added) <= Len(listed), Len(added) = Len(listed) => SameCalls(listed, added)
  PROVE  PyInv'
<1> DEFINE p == Pinned(o)
           l == p.labels \o listed
           d == p.docs \o added
           e == IF added = <<>> THEN p.expanded ELSE p.expanded \cup {abbrev}
           c == Extended(p, l, d, e)
<1>0. Mutable(o)
  BY DEF Add
<1>1. /\ p \in BuiltCorpus /\ p.state = "building"
      /\ p.pin = abbrev /\ p.expanded \subseteq {abbrev}
      /\ p.docs = corpus[o].docs /\ p.labels = corpus[o].labels
      /\ KeepsLabels(p)
      /\ p.docs \in Seq(Origin) /\ p.labels \in Seq(Origin)
  BY <1>0, MutableCorpus DEF Pinned, BuiltCorpus, KeepsLabels
<1>2. abbrev \in BOOLEAN
  BY DEF PyInv, PyTypeOK
<1>3. Changed(o, c)
  BY Zenon DEF Add, Extended
<1> HIDE DEF p, c
<1>4. e \in SUBSET BOOLEAN /\ e \subseteq {abbrev}
  BY <1>1, <1>2
<1>5. /\ l \in Seq(Origin) /\ d \in Seq(Origin)
      /\ Len(d) <= Len(l)
      /\ Len(d) = Len(l) => SameCalls(l, d)
  BY <1>1, LongerLists DEF KeepsLabels
<1> HIDE DEF l, d, e
<1>6. /\ c \in BuiltCorpus /\ c.state = "building" /\ c.pin = abbrev
      /\ c.expanded = e /\ c.labels = l /\ c.docs = d
  BY <1>1, <1>4, <1>5, ExtendedFields DEF c
<1>7. KeepsSettings(c) /\ KeepsLabels(c)
  BY <1>2, <1>4, <1>5, <1>6 DEF KeepsSettings, KeepsLabels
<1> QED
  BY <1>3, <1>6, <1>7, ChangeKeeps

(* What a call adds has the number of the call, whatever its path.         *)
LEMMA FromOrigin ==
  ASSUME PyInv, NEW o \in Obj, Mutable(o)
  PROVE  \A q \in Nat : /\ From(o, q) \in Origin
                        /\ From(o, q).call = Len(corpus[o].labels)
<1>1. Len(corpus[o].labels) \in Nat
  BY MutableCorpus
<1> QED
  BY <1>1 DEF From, Origin

(* One document, with the one label that is listed for it.                 *)
LEMMA AddDocKeeps ==
  ASSUME PyInv, NEW o \in Obj, NEW taken \in BOOLEAN, AddDoc(o, taken)
  PROVE  PyInv'
<1> DEFINE f == From(o, 1)
           listed == <<f>>
           added == IF taken THEN <<f>> ELSE <<>>
<1>1. Add(o, listed, added) /\ Mutable(o)
  BY DEF AddDoc, Add
<1>2. f \in Origin
  BY <1>1, FromOrigin
<1> HIDE DEF f
<1>3. /\ listed \in Seq(Origin) /\ added \in Seq(Origin)
      /\ Len(added) <= Len(listed)
  BY <1>2
<1>4. Len(added) = Len(listed) => SameCalls(listed, added)
  BY DEF SameCalls
<1> HIDE DEF listed, added
<1> QED
  BY <1>1, <1>3, <1>4, AddKeeps

(* Any report: the labels may name any path, and they are as many as the   *)
(* documents.                                                              *)
LEMMA AddFilesKeeps ==
  ASSUME PyInv, NEW o \in Obj, NEW r \in Reports, AddFiles(o, r)
  PROVE  PyInv'
<1> DEFINE listed == [i \in DOMAIN r.docs |-> From(o, LabelPath(r.counts, i))]
           added == [i \in DOMAIN r.docs |-> From(o, r.docs[i])]
           n == Len(r.docs)
<1>1. Add(o, listed, added) /\ Mutable(o)
  BY DEF AddFiles, Add
<1>2. /\ r.docs \in Seq(Nat \ {0}) /\ r.counts \in Seq(Nat)
      /\ n \in Nat /\ DOMAIN r.docs = 1 .. n
      /\ \A i \in 1 .. n : r.docs[i] \in Nat
      /\ DOMAIN r.counts \subseteq Nat
  BY ReportsAssumption
<1>3. \A i \in 1 .. n : LabelPath(r.counts, i) \in Nat
  <2> SUFFICES ASSUME NEW i \in 1 .. n PROVE LabelPath(r.counts, i) \in Nat
    OBVIOUS
  <2>1. CASE \E q \in DOMAIN r.counts : Covers(r.counts, q, i)
    <3>1. LabelPath(r.counts, i) \in DOMAIN r.counts
      BY <2>1, Zenon DEF LabelPath
    <3> QED
      BY <1>2, <3>1
  <2>2. CASE ~ \E q \in DOMAIN r.counts : Covers(r.counts, q, i)
    BY <2>2 DEF LabelPath
  <2> QED
    BY <2>1, <2>2
<1>4. /\ listed \in [1 .. n -> Origin] /\ added \in [1 .. n -> Origin]
      /\ \A i \in 1 .. n : listed[i].call = added[i].call
  <2>1. \A i \in 1 .. n :
          /\ From(o, LabelPath(r.counts, i)) \in Origin
          /\ From(o, r.docs[i]) \in Origin
          /\ From(o, LabelPath(r.counts, i)).call = From(o, r.docs[i]).call
    BY <1>1, <1>2, <1>3, FromOrigin
  <2> QED
    BY <1>2, <2>1
<1> HIDE DEF listed, added, n
<1>5. /\ listed \in Seq(Origin) /\ added \in Seq(Origin)
      /\ Len(added) <= Len(listed) /\ SameCalls(listed, added)
  BY <1>2, <1>4 DEF SameCalls
<1> QED
  BY <1>1, <1>5, AddKeeps

(* The constructor and the methods that build.                             *)
LEMMA BuildKeeps ==
  ASSUME PyInv, NEW o \in Obj, Build(o)
  PROVE  PyInv'
<1>1. CASE New(o)
  <2> DEFINE c == [state |-> "building", pin |-> None, expanded |-> {}, docs |-> <<>>,
                   labels |-> <<>>, rows |-> None, weighted |-> None, lost |-> FALSE,
                   cfg |-> None]
  <2>1. c \in BuiltCorpus
    BY DEF BuiltCorpus
  <2>2. KeepsSettings(c) /\ KeepsLabels(c)
    BY DEF KeepsSettings, KeepsLabels, SameCalls
  <2>3. Changed(o, c)
    BY <1>1 DEF New, Changed
  <2> QED
    BY <2>1, <2>2, <2>3, ChangeKeeps
<1>2. CASE Pin(o)
  <2>1. Mutable(o) /\ Changed(o, Pinned(o))
    BY <1>2 DEF Pin
  <2>2. KeepsSettings(Pinned(o)) /\ KeepsLabels(Pinned(o))
    BY <2>1, MutableCorpus DEF Pinned, BuiltCorpus, KeepsSettings, KeepsLabels, PyInv, PyTypeOK
  <2> QED
    BY <2>1, <2>2, MutableCorpus, ChangeKeeps
<1>3. ASSUME NEW b \in BOOLEAN, AddDoc(o, b) PROVE PyInv'
  BY <1>3, AddDocKeeps
<1>4. ASSUME NEW r \in Reports, AddFiles(o, r) PROVE PyInv'
  BY <1>4, AddFilesKeeps
<1>5. CASE FinalizeFails(o)
  <2>1. /\ corpus' = [corpus EXCEPT ![o] = [state |-> "failed"]]
        /\ UNCHANGED <<dim, idf, abbrev, file, view>>
    BY <1>5 DEF FinalizeFails, Changed, toggles
  <2>2. \A p \in Obj : corpus'[p] = IF p = o THEN [state |-> "failed"] ELSE corpus[p]
    BY <2>1 DEF PyInv, PyTypeOK
  <2>3. PyTypeOK'
    BY <2>1 DEF PyInv, PyTypeOK
  <2>4. CorporaKept'
    BY <2>1, <2>2 DEF PyInv, CorporaKept, KeepsSettings
  <2> QED
    BY <2>1, <2>3, <2>4 DEF PyInv, SavedLabelsOfOwnCall
<1>6. ASSUME NEW lost \in BOOLEAN, Finalize(o, lost) PROVE PyInv'
  <2> DEFINE r == IF corpus[o].docs = <<>> THEN None ELSE dim
             c == [Pinned(o) EXCEPT !.state = "finalized", !.rows = r,
                     !.weighted = idf /\ ~lost, !.lost = lost, !.cfg = CurrentCfg]
  <2>1. Mutable(o) /\ Changed(o, c)
    BY <1>6 DEF Finalize
  <2>2. /\ Pinned(o) \in BuiltCorpus
        /\ Pinned(o).expanded = corpus[o].expanded /\ corpus[o].expanded \subseteq {abbrev}
        /\ Pinned(o).docs = corpus[o].docs /\ Pinned(o).labels = corpus[o].labels
        /\ KeepsLabels(corpus[o])
    BY <2>1, MutableCorpus DEF Pinned, BuiltCorpus
  <2>3. CurrentCfg \in Cfgs /\ r \in {None} \union Dims /\ (idf /\ ~lost) \in BOOLEAN
    BY DEF CurrentCfg, Cfgs, PyInv, PyTypeOK
  <2> DEFINE w == idf /\ ~lost
  <2>4. /\ c \in BuiltCorpus /\ c.state = "finalized" /\ c.rows = r
        /\ c.weighted = w /\ c.lost = lost /\ c.cfg = CurrentCfg
        /\ c.expanded = Pinned(o).expanded
        /\ c.docs = Pinned(o).docs /\ c.labels = Pinned(o).labels
    <3> HIDE DEF c, r
    <3>1. c = Finalized(Pinned(o), r, w, lost, CurrentCfg)
      BY Zenon DEF c, Finalized
    <3> HIDE DEF w
    <3>2. w \in BOOLEAN
      BY <2>3 DEF w
    <3> QED
      BY <2>2, <2>3, <3>1, <3>2, FinalizedFields
  <2>5. c.weighted = idf \/ c.lost
    <3>1. w = idf \/ lost
      BY DEF PyInv, PyTypeOK
    <3> HIDE DEF c, w
    <3> QED
      BY <2>4, <3>1
  <2>6. KeepsSettings(c)
    BY <2>2, <2>3, <2>4, <2>5 DEF KeepsSettings, CurrentCfg
  <2>7. KeepsLabels(c)
    BY <2>2, <2>4 DEF KeepsLabels
  <2> QED
    BY <2>1, <2>4, <2>6, <2>7, ChangeKeeps
<1> QED
  BY <1>1, <1>2, <1>3, <1>4, <1>5, <1>6 DEF Build

(* A corpus has lost no step with its labels when it can be saved: what a  *)
(* save writes has for every document a label of its own call.             *)
LEMMA SaveKeeps ==
  ASSUME PyInv, NEW o \in Obj, Save(o)
  PROVE  PyInv'
<1>1. /\ UNCHANGED <<dim, idf, abbrev, corpus, view>>
      /\ file' = Content(dim, Rows(o), corpus[o].docs, corpus[o].labels)
      /\ corpus[o] # None /\ corpus[o].state \in {"finalized", "loaded"}
      /\ Len(corpus[o].labels) \in {0, Len(corpus[o].docs)}
  BY DEF Save, Queryable, Path!Publish, toggles
<1>2. KeepsLabels(corpus[o])
  BY <1>1 DEF PyInv, CorporaKept
<1>3. corpus[o].labels \in Seq(Origin) /\ corpus[o].docs \in Seq(Origin)
  <2>1. corpus[o] \in BuiltCorpus \union LoadedCorpus
    BY <1>1 DEF PyInv, PyTypeOK
  <2>2. <<>> \in Seq(Origin)
    OBVIOUS
  <2> QED
    BY <2>1, <2>2 DEF BuiltCorpus, LoadedCorpus
<1>4. \A i \in DOMAIN corpus[o].labels : corpus[o].labels[i].call = corpus[o].docs[i].call
  <2>1. CASE Len(corpus[o].labels) = 0
    BY <1>3, <2>1
  <2>2. CASE Len(corpus[o].docs) = Len(corpus[o].labels)
    BY <1>2, <2>2 DEF KeepsLabels, SameCalls
  <2> QED
    BY <1>1, <2>1, <2>2
<1>5. SavedLabelsOfOwnCall'
  <2>1. \A label \in file'.mislabelled : \E i \in DOMAIN corpus[o].labels :
          label = [of |-> corpus[o].docs[i], is |-> corpus[o].labels[i]]
    BY <1>1 DEF Content
  <2> QED
    BY <2>1, <1>4 DEF SavedLabelsOfOwnCall
<1> QED
  BY <1>1, <1>5 DEF PyInv, PyTypeOK, CorporaKept

(* A save of another process, which writes no labels, and a load that is   *)
(* rejected, which leaves the dimension of the file.                       *)
LEMMA ElsewhereKeeps == PyInv /\ (SavedElsewhere \/ LoadFails) => PyInv'
<1> SUFFICES ASSUME PyInv PROVE SavedElsewhere \/ LoadFails => PyInv'
  OBVIOUS
<1>1. CASE SavedElsewhere
  <2>1. PICK d \in Dims : Path!Publish(Content(d, d, <<>>, <<>>))
    BY <1>1 DEF SavedElsewhere
  <2>2. /\ UNCHANGED <<dim, idf, abbrev, corpus, view>>
        /\ file' = Content(d, d, <<>>, <<>>)
    BY <1>1, <2>1 DEF SavedElsewhere, Path!Publish, toggles
  <2>3. file'.mislabelled = {}
    BY <2>2 DEF Content
  <2>4. SavedLabelsOfOwnCall'
    BY <2>3 DEF SavedLabelsOfOwnCall
  <2> QED
    BY <2>2, <2>4 DEF PyInv, PyTypeOK, CorporaKept
<1>2. CASE LoadFails
  BY <1>2 DEF LoadFails, PyInv, PyTypeOK, CorporaKept, SavedLabelsOfOwnCall
<1> QED
  BY <1>1, <1>2

(* A load takes the settings of the moment, with the dimension just set    *)
(* from the header.                                                        *)
LEMMA LoadKeeps ==
  ASSUME PyInv, NEW o \in Obj, Load(o)
  PROVE  PyInv'
<1> DEFINE c == [state |-> "loaded", docs |-> <<>>, labels |-> <<>>,
                 cfg |-> <<dim', idf, abbrev>>]
<1>1. /\ corpus' = [corpus EXCEPT ![o] = c]
      /\ dim' = file.header /\ file.header \in Dims
      /\ view' = [view EXCEPT ![o] = file]
      /\ UNCHANGED <<idf, abbrev, file>>
  BY DEF Load, Loaded, CurrentCfg, Path!Open
<1>2. c \in LoadedCorpus
  BY <1>1 DEF LoadedCorpus, Cfgs, PyInv, PyTypeOK
<1>3. PyTypeOK'
  BY <1>1, <1>2 DEF PyInv, PyTypeOK
<1>4. KeepsSettings(c) /\ KeepsLabels(c) /\ c.state = "loaded" /\ c.cfg[1] = file.header
  BY <1>1 DEF KeepsSettings, KeepsLabels, SameCalls
<1> HIDE DEF c
<1>5. \A p \in Obj : /\ corpus'[p] = IF p = o THEN c ELSE corpus[p]
                     /\ view'[p] = IF p = o THEN file ELSE view[p]
  BY <1>1 DEF PyInv, PyTypeOK
<1>6. CorporaKept'
  BY <1>4, <1>5 DEF PyInv, CorporaKept
<1> QED
  BY <1>1, <1>3, <1>6 DEF PyInv, SavedLabelsOfOwnCall

(* close() forgets one object and its mapping, and no file.                *)
LEMMA CloseKeeps ==
  ASSUME PyInv, NEW o \in Obj, Close(o)
  PROVE  PyInv'
<1>1. /\ corpus' = [corpus EXCEPT ![o] = None]
      /\ view' = [view EXCEPT ![o] = None]
      /\ UNCHANGED <<dim, idf, abbrev, file>>
  BY DEF Close, Path!Close, toggles
<1>2. \A p \in Obj : /\ corpus'[p] = IF p = o THEN None ELSE corpus[p]
                     /\ p # o => view'[p] = view[p]
  BY <1>1 DEF PyInv, PyTypeOK
<1>3. PyTypeOK'
  BY <1>1 DEF PyInv, PyTypeOK
<1>4. CorporaKept'
  BY <1>2 DEF PyInv, CorporaKept
<1> QED
  BY <1>1, <1>3, <1>4 DEF PyInv, SavedLabelsOfOwnCall

(* Every step keeps the invariant.                                         *)
LEMMA StepPyInv == PyInv /\ [PyNext]_pyVars => PyInv'
<1> SUFFICES ASSUME PyInv, [PyNext]_pyVars PROVE PyInv'
  OBVIOUS
<1>1. CASE UNCHANGED pyVars
  BY <1>1 DEF pyVars, toggles, PyInv, PyTypeOK, CorporaKept, SavedLabelsOfOwnCall
<1> QED
  BY <1>1, SetKeeps, BuildKeeps, SaveKeeps, ElsewhereKeeps, LoadKeeps, CloseKeeps
  DEF PyNext, Use

(* The settings, the corpora and the file of any execution, with any       *)
(* setter called at any time, satisfy the invariant.                       *)
LEMMA PyInvariance == PySpec => []PyInv
  BY InitPyInv, StepPyInv, PTL DEF PySpec

-------------------------------------------------------------------------------
(* Whenever search goes through (_check_query_cfg of                       *)
(* python/fast_code_embed), the query has the dimension, the weighting and *)
(* the expansion that the documents were made with, or, on a loaded        *)
(* corpus, the dimension of its header.                                    *)
THEOREM SearchAgrees == PySpec => []AnswersAgree
<1>1. PyInv => AnswersAgree
  <2> SUFFICES ASSUME PyInv, NEW o \in Obj, Answers(o)
               PROVE  IF corpus[o].state = "loaded" THEN view[o].header = dim
                      ELSE /\ corpus[o].rows \in {None, dim}
                           /\ corpus[o].weighted = idf \/ corpus[o].lost
                           /\ corpus[o].expanded \subseteq {abbrev}
    BY DEF AnswersAgree
  <2>1. /\ corpus[o] # None /\ corpus[o].state \in {"finalized", "loaded"}
        /\ corpus[o].cfg = <<dim, idf, abbrev>>
    BY DEF Answers, Queryable, CurrentCfg
  <2>2. /\ KeepsSettings(corpus[o])
        /\ corpus[o].state = "loaded" => view[o].header = corpus[o].cfg[1]
    BY <2>1 DEF PyInv, CorporaKept
  <2> QED
    BY <2>1, <2>2 DEF KeepsSettings
<1> QED
  BY <1>1, PyInvariance, PTL

(* A cache file never carries a label of another call than the document's, *)
(* whatever add_doc listed for documents the corpus did not take and       *)
(* whatever counts add_files was told (Corpus.save of                      *)
(* python/fast_code_embed): nothing is shifted from one call to the next.  *)
THEOREM LabelsOfOwnCall == PySpec => []SavedLabelsOfOwnCall
  BY PyInvariance, PTL DEF PyInv

-------------------------------------------------------------------------------
(* The smaller of two integers.                                            *)
LEMMA MinOfTwo ==
  ASSUME NEW a \in Int, NEW b \in Int
  PROVE  Min({a, b}) = IF a <= b THEN a ELSE b
<1> DEFINE m == IF a <= b THEN a ELSE b
<1>1. m \in {a, b} /\ \A x \in {a, b} : m <= x
  OBVIOUS
<1>2. \A y \in {a, b} : (\A x \in {a, b} : y <= x) => y = m
  OBVIOUS
<1> HIDE DEF m
<1>3. \E y \in {a, b} : \A x \in {a, b} : y <= x
  BY <1>1
<1>4. Min({a, b}) \in {a, b} /\ \A x \in {a, b} : Min({a, b}) <= x
  BY <1>3 DEF Min
<1> QED
  BY <1>2, <1>4 DEF m

(* The units of the counts c of the files F.                               *)
UnitsOf(F, c) == UNION {{f} \X (1 .. c[f]) : f \in F}

LEMMA UnitsFinite ==
  ASSUME NEW F, IsFiniteSet(F), NEW c \in [F -> Nat]
  PROVE  IsFiniteSet(UnitsOf(F, c)) /\ Cardinality(UnitsOf(F, c)) \in Nat
<1> DEFINE S == {{f} \X (1 .. c[f]) : f \in F}
<1>1. IsFiniteSet(S)
  <2> DEFINE h == [f \in F |-> {f} \X (1 .. c[f])]
  <2>1. h \in [F -> S] /\ \A T \in S : \E f \in F : h[f] = T
    OBVIOUS
  <2>2. h \in Surjection(F, S)
    BY <2>1 DEF Surjection
  <2> QED
    BY <2>2, FS_Surjection
<1>2. ASSUME NEW T \in S PROVE IsFiniteSet(T)
  <2>1. PICK f \in F : T = {f} \X (1 .. c[f])
    BY <1>2
  <2>2. IsFiniteSet({f}) /\ IsFiniteSet(1 .. c[f])
    <3>1. c[f] \in Int /\ 1 \in Int
      OBVIOUS
    <3> QED
      BY <3>1, FS_Singleton, FS_Interval
  <2> QED
    BY <2>1, <2>2, FS_Product
<1>3. IsFiniteSet(UnitsOf(F, c))
  BY <1>1, <1>2, FS_UNION DEF UnitsOf
<1> QED
  BY <1>3, FS_CardinalityType

(* A file that gives up n of its documents takes n from the sum.           *)
LEMMA UnitsTaken ==
  ASSUME NEW F, IsFiniteSet(F), NEW c \in [F -> Nat], NEW d \in [F -> Nat],
         NEW g \in F, NEW n \in 0 .. c[g],
         d[g] = c[g] - n, \A f \in F \ {g} : d[f] = c[f]
  PROVE  Cardinality(UnitsOf(F, d)) = Cardinality(UnitsOf(F, c)) - n
<1> DEFINE J == c[g] - n + 1 .. c[g]
           D == {g} \X J
<1>1. d \in [F -> Nat] /\ d[g] = c[g] - n /\ \A f \in F \ {g} : d[f] = c[f]
  OBVIOUS
<1>2. IsFiniteSet(D) /\ Cardinality(D) = n
  <2>1. IsFiniteSet(J) /\ Cardinality(J) = n
    <3>1. c[g] - n + 1 \in Int /\ c[g] \in Int /\ n \in Nat /\ n <= c[g]
      OBVIOUS
    <3>2. (IF c[g] - n + 1 > c[g] THEN 0 ELSE c[g] - (c[g] - n + 1) + 1) = n
      BY <3>1
    <3> QED
      BY <3>1, <3>2, FS_Interval
  <2>2. IsFiniteSet({g}) /\ Cardinality({g}) = 1
    BY FS_Singleton
  <2> HIDE DEF J
  <2>3. Cardinality(D) = Cardinality({g}) * Cardinality(J) /\ IsFiniteSet(D)
    BY <2>1, <2>2, FS_Product
  <2> QED
    BY <2>1, <2>2, <2>3
<1>3. UnitsOf(F, c) = UnitsOf(F, d) \union D
  <2>1. ASSUME NEW u \in UnitsOf(F, c) PROVE u \in UnitsOf(F, d) \union D
    <3>1. PICK f \in F : u \in {f} \X (1 .. c[f])
      BY <2>1 DEF UnitsOf
    <3>2. u = <<f, u[2]>> /\ u[2] \in 1 .. c[f]
      BY <3>1
    <3>3. u[2] \in 1 .. d[f] \/ (f = g /\ u[2] \in c[g] - n + 1 .. c[g])
      BY <1>1, <3>2
    <3>4. CASE u[2] \in 1 .. d[f]
      BY <3>2, <3>4 DEF UnitsOf
    <3>5. CASE f = g /\ u[2] \in c[g] - n + 1 .. c[g]
      BY <3>2, <3>5
    <3> QED
      BY <3>3, <3>4, <3>5
  <2>2. ASSUME NEW u \in UnitsOf(F, d) PROVE u \in UnitsOf(F, c)
    <3>1. PICK f \in F : u \in {f} \X (1 .. d[f])
      BY <2>2 DEF UnitsOf
    <3>2. u = <<f, u[2]>> /\ u[2] \in 1 .. d[f]
      BY <3>1
    <3>3. u[2] \in 1 .. c[f]
      BY <1>1, <3>2
    <3> QED
      BY <3>2, <3>3 DEF UnitsOf
  <2>3. ASSUME NEW u \in D PROVE u \in UnitsOf(F, c)
    <3>1. u = <<g, u[2]>> /\ u[2] \in 1 .. c[g]
      BY <2>3
    <3> QED
      BY <3>1 DEF UnitsOf
  <2> QED
    BY <2>1, <2>2, <2>3
<1>4. UnitsOf(F, d) \intersect D = {}
  <2> SUFFICES ASSUME NEW u \in UnitsOf(F, d), u \in D PROVE FALSE
    OBVIOUS
  <2>1. PICK f \in F : u \in {f} \X (1 .. d[f])
    BY DEF UnitsOf
  <2>2. u[1] = f /\ u[2] \in 1 .. d[f] /\ u[1] = g /\ u[2] \in c[g] - n + 1 .. c[g]
    BY <2>1
  <2> QED
    BY <1>1, <2>2
<1>5. /\ IsFiniteSet(UnitsOf(F, c)) /\ Cardinality(UnitsOf(F, c)) \in Nat
      /\ IsFiniteSet(UnitsOf(F, d)) /\ Cardinality(UnitsOf(F, d)) \in Nat
  BY <1>1, UnitsFinite
<1>6. Cardinality(UnitsOf(F, c)) = Cardinality(UnitsOf(F, d)) + n - 0
  <2>1. PICK U, V : U = UnitsOf(F, d) /\ V = UnitsOf(F, c)
    OBVIOUS
  <2> HIDE DEF D
  <2>2. Cardinality(U \union D) = Cardinality(U) + Cardinality(D) - Cardinality(U \intersect D)
    BY <1>2, <1>5, <2>1, FS_Union
  <2> QED
    BY <1>2, <1>3, <1>4, <2>1, <2>2, FS_EmptySet
<1> QED
  BY <1>5, <1>6

(* A document more of a file is a unit more.                               *)
LEMMA UnitAdded ==
  ASSUME NEW F, IsFiniteSet(F), NEW c \in [F -> Nat], NEW d \in [F -> Nat],
         NEW g \in F, d[g] = c[g] + 1, \A f \in F \ {g} : d[f] = c[f]
  PROVE  Cardinality(UnitsOf(F, d)) = Cardinality(UnitsOf(F, c)) + 1
<1>1. 1 \in 0 .. d[g] /\ c[g] = d[g] - 1 /\ \A f \in F \ {g} : c[f] = d[f]
  OBVIOUS
<1>2. Cardinality(UnitsOf(F, c)) = Cardinality(UnitsOf(F, d)) - 1
  BY <1>1, UnitsTaken
<1>3. Cardinality(UnitsOf(F, d)) \in Nat
  BY UnitsFinite
<1> QED
  BY <1>2, <1>3

-------------------------------------------------------------------------------
(* What the actions need of the types.                                     *)
LEMMA Sizes ==
  ASSUME TypeOK
  PROVE  /\ Files = 1 .. Len(files) /\ Len(files) \in Nat /\ IsFiniteSet(Files)
         /\ BatchCap \in Nat /\ BatchCap > 0
         /\ Len(batch) \in Nat /\ Len(docs) \in Nat
         /\ DOMAIN batch = 1 .. Len(batch)
         /\ IsFiniteSet(DOMAIN batch) /\ Cardinality(DOMAIN batch) = Len(batch)
         /\ \A i \in DOMAIN batch : batch[i].file \in Files
         /\ \A f \in Files : file_doc_counts[f] \in Nat
         /\ file_doc_counts \in [Files -> Nat]
         /\ Cardinality(Units) \in Nat
<1>1. files \in Seq(Seq({"tokens", "empty"}))
  BY AddFilesAssumption DEF TypeOK
<1>2. Files = 1 .. Len(files) /\ Len(files) \in Nat
  BY <1>1 DEF Files
<1>3. IsFiniteSet(Files)
  BY <1>2, FS_Interval
<1>4. /\ Len(batch) \in Nat /\ Len(docs) \in Nat
      /\ DOMAIN batch = 1 .. Len(batch)
      /\ \A i \in DOMAIN batch : batch[i].file \in Files
  <2>1. Len(batch) \in Nat /\ Len(docs) \in Nat /\ DOMAIN batch = 1 .. Len(batch)
    BY DEF TypeOK
  <2>2. \A i \in DOMAIN batch : batch[i] \in [file : Files, kind : {"tokens", "empty"}]
    <3> DEFINE E == [file : Files, kind : {"tokens", "empty"}]
    <3>1. batch \in Seq(E)
      BY DEF TypeOK
    <3> HIDE DEF E
    <3>2. \A i \in DOMAIN batch : batch[i] \in E
      BY <3>1
    <3> QED
      BY <3>2 DEF E
  <2> QED
    BY <2>1, <2>2
<1>5. IsFiniteSet(DOMAIN batch) /\ Cardinality(DOMAIN batch) = Len(batch)
  <2>1. PICK n \in Nat : n = Len(batch)
    BY <1>4
  <2>2. /\ IsFiniteSet(1 .. n)
        /\ Cardinality(1 .. n) = IF 1 > n THEN 0 ELSE n - 1 + 1
    BY FS_Interval
  <2>3. Cardinality(1 .. n) = n
    BY <2>2
  <2> QED
    BY <1>4, <2>1, <2>2, <2>3
<1>6. file_doc_counts \in [Files -> Nat] /\ \A f \in Files : file_doc_counts[f] \in Nat
  BY DEF TypeOK
<1>7. Cardinality(Units) \in Nat
  BY <1>3, <1>6, UnitsFinite DEF Units, UnitsOf
<1> QED
  BY <1>2, <1>3, <1>4, <1>5, <1>6, <1>7, AddFilesAssumption

(* The positions of a file, and those that can be charged, are counted.    *)
LEMMA Positions ==
  ASSUME TypeOK
  PROVE  /\ IsFiniteSet(Chargeable) /\ Cardinality(Chargeable) \in Nat
         /\ \A f \in Files : IsFiniteSet(Of(f)) /\ Cardinality(Of(f)) \in Nat
<1>1. IsFiniteSet(DOMAIN batch)
  BY Sizes
<1>2. Chargeable \subseteq DOMAIN batch /\ \A f : Of(f) \subseteq DOMAIN batch
  BY DEF Chargeable, Of
<1>3. ASSUME NEW T \in SUBSET DOMAIN batch PROVE IsFiniteSet(T) /\ Cardinality(T) \in Nat
  BY <1>1, FS_Subset, FS_CardinalityType
<1> QED
  BY <1>2, <1>3

-------------------------------------------------------------------------------
(* The invariant holds at the call.                                        *)
LEMMA InitIInv == Init => IInv
<1> SUFFICES ASSUME Init PROVE IInv
  OBVIOUS
<1>1. TypeOK
  BY DEF Init, TypeOK
<1>2. BufferInv
  <2>1. Len(batch) = 0 /\ Len(docs) = 0 /\ BatchCap > 0
    BY AddFilesAssumption DEF Init
  <2> QED
    BY <2>1 DEF Init, BufferInv
<1>3. SumInv
  <2>1. Units = {}
    BY DEF Init, Units
  <2> QED
    BY <2>1, FS_EmptySet DEF Init, SumInv
<1>4. ChargeInv
  <2>1. \A f \in Files : Of(f) = {} /\ file_doc_counts[f] = 0
    BY DEF Init, Of
  <2> QED
    BY <2>1, FS_EmptySet DEF Init, ChargeInv
<1> QED
  BY <1>1, <1>2, <1>3, <1>4 DEF IInv

(* Moving on in the files changes nothing the invariant speaks of; when    *)
(* they are done a last flush follows, or nothing is buffered.             *)
LEMMA MoveKeeps == IInv /\ (NextFile \/ SkipChunk \/ EndOfFiles) => IInv'
<1> SUFFICES ASSUME IInv, NextFile \/ SkipChunk \/ EndOfFiles PROVE IInv'
  OBVIOUS
<1> USE DEF IInv
<1>1. /\ UNCHANGED <<files, batch, file_doc_counts, total_docs, docs, deficit, left>>
      /\ pc = "read" /\ fi' \in Nat \ {0} /\ chunk' \in Nat \ {0}
      /\ \/ pc' = "read"
         \/ pc' = "flush" /\ batch # <<>>
         \/ pc' = "done" /\ batch = <<>>
  <2>0. fi \in Nat \ {0} /\ chunk \in Nat \ {0}
    BY DEF TypeOK
  <2>1. CASE NextFile
    BY <2>0, <2>1 DEF NextFile, charging
  <2>2. CASE SkipChunk
    BY <2>0, <2>2 DEF SkipChunk, charging
  <2>3. CASE EndOfFiles
    BY <2>0, <2>3 DEF EndOfFiles, reading, charging
  <2> QED
    BY <2>1, <2>2, <2>3
<1>2. /\ Files' = Files /\ Units' = Units
      /\ Chargeable' = Chargeable /\ \A f : Of(f)' = Of(f)
  BY <1>1 DEF Files, Units, Chargeable, Of
<1>3. TypeOK'
  BY <1>1, <1>2 DEF TypeOK
<1>4. BufferInv'
  BY <1>1, Sizes DEF BufferInv
<1>5. SumInv'
  BY <1>1, <1>2 DEF SumInv
<1>6. ChargeInv'
  BY <1>1, <1>2 DEF ChargeInv
<1> QED
  BY <1>3, <1>4, <1>5, <1>6

(* A chunk more in the buffer is a document more of its file.              *)
LEMMA BufferKeeps == IInv /\ BufferChunk => IInv'
<1> SUFFICES ASSUME IInv, BufferChunk PROVE IInv'
  OBVIOUS
<1> USE DEF IInv
<1> DEFINE n == Len(batch)
           e == [file |-> fi, kind |-> files[fi][chunk]]
<1>1. /\ UNCHANGED <<files, fi, docs, deficit, left>>
      /\ pc = "read" /\ fi \in Files
      /\ batch' = Append(batch, e) /\ total_docs' = total_docs + 1
      /\ file_doc_counts' = [file_doc_counts EXCEPT ![fi] = @ + 1]
      /\ chunk' = chunk + 1
      /\ pc' = IF Len(batch') >= BatchCap THEN "flush" ELSE "read"
  BY DEF BufferChunk, BufferFull, charging
<1>2. e \in [file : Files, kind : {"tokens", "empty"}]
  <2>1. files \in Seq(Seq({"tokens", "empty"})) /\ chunk \in Nat \ {0}
    BY AddFilesAssumption DEF TypeOK
  <2>2. files[fi] \in Seq({"tokens", "empty"})
    BY <1>1, <2>1 DEF Files
  <2>3. chunk \in 1 .. Len(files[fi])
    BY <2>1, <2>2 DEF BufferChunk
  <2>4. files[fi][chunk] \in {"tokens", "empty"}
    BY <2>2, <2>3
  <2> QED
    BY <1>1, <2>4
<1> HIDE DEF e
<1>3. /\ batch' \in Seq([file : Files, kind : {"tokens", "empty"}])
      /\ Len(batch') = n + 1 /\ batch'[n + 1] = e
      /\ DOMAIN batch' = 1 .. n + 1
      /\ \A i \in 1 .. n : batch'[i] = batch[i]
  BY <1>1, <1>2 DEF TypeOK
<1>4. Files' = Files /\ n \in Nat /\ DOMAIN batch = 1 .. n /\ BatchCap \in Nat
  BY <1>1, Sizes DEF Files
<1>5. TypeOK'
  <2>1. file_doc_counts' \in [Files -> Nat]
    BY <1>1, Sizes
  <2>2. deficit' \in 0 .. Len(batch') /\ left' \in 0 .. Len(batch')
    BY <1>1, <1>3, <1>4 DEF TypeOK
  <2>3. fi' \in Nat \ {0} /\ chunk' \in Nat \ {0} /\ total_docs' \in Nat
    BY <1>1 DEF TypeOK
  <2> QED
    BY <1>1, <1>3, <1>4, <2>1, <2>2, <2>3 DEF TypeOK
<1>6. BufferInv'
  <2>1. n < BatchCap /\ total_docs = Len(docs) + n /\ Len(docs) \in Nat
    BY <1>1, Sizes DEF BufferInv
  <2>2. batch' # <<>> /\ Len(docs') = Len(docs) /\ total_docs' = Len(docs) + (n + 1)
    BY <1>1, <1>3, <1>4, <2>1
  <2>3. pc' \in {"read", "flush"} /\ (pc' = "read" => n + 1 < BatchCap) /\ n + 1 <= BatchCap
    BY <1>1, <1>3, <1>4, <2>1
  <2> HIDE DEF n
  <2> QED
    BY <1>3, <2>2, <2>3 DEF BufferInv
<1>7. SumInv'
  <2>1. Units = UnitsOf(Files, file_doc_counts) /\ Units' = UnitsOf(Files, file_doc_counts')
    BY <1>4 DEF Units, UnitsOf
  <2>2. IsFiniteSet(Files) /\ file_doc_counts \in [Files -> Nat]
    BY Sizes
  <2>3. PICK F : F = Files
    OBVIOUS
  <2>4. PICK c \in [F -> Nat], d \in [F -> Nat] : c = file_doc_counts /\ d = file_doc_counts'
    <3>1. file_doc_counts \in [F -> Nat] /\ file_doc_counts' \in [F -> Nat]
      BY <1>1, <2>2, <2>3
    <3> QED
      BY <3>1
  <2>5. PICK g \in F : g = fi
    BY <1>1, <2>3
  <2>6. d[g] = c[g] + 1 /\ \A f \in F \ {g} : d[f] = c[f]
    BY <1>1, <2>2, <2>3, <2>4, <2>5
  <2>7. Cardinality(UnitsOf(F, d)) = Cardinality(UnitsOf(F, c)) + 1
    BY <2>2, <2>3, <2>4, <2>5, <2>6, UnitAdded
  <2>8. Cardinality(Units') = Cardinality(Units) + 1
    BY <2>1, <2>3, <2>4, <2>7
  <2> QED
    BY <1>1, <1>3, <1>4, <2>8, Sizes DEF SumInv
<1>8. ChargeInv'
  <2>1. pc' # "charge"
    BY <1>1
  <2> SUFFICES ASSUME NEW f \in Files PROVE Cardinality(Of(f)') <= file_doc_counts'[f]
    BY <1>4, <2>1 DEF ChargeInv
  <2>2. Cardinality(Of(f)) <= file_doc_counts[f]
    BY <1>1 DEF ChargeInv
  <2>3. IsFiniteSet(Of(f)) /\ Cardinality(Of(f)) \in Nat /\ file_doc_counts[f] \in Nat
    BY Positions, Sizes
  <2>4. CASE f = fi
    <3>1. Of(f)' = Of(f) \union {n + 1}
      BY <1>3, <1>4, <2>4 DEF Of, e
    <3>2. Cardinality(Of(f) \union {n + 1}) <= Cardinality(Of(f)) + 1
      <4>1. Cardinality(Of(f) \union {n + 1})
              = IF n + 1 \in Of(f) THEN Cardinality(Of(f)) ELSE Cardinality(Of(f)) + 1
        BY <2>3, FS_AddElement
      <4> QED
        BY <2>3, <4>1
    <3>3. file_doc_counts'[f] = file_doc_counts[f] + 1
      BY <1>1, <2>4, Sizes
    <3>4. Cardinality(Of(f)') \in Nat
      BY <3>1, <2>3, FS_AddElement, FS_CardinalityType
    <3> QED
      BY <2>2, <2>3, <3>1, <3>2, <3>3, <3>4
  <2>5. CASE f # fi
    <3>1. Of(f)' = Of(f)
      BY <1>3, <1>4, <2>5 DEF Of, e
    <3>2. file_doc_counts'[f] = file_doc_counts[f]
      BY <1>1, <2>5, Sizes
    <3> QED
      BY <2>2, <3>1, <3>2
  <2> QED
    BY <2>4, <2>5
<1> QED
  BY <1>5, <1>6, <1>7, <1>8

(* At a flush every position of the buffer can be charged, and at most as  *)
(* many documents are lost as the buffer holds.                            *)
LEMMA FlushKeeps == IInv /\ Flush => IInv'
<1> SUFFICES ASSUME IInv, Flush PROVE IInv'
  OBVIOUS
<1> USE DEF IInv
<1> DEFINE room == Min({MaxDocs - Len(docs), Len(batch)})
           valid == {i \in DOMAIN batch : batch[i].kind = "tokens"}
<1>1. PICK a \in AcceptedByBatch :
        /\ docs' = docs \o [i \in DOMAIN a |-> batch[a[i]].file]
        /\ deficit' = Len(batch) - Len(a)
  BY DEF Flush
<1>2. /\ UNCHANGED <<files, fi, chunk, batch, file_doc_counts>>
      /\ pc = "flush" /\ pc' = "charge" /\ left' = Len(batch)
      /\ total_docs' = total_docs - deficit'
  BY DEF Flush, LessDeficit, reading
<1>3. PICK n \in 0 .. room : a \in [1 .. n -> valid]
  BY DEF AcceptedByBatch
<1>4. room \in Int /\ room <= Len(batch)
  <2>0. MaxDocs - Len(docs) \in Int /\ Len(batch) \in Int
    BY AddFilesAssumption, Sizes
  <2>1. PICK x \in Int, y \in Int : x = MaxDocs - Len(docs) /\ y = Len(batch)
    BY <2>0
  <2>2. Min({x, y}) = IF x <= y THEN x ELSE y
    BY MinOfTwo
  <2> QED
    BY <2>1, <2>2
<1> HIDE DEF room
<1>5. n \in Nat /\ n <= Len(batch) /\ Len(a) = n /\ DOMAIN a = 1 .. n
  BY <1>3, <1>4, Sizes
<1>6. /\ docs' \in Seq(Files) /\ Len(docs') = Len(docs) + n
  <2> DEFINE s == [i \in DOMAIN a |-> batch[a[i]].file]
  <2>1. s \in [1 .. n -> Files]
    BY <1>3, <1>5, Sizes
  <2> HIDE DEF s
  <2>2. s \in Seq(Files) /\ Len(s) = n
    BY <1>5, <2>1
  <2>3. docs \in Seq(Files) /\ docs' = docs \o s
    BY <1>1 DEF TypeOK, s
  <2>4. PICK F : F = Files
    OBVIOUS
  <2>5. docs \o s \in Seq(F) /\ Len(docs \o s) = Len(docs) + Len(s)
    <3>1. PICK d \in Seq(F), t \in Seq(F) : d = docs /\ t = s
      BY <2>2, <2>3, <2>4
    <3>2. d \o t \in Seq(F) /\ Len(d \o t) = Len(d) + Len(t)
      BY <3>1
    <3> QED
      BY <3>1, <3>2
  <2> QED
    BY <2>2, <2>3, <2>4, <2>5
<1>7. Files' = Files /\ Units' = Units /\ Chargeable' = Chargeable /\ \A f : Of(f)' = Of(f)
  BY <1>2 DEF Files, Units, Chargeable, Of
<1>8. deficit' \in 0 .. Len(batch) /\ deficit' = Len(batch) - n
  BY <1>1, <1>5, Sizes
<1>9. total_docs = Len(docs) + Len(batch) /\ Len(batch) <= BatchCap
  BY <1>2 DEF BufferInv
<1>10. TypeOK'
  <2>1. total_docs' \in Nat
    BY <1>2, <1>5, <1>8, <1>9, Sizes
  <2>2. left' \in 0 .. Len(batch)
    BY <1>2, Sizes
  <2> QED
    BY <1>2, <1>6, <1>7, <1>8, <2>1, <2>2 DEF TypeOK
<1>11. BufferInv'
  BY <1>2, <1>5, <1>6, <1>8, <1>9, Sizes DEF BufferInv
<1>12. SumInv'
  BY <1>2, <1>5, <1>6, <1>7, <1>8, Sizes DEF SumInv
<1>13. ChargeInv'
  <2>1. \A f \in Files : Cardinality(Of(f)) <= file_doc_counts[f]
    BY <1>2 DEF ChargeInv
  <2>2. Chargeable = DOMAIN batch
    <3> SUFFICES ASSUME NEW i \in DOMAIN batch PROVE file_doc_counts[batch[i].file] > 0
      BY DEF Chargeable
    <3>1. PICK f \in Files : f = batch[i].file
      BY Sizes
    <3>2. i \in Of(f) /\ IsFiniteSet(Of(f)) /\ Cardinality(Of(f)) \in Nat
      BY <3>1, Positions DEF Of
    <3>3. Cardinality(Of(f)) # 0
      BY <3>2, FS_EmptySet
    <3> QED
      BY <2>1, <3>1, <3>2, <3>3, Sizes
  <2>3. deficit' <= Cardinality(Chargeable)
    BY <1>8, <2>2, Sizes
  <2>4. Chargeable \subseteq 1 .. left'
    BY <1>2, <2>2, Sizes
  <2> QED
    BY <1>2, <1>7, <2>1, <2>3, <2>4 DEF ChargeInv
<1> QED
  BY <1>10, <1>11, <1>12, <1>13

(* A file gives up what it has, or the deficit is gone.                    *)
LEMMA ChargeKeeps == IInv /\ Charge => IInv'
<1> SUFFICES ASSUME IInv, Charge PROVE IInv'
  OBVIOUS
<1> USE DEF IInv
<1>0. /\ UNCHANGED <<files, fi, chunk, batch, total_docs, docs, pc>>
      /\ pc = "charge" /\ left > 0 /\ deficit > 0 /\ left' = left - 1
      /\ left \in DOMAIN batch /\ left \in Nat /\ deficit \in Nat
  BY Sizes DEF Charge, reading, TypeOK
<1>1. PICK f \in Files : f = batch[left].file
  BY <1>0, Sizes
<1>2. PICK c \in Nat : c = file_doc_counts[f]
  BY Sizes
<1>3. PICK adj \in Nat : adj = IF c <= deficit THEN c ELSE deficit
  BY <1>0, <1>2
<1>4. /\ file_doc_counts' = [file_doc_counts EXCEPT ![f] = @ - adj]
      /\ deficit' = deficit - adj
  <2>1. PICK d \in Int : d = deficit
    BY <1>0
  <2>2. Min({c, d}) = IF c <= d THEN c ELSE d
    BY MinOfTwo
  <2>3. Share(file_doc_counts[f], deficit) = adj
    BY <1>2, <1>3, <2>1, <2>2 DEF Share
  <2> QED
    BY <1>1, <2>3 DEF Charge
<1>5. /\ file_doc_counts'[f] = c - adj
      /\ \A g \in Files : g # f => file_doc_counts'[g] = file_doc_counts[g]
      /\ file_doc_counts' \in [Files -> Nat]
  BY <1>2, <1>3, <1>4, Sizes
<1>6. Files' = Files /\ \A g : Of(g)' = Of(g)
  BY <1>0 DEF Files, Of
<1>7. TypeOK'
  <2>1. /\ deficit \in Nat /\ deficit <= Len(batch) /\ left \in Nat /\ left <= Len(batch)
        /\ Len(batch) \in Nat /\ adj <= deficit
    BY <1>0, <1>2, <1>3, Sizes DEF TypeOK
  <2>2. deficit' \in 0 .. Len(batch) /\ left' \in 0 .. Len(batch)
    BY <1>0, <1>4, <2>1
  <2> QED
    BY <1>0, <1>5, <1>6, <2>2 DEF TypeOK
<1>8. BufferInv'
  BY <1>0 DEF BufferInv
<1>9. SumInv'
  <2>1. Units = UnitsOf(Files, file_doc_counts) /\ Units' = UnitsOf(Files, file_doc_counts')
    BY <1>6 DEF Units, UnitsOf
  <2>2. PICK F : F = Files
    OBVIOUS
  <2>3. PICK counts \in [F -> Nat], d \in [F -> Nat] :
          counts = file_doc_counts /\ d = file_doc_counts'
    <3>1. file_doc_counts \in [F -> Nat] /\ file_doc_counts' \in [F -> Nat]
      BY <1>5, <2>2, Sizes
    <3> QED
      BY <3>1
  <2>4. PICK n \in 0 .. counts[f] : n = adj
    BY <1>2, <1>3, <2>2, <2>3
  <2>5. d[f] = counts[f] - n /\ \A g \in F \ {f} : d[g] = counts[g]
    BY <1>2, <1>5, <2>2, <2>3, <2>4
  <2>6. Cardinality(UnitsOf(F, d)) = Cardinality(UnitsOf(F, counts)) - n
    <3>1. IsFiniteSet(F) /\ f \in F
      BY <2>2, Sizes
    <3> QED
      BY <2>5, <3>1, UnitsTaken
  <2>7. Cardinality(Units') = Cardinality(Units) - adj
    BY <2>1, <2>2, <2>3, <2>4, <2>6
  <2> QED
    BY <1>0, <1>3, <1>4, <2>7, Sizes DEF SumInv
<1>10. ChargeInv'
  <2>0. /\ deficit <= Cardinality(Chargeable) /\ Chargeable \subseteq 1 .. left
        /\ \A g \in Files : Cardinality(Of(g)) <= file_doc_counts[g] \/ file_doc_counts[g] = 0
    BY <1>0 DEF ChargeInv
  <2>1. CASE deficit' = 0
    <3>1. IsFiniteSet(Chargeable') /\ Cardinality(Chargeable') \in Nat
      <4>1. Chargeable' \subseteq DOMAIN batch
        BY <1>0 DEF Chargeable
      <4> QED
        BY <4>1, Sizes, FS_Subset, FS_CardinalityType
    <3> QED
      BY <1>0, <1>6, <2>1, <3>1 DEF ChargeInv
  <2>2. CASE deficit' # 0
    <3>1. adj = c /\ file_doc_counts'[f] = 0 /\ deficit' = deficit - c
      BY <1>0, <1>3, <1>4, <1>5, <2>2
    <3>2. Chargeable' = Chargeable \ Of(f)
      <4> SUFFICES ASSUME NEW i \in DOMAIN batch
                   PROVE  file_doc_counts'[batch[i].file] > 0
                            <=> file_doc_counts[batch[i].file] > 0 /\ batch[i].file # f
        BY <1>0 DEF Chargeable, Of
      <4>1. PICK g \in Files : g = batch[i].file
        BY Sizes
      <4> QED
        BY <1>5, <3>1, <4>1
    <3>3. /\ IsFiniteSet(Chargeable) /\ Cardinality(Chargeable) \in Nat
          /\ IsFiniteSet(Of(f)) /\ Cardinality(Of(f)) \in Nat
      BY Positions
    <3>4. deficit' <= Cardinality(Chargeable')
      <4>1. Cardinality(Chargeable') = Cardinality(Chargeable) - Cardinality(Chargeable \cap Of(f))
        BY <3>2, <3>3, FS_Difference
      <4>2. Cardinality(Chargeable \cap Of(f)) \in Nat /\ Cardinality(Chargeable \cap Of(f)) <= c
        <5>1. CASE c = 0
          <6>1. Chargeable \cap Of(f) = {}
            <7> SUFFICES ASSUME NEW i \in Chargeable, i \in Of(f) PROVE FALSE
              OBVIOUS
            <7>1. batch[i].file = f /\ file_doc_counts[batch[i].file] > 0
              BY DEF Chargeable, Of
            <7>2. file_doc_counts[f] > 0
              BY <7>1
            <7>3. c > 0
              BY <1>2, <7>2
            <7> QED
              BY <5>1, <7>3
          <6> QED
            BY <5>1, <6>1, FS_EmptySet
        <5>2. CASE c # 0
          <6>1. Cardinality(Of(f)) <= c
            BY <1>2, <2>0, <5>2
          <6>2. /\ IsFiniteSet(Chargeable \cap Of(f))
                /\ Cardinality(Chargeable \cap Of(f)) <= Cardinality(Of(f))
            BY <3>3, FS_Subset
          <6>3. Cardinality(Chargeable \cap Of(f)) \in Nat
            BY <6>2, FS_CardinalityType
          <6> QED
            BY <3>3, <6>1, <6>2, <6>3
        <5> QED
          BY <5>1, <5>2
      <4> QED
        BY <1>0, <2>0, <3>1, <3>3, <4>1, <4>2
    <3>5. Chargeable' \subseteq 1 .. left'
      <4>1. left \in Of(f)
        BY <1>0, <1>1 DEF Of
      <4>2. ASSUME NEW i \in Chargeable, i # left PROVE i \in 1 .. left - 1
        BY <1>0, <2>0, <4>2
      <4> QED
        BY <1>0, <3>2, <4>1, <4>2
    <3>6. \A g \in Files : Cardinality(Of(g)) <= file_doc_counts'[g] \/ file_doc_counts'[g] = 0
      BY <1>5, <2>0, <3>1
    <3> QED
      BY <1>0, <1>6, <3>4, <3>5, <3>6 DEF ChargeInv
  <2> QED
    BY <2>1, <2>2
<1> QED
  BY <1>7, <1>8, <1>9, <1>10

(* When the loop ends nothing is left to charge.                           *)
LEMMA FlushedKeeps == IInv /\ Flushed => IInv'
<1> SUFFICES ASSUME IInv, Flushed PROVE IInv'
  OBVIOUS
<1> USE DEF IInv
<1>1. /\ UNCHANGED <<files, fi, chunk, file_doc_counts, total_docs, docs>>
      /\ pc = "charge" /\ pc' = "read" /\ batch' = <<>> /\ deficit' = 0 /\ left' = 0
      /\ left = 0 \/ deficit = 0
  BY DEF Flushed, reading
<1>2. deficit = 0
  <2> SUFFICES ASSUME deficit # 0 PROVE FALSE
    OBVIOUS
  <2>1. deficit \in Nat /\ deficit > 0 /\ left = 0
    BY <1>1, Sizes DEF TypeOK
  <2>2. Chargeable = {} /\ deficit <= Cardinality(Chargeable)
    BY <1>1, <2>1 DEF ChargeInv
  <2> QED
    BY <2>1, <2>2, FS_EmptySet
<1>3. Files' = Files /\ Units' = Units /\ \A f : Of(f)' = {}
  BY <1>1 DEF Files, Units, Of
<1>4. TypeOK'
  BY <1>1, <1>3 DEF TypeOK
<1>5. BufferInv'
  BY <1>1, Sizes DEF BufferInv
<1>6. SumInv'
  BY <1>1, <1>2, <1>3, Sizes DEF SumInv
<1>7. ChargeInv'
  <2>1. \A f \in Files : Cardinality(Of(f)') = 0 /\ file_doc_counts[f] \in Nat
    BY <1>3, Sizes, FS_EmptySet
  <2> QED
    BY <1>1, <1>3, <2>1 DEF ChargeInv
<1> QED
  BY <1>4, <1>5, <1>6, <1>7

(* The inductive invariant holds in every reachable state.                 *)
THEOREM Invariance == Spec => []IInv
<1>1. IInv /\ [Next]_vars => IInv'
  <2> SUFFICES ASSUME IInv, [Next]_vars PROVE IInv'
    OBVIOUS
  <2>1. CASE UNCHANGED vars
    <3>1. UNCHANGED <<files, fi, chunk, batch, file_doc_counts, total_docs, docs,
                      deficit, left, pc>>
      BY <2>1 DEF vars, reading, charging
    <3> QED
      BY <3>1 DEF IInv, TypeOK, BufferInv, SumInv, ChargeInv, Files, Units, Of, Chargeable
  <2>2. CASE Next
    BY <2>2, MoveKeeps, BufferKeeps, FlushKeeps, ChargeKeeps, FlushedKeeps DEF Next
  <2> QED
    BY <2>1, <2>2
<1> QED
  BY <1>1, InitIInv, PTL DEF Spec

-------------------------------------------------------------------------------
(* total_docs counts the documents of the corpus and of the buffer, and    *)
(* the buffer never overflows, whatever the batches reject.                *)
THEOREM TotalIsExact == Spec => []TotalExact
<1>1. IInv => TotalExact
  <2> SUFFICES ASSUME IInv PROVE TotalExact
    OBVIOUS
  <2>1. pc \in {"read", "flush", "charge", "done"} /\ (pc = "done" => Len(batch) = 0)
    BY DEF IInv, TypeOK, BufferInv
  <2> QED
    BY <2>1, Sizes DEF IInv, BufferInv, TotalExact
<1> QED
  BY <1>1, Invariance, PTL

(* The per-file counts never go below zero and add up to the documents:    *)
(* the backward loop always charges all of the deficit.                    *)
THEOREM CountsSumUp == Spec => []CountsAddUp
<1>1. IInv => CountsAddUp
  BY Sizes DEF IInv, SumInv, CountsAddUp
<1> QED
  BY <1>1, Invariance, PTL

-------------------------------------------------------------------------------
(* A set of numbers that is not empty has a least one.                     *)
LEMMA Least ==
  ASSUME NEW T, T \subseteq Nat, T # {}
  PROVE  \E x \in T : \A y \in T : x <= y
<1>1. PICK x \in T : \A y \in T : <<y, x>> \notin OpToRel(<, Nat)
  BY WFMin, NatLessThanWellFounded
<1>2. x \in Nat /\ \A y \in T : y \in Nat /\ ~ (y < x)
  BY <1>1 DEF OpToRel
<1>3. \A y \in T : x <= y
  BY <1>2
<1> QED
  BY <1>3

(* What a sequence of items is made of.                                    *)
LEMMA Items ==
  ASSUME NEW h \in Seq(Item)
  PROVE  /\ Len(h) \in Nat /\ DOMAIN h = 1 .. Len(h)
         /\ \A i \in DOMAIN h : h[i] \in Item /\ h[i].score \in Int /\ h[i].index \in Nat
<1>1. ASSUME NEW i \in DOMAIN h PROVE h[i] \in Item
  <2> DEFINE E == Item
  <2>1. h \in Seq(E)
    OBVIOUS
  <2> HIDE DEF E
  <2>2. h[i] \in E
    BY <2>1
  <2> QED
    BY <2>2 DEF E
<1>2. \A a \in Item : a.score \in Int /\ a.index \in Nat
  BY DEF Item
<1> QED
  BY <1>1, <1>2

(* One item of a sequence replaced.                                        *)
LEMMA Replaced ==
  ASSUME NEW h \in Seq(Item), NEW i \in DOMAIN h, NEW a \in Item
  PROVE  LET g == [h EXCEPT ![i] = a]
         IN  /\ g \in Seq(Item) /\ Len(g) = Len(h) /\ DOMAIN g = DOMAIN h
             /\ g[i] = a /\ \A j \in DOMAIN h : j # i => g[j] = h[j]
<1> DEFINE E == Item
<1>1. h \in Seq(E) /\ a \in E
  OBVIOUS
<1> HIDE DEF E
<1>2. LET g == [h EXCEPT ![i] = a]
      IN  /\ g \in Seq(E) /\ Len(g) = Len(h) /\ DOMAIN g = DOMAIN h
          /\ g[i] = a /\ \A j \in DOMAIN h : j # i => g[j] = h[j]
  BY <1>1
<1> QED
  BY <1>2 DEF E

-------------------------------------------------------------------------------
(* Half of a number, as heap_siftdown uses it: the parent of a node.       *)
LEMMA Halves ==
  /\ \A i \in Nat : i \div 2 \in Nat /\ i <= 2 * (i \div 2) + 1 /\ 2 * (i \div 2) <= i
  /\ \A i, r \in Nat : i \div 2 = r <=> (i = 2 * r \/ i = 2 * r + 1)
  OBVIOUS

(* What it is for the heap h of n items to be in order, but for a sift     *)
(* that began at f and is at r.                                            *)
Ordered(h, f, r) ==
  \A i \in 2 .. Len(h) :
    /\ i \div 2 >= f /\ i \div 2 # r => h[i \div 2].score <= h[i].score
    /\ i \div 2 = r /\ r \div 2 >= f => h[r \div 2].score <= h[i].score

(* The parts of a selection; to the provers Seq(Item) is best some set E.  *)
LEMMA SelectionIs ==
  \E E : E = Seq(Item) /\ Selection = [k : Nat, heap : E, from : Nat, root : Nat]
  BY DEF Selection

(* What a selection is made of.                                            *)
LEMMA Parts ==
  ASSUME NEW s \in Selection
  PROVE  s.k \in Nat /\ s.heap \in Seq(Item) /\ s.from \in Nat /\ s.root \in Nat
<1>1. PICK E : E = Seq(Item) /\ Selection = [k : Nat, heap : E, from : Nat, root : Nat]
  BY SelectionIs
<1>2. s.k \in Nat /\ s.heap \in E /\ s.from \in Nat /\ s.root \in Nat
  BY <1>1
<1> QED
  BY <1>1, <1>2

(* Sound, with the order of the heap named.                                *)
LEMMA SoundParts ==
  ASSUME NEW s \in Selection
  PROVE  Sound(s) <=> /\ Len(s.heap) <= s.k /\ s.from <= s.root /\ s.root <= Len(s.heap)
                      /\ s.from = 0 <=> s.root = 0
                      /\ Len(s.heap) < s.k => s.root = 0
                      /\ Len(s.heap) = s.k => Ordered(s.heap, s.from, s.root)
  BY DEF Sound, Ordered

(* The first item of a heap in order is the least.                         *)
LEMMA RootLeast ==
  ASSUME NEW h \in Seq(Item), Ordered(h, 0, 0), Len(h) > 0
  PROVE  \A i \in DOMAIN h : h[1].score <= h[i].score
<1>1. /\ Len(h) \in Nat /\ DOMAIN h = 1 .. Len(h)
      /\ \A i \in 1 .. Len(h) : h[i].score \in Int
  BY Items
<1>3. \A i \in 2 .. Len(h) : h[i \div 2].score <= h[i].score
  <2>1. \A i \in 2 .. Len(h) : i \div 2 \in Nat /\ i \div 2 # 0
    BY Halves
  <2> QED
    BY <2>1 DEF Ordered
<1> DEFINE T == {i \in 1 .. Len(h) : h[i].score < h[1].score}
<1>4. SUFFICES ASSUME T # {} PROVE FALSE
  BY <1>1
<1>5. PICK x \in T : \A y \in T : x <= y
  <2>1. T \subseteq Nat
    OBVIOUS
  <2> QED
    BY <1>4, <2>1, Least
<1>6. x \in 2 .. Len(h) /\ h[x].score < h[1].score
  BY <1>1, <1>5
<1>7. PICK p \in Nat : p = x \div 2
  BY <1>6, Halves
<1>8. p \in 1 .. Len(h) /\ p < x
  BY <1>6, <1>7, Halves
<1>9. h[p].score < h[1].score
  <2>1. h[p].score <= h[x].score
    BY <1>3, <1>6, <1>7
  <2> QED
    BY <1>1, <1>6, <1>8, <2>1
<1> QED
  BY <1>5, <1>6, <1>8, <1>9

(* A sift that ends leaves one more parent in order.                       *)
LEMMA SiftEnds ==
  ASSUME NEW h \in Seq(Item), NEW f \in Nat, NEW r \in Nat, 0 < f, f <= r, r <= Len(h),
         Ordered(h, f, r),
         \A i \in 2 .. Len(h) : i \div 2 = r => h[r].score <= h[i].score
  PROVE  Ordered(h, f - 1, f - 1)
<1> SUFFICES ASSUME NEW i \in 2 .. Len(h)
             PROVE  /\ i \div 2 >= f - 1 /\ i \div 2 # f - 1 => h[i \div 2].score <= h[i].score
                    /\ i \div 2 = f - 1 /\ (f - 1) \div 2 >= f - 1
                         => h[(f - 1) \div 2].score <= h[i].score
  BY DEF Ordered
<1>1. Len(h) \in Nat
  BY Items
<1>2. PICK p \in Nat : p = i \div 2 /\ p > 0
  BY <1>1, Halves
<1>3. PICK g \in Nat : g = f - 1
  OBVIOUS
<1>4. PICK q \in Nat : q = g \div 2 /\ (q >= g => g = 0)
  BY Halves
<1>5. p >= f => h[p].score <= h[i].score
  BY <1>2 DEF Ordered
<1> QED
  BY <1>2, <1>3, <1>4, <1>5

(* A round that swaps moves the disorder down to the lesser child.         *)
LEMMA SiftSwaps ==
  ASSUME NEW h \in Seq(Item), NEW f \in Nat, NEW r \in Nat, 0 < f, f <= r,
         Ordered(h, f, r),
         NEW c \in 1 .. Len(h), c \div 2 = r, r < c, h[c].score < h[r].score,
         \A i \in 2 .. Len(h) : i \div 2 = r => h[c].score <= h[i].score,
         NEW g \in Seq(Item), Len(g) = Len(h), g[r] = h[c], g[c] = h[r],
         \A i \in 1 .. Len(h) : i # r /\ i # c => g[i] = h[i]
  PROVE  Ordered(g, f, c)
<1> SUFFICES ASSUME NEW i \in 2 .. Len(h)
             PROVE  /\ i \div 2 >= f /\ i \div 2 # c => g[i \div 2].score <= g[i].score
                    /\ i \div 2 = c /\ c \div 2 >= f => g[c \div 2].score <= g[i].score
  BY DEF Ordered
<1>1. /\ Len(h) \in Nat
      /\ \A j \in 1 .. Len(h) : h[j].score \in Int
  BY Items
<1>2. PICK p \in 1 .. Len(h) : p = i \div 2 /\ p < i
  BY <1>1, Halves
<1>3. ASSUME p >= f, p # c PROVE g[p].score <= g[i].score
  <2>1. CASE p = r
    <3>1. h[c].score <= h[i].score /\ i # r /\ g[p] = h[c]
      BY <1>2, <2>1
    <3>2. CASE i = c
      BY <1>1, <1>2, <2>1, <3>1, <3>2
    <3>3. CASE i # c
      <4>1. g[i] = h[i]
        BY <1>1, <3>1, <3>3
      <4> QED
        BY <3>1, <4>1
    <3> QED
      BY <3>2, <3>3
  <2>2. CASE p # r /\ i = r
    <3>1. h[p].score <= h[c].score
      BY <1>2, <1>3, <2>2, <1>1 DEF Ordered
    <3> QED
      BY <1>3, <2>2, <3>1
  <2>3. CASE p # r /\ i # r
    <3>1. i # c
      BY <1>2, <2>3
    <3>2. h[p].score <= h[i].score
      BY <1>2, <1>3, <2>3 DEF Ordered
    <3> QED
      BY <1>3, <2>3, <3>1, <3>2
  <2> QED
    BY <2>1, <2>2, <2>3
<1>4. ASSUME p = c PROVE g[r].score <= g[i].score
  <2>1. h[p].score <= h[i].score
    BY <1>2, <1>4 DEF Ordered
  <2>2. i # r /\ i # c /\ i \in 1 .. Len(h)
    BY <1>1, <1>2, <1>4
  <2>3. g[r] = h[p] /\ g[i] = h[i]
    BY <1>4, <2>2
  <2> QED
    BY <2>1, <2>3
<1> QED
  BY <1>2, <1>3, <1>4

(* A round of the sift permutes the heap and keeps it sound.               *)
Permutes(g, h) ==
  \E m \in [DOMAIN h -> DOMAIN h] : \A i \in DOMAIN h : m[m[i]] = i /\ g[i] = h[m[i]]

(* A round of a sift keeps a selection sound and only swaps items.         *)
LEMMA SiftKeeps ==
  ASSUME NEW s \in Selection, Sound(s), s.root > 0, NEW t, t = SiftRound(s)
  PROVE  /\ t \in Selection /\ t.k = s.k /\ Sound(t)
         /\ Len(t.heap) = Len(s.heap) /\ Permutes(t.heap, s.heap)
<1>0. PICK E : E = Seq(Item) /\ Selection = [k : Nat, heap : E, from : Nat, root : Nat]
  BY SelectionIs
<1>1. PICK h \in Seq(Item), f \in Nat, r \in Nat : h = s.heap /\ f = s.from /\ r = s.root
  BY Parts
<1>2. /\ Len(h) \in Nat /\ DOMAIN h = 1 .. Len(h) /\ s.k \in Nat
      /\ \A i \in 1 .. Len(h) : h[i] \in Item /\ h[i].score \in Int
  <2>1. s.k \in Nat
    BY Parts
  <2> QED
    BY <2>1, Items
<1>3. Len(h) = s.k /\ 0 < f /\ f <= r /\ r <= Len(h) /\ Ordered(h, f, r)
  BY <1>1, <1>2, SoundParts
<1> DEFINE lc == 2 * r
           child == IF lc < Len(h) /\ h[lc + 1].score < h[lc].score
                    THEN lc + 1 ELSE lc
<1>4. t =
        IF lc > Len(h) \/ h[r].score <= h[child].score
        THEN [s EXCEPT !.from = f - 1, !.root = f - 1]
        ELSE [s EXCEPT !.heap = [h EXCEPT ![r] = h[child], ![child] = h[r]], !.root = child]
  BY <1>1 DEF SiftRound
<1>5. lc <= Len(h) =>
        /\ child \in 1 .. Len(h) /\ child \div 2 = r /\ r < child
        /\ \A i \in 2 .. Len(h) : i \div 2 = r => h[child].score <= h[i].score
  <2> SUFFICES ASSUME lc <= Len(h)
               PROVE  /\ child \in 1 .. Len(h) /\ child \div 2 = r /\ r < child
                      /\ \A i \in 2 .. Len(h) : i \div 2 = r => h[child].score <= h[i].score
    OBVIOUS
  <2>1. lc \in 1 .. Len(h) /\ r < lc
    BY <1>2, <1>3
  <2>2. child = lc \/ (child = lc + 1 /\ child \in 1 .. Len(h))
    BY <1>2
  <2>3. child \in 1 .. Len(h) /\ r < child
    BY <1>2, <2>1, <2>2
  <2>4. child \div 2 = r
    BY <2>2, <2>3, Halves
  <2>5. ASSUME NEW i \in 2 .. Len(h), i \div 2 = r PROVE h[child].score <= h[i].score
    <3>1. i = lc \/ i = lc + 1
      BY <2>5, Halves
    <3>2. h[lc].score \in Int /\ (lc < Len(h) => h[lc + 1].score \in Int)
      BY <1>2, <2>1
    <3> QED
      BY <1>2, <3>1, <3>2
  <2> QED
    BY <2>3, <2>4, <2>5
<1>6. PICK c \in Nat : c = child
  OBVIOUS
<1> HIDE DEF child
<1>7. CASE lc > Len(h) \/ h[r].score <= h[c].score
  <2>1. t = [s EXCEPT !.from = f - 1, !.root = f - 1]
    BY <1>4, <1>6, <1>7
  <2>2. t = [s EXCEPT !.heap = h, !.from = f - 1, !.root = f - 1]
    BY <1>1, <2>1, Parts DEF Selection
  <2>3. /\ t \in Selection /\ t.k = s.k /\ t.heap = h
        /\ t.from = f - 1 /\ t.root = f - 1
    <3>1. PICK e \in Nat : e = f - 1
      BY <1>3
    <3>2. t = [s EXCEPT !.heap = h, !.from = e, !.root = e]
      BY <2>2, <3>1
    <3>3. t \in Selection /\ t.k = s.k /\ t.heap = h /\ t.from = e /\ t.root = e
      BY <1>0, <1>1, <3>1, <3>2
    <3> QED
      BY <3>1, <3>3
  <2>4. ASSUME NEW i \in 2 .. Len(h), i \div 2 = r PROVE h[r].score <= h[i].score
    <3>1. lc <= i
      BY <2>4, Halves
    <3>2. lc <= Len(h) /\ c \in 1 .. Len(h) /\ h[c].score <= h[i].score
      BY <1>2, <1>5, <1>6, <2>4, <3>1
    <3> QED
      BY <1>2, <1>3, <1>7, <3>2
  <2>5. Ordered(h, f - 1, f - 1)
    BY <1>3, <2>4, SiftEnds
  <2>6. Sound(t)
    BY <1>2, <1>3, <2>3, <2>5, SoundParts
  <2>7. [i \in DOMAIN h |-> i] \in [DOMAIN h -> DOMAIN h]
    OBVIOUS
  <2> QED
    <3>1. \A i \in DOMAIN h : LET m == [j \in DOMAIN h |-> j] IN m[m[i]] = i /\ h[i] = h[m[i]]
      OBVIOUS
    <3>2. \E m \in [DOMAIN h -> DOMAIN h] : \A i \in DOMAIN h : m[m[i]] = i /\ h[i] = h[m[i]]
      BY <2>7, <3>1
    <3> QED
      BY <1>1, <2>3, <2>6, <3>2 DEF Permutes
<1>8. CASE ~ (lc > Len(h) \/ h[r].score <= h[c].score)
  <2>1. /\ c \in 1 .. Len(h) /\ c \div 2 = r /\ r < c /\ r \in 1 .. Len(h)
        /\ h[c].score < h[r].score
        /\ \A i \in 2 .. Len(h) : i \div 2 = r => h[c].score <= h[i].score
    <3>1. lc <= Len(h) /\ ~ (h[r].score <= h[c].score)
      BY <1>2, <1>3, <1>8
    <3>2. /\ c \in 1 .. Len(h) /\ c \div 2 = r /\ r < c
          /\ \A i \in 2 .. Len(h) : i \div 2 = r => h[c].score <= h[i].score
      BY <1>5, <1>6, <3>1
    <3>3. r \in 1 .. Len(h) /\ h[c].score < h[r].score
      BY <1>2, <1>3, <3>1, <3>2
    <3> QED
      BY <3>2, <3>3
  <2>2. PICK g \in Seq(Item) :
          /\ g = [h EXCEPT ![r] = h[c], ![c] = h[r]]
          /\ Len(g) = Len(h) /\ g[r] = h[c] /\ g[c] = h[r]
          /\ \A i \in 1 .. Len(h) : i # r /\ i # c => g[i] = h[i]
    <3> DEFINE e == [h EXCEPT ![r] = h[c]]
    <3>1. /\ e \in Seq(Item) /\ Len(e) = Len(h) /\ DOMAIN e = DOMAIN h
          /\ e[r] = h[c] /\ \A i \in DOMAIN h : i # r => e[i] = h[i]
      BY <1>2, <2>1, Replaced
    <3> HIDE DEF e
    <3> DEFINE d == [e EXCEPT ![c] = h[r]]
    <3>2. /\ d \in Seq(Item) /\ Len(d) = Len(e) /\ d[c] = h[r]
          /\ \A i \in DOMAIN e : i # c => d[i] = e[i]
      BY <1>2, <2>1, <3>1, Replaced
    <3>3. d = [h EXCEPT ![r] = h[c], ![c] = h[r]]
      BY DEF e
    <3> HIDE DEF d
    <3>4. r \in DOMAIN e /\ r # c /\ DOMAIN e = DOMAIN h /\ DOMAIN h = 1 .. Len(h)
      BY <1>2, <2>1, <3>1
    <3>5. d[r] = h[c] /\ d[c] = h[r] /\ Len(d) = Len(h)
      BY <3>1, <3>2, <3>4
    <3>6. \A i \in 1 .. Len(h) : i # r /\ i # c => d[i] = h[i]
      BY <3>1, <3>2, <3>4
    <3> QED
      BY <3>2, <3>3, <3>5, <3>6
  <2>3. t = [s EXCEPT !.heap = g, !.root = c]
    BY <1>4, <1>6, <1>8, <2>2
  <2>4. t = [s EXCEPT !.heap = g, !.from = f, !.root = c]
    BY <1>1, <2>3 DEF Selection
  <2>5. /\ t \in Selection /\ t.k = s.k /\ t.heap = g /\ t.from = f /\ t.root = c
    <3>1. c \in Nat /\ f \in Nat /\ g \in Seq(Item)
      BY <1>1, <1>6, <2>2
    <3> QED
      BY <1>0, <2>4, <3>1
  <2>6. Ordered(g, f, c)
    <3>1. f \in Nat /\ r \in Nat /\ h \in Seq(Item) /\ g \in Seq(Item)
      BY <1>1, <2>2
    <3>2. 0 < f /\ f <= r /\ Ordered(h, f, r)
      BY <1>3
    <3>3. /\ Len(g) = Len(h) /\ g[r] = h[c] /\ g[c] = h[r]
          /\ \A i \in 1 .. Len(h) : i # r /\ i # c => g[i] = h[i]
      BY <2>2
    <3> HIDE DEF Ordered
    <3> QED
      BY <2>1, <3>1, <3>2, <3>3, SiftSwaps
  <2>7. Sound(t)
    <3>1. f <= c /\ c <= Len(g) /\ f # 0 /\ c # 0 /\ Len(g) = s.k
      BY <1>1, <1>2, <1>3, <2>1, <2>2
    <3>2. Len(g) <= s.k /\ ~ (Len(g) < s.k)
      BY <1>2, <2>2, <3>1
    <3>3. /\ Len(t.heap) <= t.k /\ t.from <= t.root /\ t.root <= Len(t.heap)
          /\ t.from = 0 <=> t.root = 0
          /\ Len(t.heap) < t.k => t.root = 0
          /\ Len(t.heap) = t.k => Ordered(t.heap, t.from, t.root)
      BY <2>5, <2>6, <3>1, <3>2
    <3> QED
      BY <2>5, <3>3, SoundParts
  <2> DEFINE m == [i \in DOMAIN h |-> IF i = r THEN c ELSE IF i = c THEN r ELSE i]
  <2>8. /\ m \in [DOMAIN h -> DOMAIN h]
        /\ \A i \in DOMAIN h : m[m[i]] = i /\ g[i] = h[m[i]]
    BY <1>2, <2>1, <2>2
  <2> HIDE DEF m
  <2>9. \E p \in [DOMAIN h -> DOMAIN h] : \A i \in DOMAIN h : p[p[i]] = i /\ g[i] = h[p[i]]
    BY <2>8
  <2>10. Len(t.heap) = Len(s.heap) /\ t.heap = g /\ s.heap = h
    BY <1>1, <2>2, <2>5
  <2> QED
    BY <2>5, <2>7, <2>9, <2>10 DEF Permutes
<1> QED
  BY <1>7, <1>8

(* An item offered is added, or ousts the root, or is refused; whatever is *)
(* given up then scores no more than anything in the heap, which is full.  *)
LEMMA OfferCases ==
  ASSUME NEW s \in Selection, Sound(s), s.root = 0, s.k > 0, NEW a \in Item,
         NEW b \in BOOLEAN, NEW t, t = Offer(s, a, b)
  PROVE  /\ t \in Selection /\ t.k = s.k /\ Sound(t)
         /\ \/ Len(s.heap) < s.k /\ t.heap = Append(s.heap, a)
            \/ /\ Len(s.heap) = s.k /\ Len(t.heap) = s.k /\ t.heap[1] = a
               /\ \A j \in DOMAIN s.heap : j # 1 => t.heap[j] = s.heap[j]
               /\ s.heap[1].score <= a.score
               /\ \A i \in DOMAIN s.heap : s.heap[1].score <= s.heap[i].score
            \/ /\ Len(s.heap) = s.k /\ t = s
               /\ \A i \in DOMAIN s.heap : a.score <= s.heap[i].score
<1>0. PICK E : E = Seq(Item) /\ Selection = [k : Nat, heap : E, from : Nat, root : Nat]
  BY SelectionIs
<1>1. PICK h \in Seq(Item), k \in Nat : h = s.heap /\ k = s.k /\ k > 0
  BY Parts
<1>2. /\ Len(h) \in Nat /\ DOMAIN h = 1 .. Len(h)
      /\ \A i \in DOMAIN h : h[i] \in Item /\ h[i].score \in Int
  BY Items
<1>3. /\ Len(h) <= k /\ s.from = 0 /\ s.root = 0
      /\ Len(h) = k => Ordered(h, 0, 0)
  BY <1>1, SoundParts
<1>4. a.score \in Int
  BY DEF Item
<1>5. t = IF Len(h) + 1 < k THEN [s EXCEPT !.heap = Append(h, a)]
          ELSE IF Len(h) < k
          THEN [s EXCEPT !.heap = Append(h, a), !.from = k \div 2, !.root = k \div 2]
          ELSE IF Ousts(a, h[1], b)
          THEN [s EXCEPT !.heap[1] = a, !.from = 1, !.root = 1] ELSE s
  BY <1>1 DEF Offer
<1>6. CASE Len(h) < k
  <2>1. PICK g \in Seq(Item) : g = Append(h, a) /\ Len(g) = Len(h) + 1
    <3> DEFINE D == Item
    <3>1. h \in Seq(D) /\ a \in D
      OBVIOUS
    <3> HIDE DEF D
    <3>2. Append(h, a) \in Seq(D) /\ Len(Append(h, a)) = Len(h) + 1
      BY <3>1
    <3> QED
      BY <3>2 DEF D
  <2>2. PICK r \in Nat : r = IF Len(h) + 1 < k THEN 0 ELSE k \div 2
    BY <1>1, Halves
  <2>3. t = [s EXCEPT !.heap = g, !.from = r, !.root = r]
    <3>1. CASE Len(h) + 1 < k
      <4>1. t = [s EXCEPT !.heap = g] /\ r = 0
        BY <1>5, <2>1, <2>2, <3>1
      <4> QED
        BY <1>0, <1>3, <4>1
    <3>2. CASE ~ (Len(h) + 1 < k)
      BY <1>5, <1>6, <2>1, <2>2, <3>2
    <3> QED
      BY <3>1, <3>2
  <2>4. t \in Selection /\ t.k = k /\ t.heap = g /\ t.from = r /\ t.root = r
    BY <1>0, <1>1, <2>1, <2>2, <2>3
  <2>5. Sound(t)
    <3>1. CASE Len(g) < k
      <4>1. r = 0
        BY <2>1, <2>2, <3>1
      <4> QED
        BY <1>2, <2>1, <2>4, <3>1, <4>1, SoundParts
    <3>2. CASE ~ (Len(g) < k)
      <4>1. Len(g) = k /\ r = k \div 2
        BY <1>2, <1>6, <2>1, <2>2, <3>2
      <4>2. Ordered(g, r, r)
        <5> SUFFICES ASSUME NEW i \in 2 .. Len(g)
                     PROVE  ~ (i \div 2 >= r /\ i \div 2 # r) /\ ~ (i \div 2 = r /\ r \div 2 >= r)
          BY DEF Ordered
        <5>1. PICK p \in Nat : p = i \div 2 /\ p > 0
          BY <1>1, <4>1, Halves
        <5>2. p <= r
          <6>1. 2 * p <= i /\ i <= k /\ k <= 2 * r + 1
            BY <1>1, <4>1, <5>1, Halves
          <6> QED
            BY <2>2, <6>1
        <5>3. r \div 2 \in Nat /\ 2 * (r \div 2) <= r
          BY <2>2, Halves
        <5> QED
          BY <2>2, <5>1, <5>2, <5>3
      <4>3. r <= Len(g)
        <5>1. 2 * r <= k
          BY <1>1, <4>1, Halves
        <5> QED
          BY <1>1, <2>2, <4>1, <5>1
      <4> QED
        BY <2>4, <4>1, <4>2, <4>3, SoundParts, <1>1, <2>2
    <3> QED
      BY <3>1, <3>2
  <2> QED
    BY <1>1, <1>6, <2>1, <2>4, <2>5
<1>7. CASE ~ (Len(h) < k)
  <2>1. Len(h) = k /\ 1 \in DOMAIN h /\ h[1].score \in Int
    BY <1>1, <1>2, <1>3, <1>7
  <2>2. \A i \in DOMAIN h : h[1].score <= h[i].score
    BY <1>1, <1>3, <2>1, RootLeast
  <2>3. CASE Ousts(a, h[1], b)
    <3>1. PICK g \in Seq(Item) :
            /\ g = [h EXCEPT ![1] = a] /\ Len(g) = Len(h) /\ g[1] = a
            /\ \A j \in DOMAIN h : j # 1 => g[j] = h[j]
      <4> DEFINE e == [h EXCEPT ![1] = a]
      <4>1. /\ e \in Seq(Item) /\ Len(e) = Len(h) /\ e[1] = a
            /\ \A j \in DOMAIN h : j # 1 => e[j] = h[j]
        BY <2>1, Replaced
      <4> HIDE DEF e
      <4>2. \E g \in Seq(Item) : g = e
        BY <4>1
      <4> QED
        BY <4>1 DEF e
    <3>2. t = [s EXCEPT !.heap = g, !.from = 1, !.root = 1]
      BY <1>1, <1>5, <1>7, <2>1, <2>3, <3>1
    <3>3. t \in Selection /\ t.k = k /\ t.heap = g /\ t.from = 1 /\ t.root = 1
      <4>1. g \in E
        BY <1>0, <3>1
      <4>2. PICK r \in Nat : r = 1
        OBVIOUS
      <4>3. t = [s EXCEPT !.heap = g, !.from = r, !.root = r]
        BY <3>2, <4>2
      <4>4. t \in Selection /\ t.k = k /\ t.heap = g /\ t.from = r /\ t.root = r
        BY <1>0, <1>1, <4>1, <4>2, <4>3
      <4> QED
        BY <4>2, <4>4
    <3>4. Ordered(g, 1, 1)
      <4> SUFFICES ASSUME NEW i \in 2 .. Len(g)
                   PROVE  /\ i \div 2 # 1 => g[i \div 2].score <= g[i].score
                          /\ ~ (1 \div 2 >= 1)
        BY DEF Ordered
      <4>1. PICK p \in Nat : p = i \div 2 /\ p > 0 /\ p < i
        BY <1>1, <2>1, <3>1, Halves
      <4>2. h[p].score <= h[i].score
        BY <1>1, <1>2, <1>3, <2>1, <3>1, <4>1 DEF Ordered
      <4>3. p # 1 => g[p] = h[p] /\ g[i] = h[i]
        BY <1>1, <1>2, <2>1, <3>1, <4>1
      <4> QED
        BY <4>1, <4>2, <4>3
    <3>5. Sound(t)
      BY <1>1, <2>1, <3>1, <3>3, <3>4, SoundParts
    <3>6. h[1].score <= a.score
      BY <1>4, <2>1, <2>3 DEF Ousts
    <3> QED
      BY <1>1, <2>1, <2>2, <3>1, <3>3, <3>5, <3>6
  <2>4. CASE ~ Ousts(a, h[1], b)
    <3>1. t = s
      BY <1>5, <1>7, <2>1, <2>4
    <3>2. a.score <= h[1].score
      BY <1>4, <2>1, <2>4 DEF Ousts
    <3>3. \A i \in DOMAIN h : a.score <= h[i].score
      BY <1>2, <1>4, <2>1, <2>2, <3>2
    <3> QED
      BY <1>1, <2>1, <3>1, <3>3
  <2> QED
    BY <2>3, <2>4
<1> QED
  BY <1>6, <1>7

-------------------------------------------------------------------------------
(* What sequences over any set are made of.                                *)
LEMMA Elements ==
  ASSUME NEW E, NEW h \in Seq(E)
  PROVE  Len(h) \in Nat /\ DOMAIN h = 1 .. Len(h) /\ \A i \in DOMAIN h : h[i] \in E
  OBVIOUS

(* A sequence with one element replaced.                                   *)
LEMMA SeqExcept ==
  ASSUME NEW E, NEW h \in Seq(E), NEW i \in DOMAIN h, NEW a \in E,
         NEW g, g = [h EXCEPT ![i] = a]
  PROVE  /\ g \in Seq(E) /\ Len(g) = Len(h) /\ DOMAIN g = DOMAIN h
         /\ g[i] = a /\ \A j \in DOMAIN h : j # i => g[j] = h[j]
  OBVIOUS

(* What is left of a sequence without its first element.                   *)
LEMMA Tails ==
  ASSUME NEW E, NEW h \in Seq(E), h # <<>>
  PROVE  /\ Tail(h) \in Seq(E) /\ Len(Tail(h)) = Len(h) - 1 /\ Len(h) > 0
         /\ 1 \in DOMAIN h /\ Head(h) = h[1] /\ h[1] \in E
         /\ \A i \in DOMAIN Tail(h) : i + 1 \in DOMAIN h /\ Tail(h)[i] = h[i + 1]
  OBVIOUS

(* A function on 1 .. n is a sequence of length n.                         *)
LEMMA FunSeq ==
  ASSUME NEW E, NEW n \in Nat, NEW f \in [1 .. n -> E]
  PROVE  f \in Seq(E) /\ Len(f) = n /\ DOMAIN f = 1 .. n
  OBVIOUS

(* A sequence with one element more.                                       *)
LEMMA Appended ==
  ASSUME NEW E, NEW h \in Seq(E), NEW a \in E, NEW g, g = Append(h, a)
  PROVE  /\ g \in Seq(E) /\ Len(g) = Len(h) + 1 /\ g[Len(h) + 1] = a
         /\ DOMAIN g = 1 .. Len(h) + 1 /\ DOMAIN h = 1 .. Len(h) /\ Len(h) \in Nat
         /\ \A i \in DOMAIN h : i \in DOMAIN g /\ g[i] = h[i]
  OBVIOUS

-------------------------------------------------------------------------------
(* After an offer the heap has what it had, the new item at one place p.   *)
(* If anything is given up, the heap is full of what scores no less.       *)
GainsOnly(g, h, a) ==
  \E p \in Nat : \A i \in DOMAIN g :
    IF i = p THEN g[i] = a ELSE i \in DOMAIN h /\ g[i] = h[i]
Spares(s, t, a) ==
  \/ Indices(s.heap) \union {a.index} \subseteq Indices(t.heap)
  \/ /\ Len(s.heap) = s.k /\ Len(t.heap) = s.k
     /\ \E x \in {a, s.heap[1]} :
          /\ x \in Item
          /\ (Indices(s.heap) \union {a.index}) \ {x.index} \subseteq Indices(t.heap)
          /\ \A i \in DOMAIN t.heap : x.score <= t.heap[i].score

(* A sound selection that is not sifting stays sound when it is offered an *)
(* item.                                                                   *)
LEMMA OfferKeeps ==
  ASSUME NEW s \in Selection, Sound(s), s.root = 0, s.k > 0, NEW a \in Item,
         NEW b \in BOOLEAN, NEW t, t = Offer(s, a, b)
  PROVE  /\ t \in Selection /\ t.k = s.k /\ Sound(t)
         /\ Len(t.heap) <= Len(s.heap) + 1
         /\ GainsOnly(t.heap, s.heap, a) /\ Spares(s, t, a)
<1>1. PICK h \in Seq(Item), k \in Nat : h = s.heap /\ k = s.k /\ k > 0
  BY Parts
<1>2. /\ Len(h) \in Nat /\ DOMAIN h = 1 .. Len(h)
      /\ \A i \in DOMAIN h : h[i] \in Item /\ h[i].score \in Int
  BY Items
<1>3. t \in Selection /\ t.k = s.k /\ Sound(t)
  BY OfferCases
<1>4. \/ Len(h) < k /\ t.heap = Append(h, a)
      \/ /\ Len(h) = k /\ Len(t.heap) = k /\ t.heap[1] = a
         /\ \A j \in DOMAIN h : j # 1 => t.heap[j] = h[j]
         /\ h[1].score <= a.score
         /\ \A i \in DOMAIN h : h[1].score <= h[i].score
      \/ /\ Len(h) = k /\ t = s
         /\ \A i \in DOMAIN h : a.score <= h[i].score
  BY <1>1, OfferCases
<1>5. PICK g : g = t.heap
  OBVIOUS
<1>6. CASE Len(h) < k /\ t.heap = Append(h, a)
  <2>1. PICK p \in Nat : p = Len(h) + 1
    BY <1>2
  <2>2. /\ Len(g) = p /\ g[p] = a /\ p \in DOMAIN g
        /\ \A i \in DOMAIN h : i \in DOMAIN g /\ g[i] = h[i]
        /\ \A i \in DOMAIN g : i # p => i \in DOMAIN h /\ g[i] = h[i]
    <3> DEFINE E == Item
    <3>1. h \in Seq(E) /\ a \in E /\ g = Append(h, a)
      BY <1>5, <1>6
    <3> HIDE DEF E
    <3>2. /\ Len(g) = p /\ g[p] = a /\ DOMAIN g = 1 .. p
          /\ \A i \in DOMAIN h : i \in DOMAIN g /\ g[i] = h[i]
      BY <2>1, <3>1, Appended
    <3>3. \A i \in 1 .. p : i # p => i \in 1 .. Len(h)
      BY <1>2, <2>1
    <3>4. p \in 1 .. p
      BY <1>2, <2>1
    <3> QED
      BY <1>2, <3>2, <3>3, <3>4
  <2>3. Indices(h) \union {a.index} \subseteq Indices(g)
    <3>1. a.index \in Indices(g)
      BY <2>2 DEF Indices
    <3>2. \A d \in Indices(h) : d \in Indices(g)
      BY <2>2 DEF Indices
    <3> QED
      BY <3>1, <3>2
  <2>4. Len(g) <= Len(h) + 1
    BY <1>2, <2>1, <2>2
  <2>5. \A i \in DOMAIN g : IF i = p THEN g[i] = a ELSE i \in DOMAIN h /\ g[i] = h[i]
    BY <2>2
  <2> QED
    BY <1>1, <1>3, <1>5, <2>1, <2>3, <2>4, <2>5 DEF GainsOnly, Spares
<1>7. CASE /\ Len(h) = k /\ Len(t.heap) = k /\ t.heap[1] = a
           /\ \A j \in DOMAIN h : j # 1 => t.heap[j] = h[j]
           /\ h[1].score <= a.score
           /\ \A i \in DOMAIN h : h[1].score <= h[i].score
  <2>1. 1 \in DOMAIN h
    BY <1>1, <1>2, <1>7
  <2>2. /\ Len(g) = Len(h) /\ DOMAIN g = DOMAIN h /\ g[1] = a
        /\ \A i \in DOMAIN h : i # 1 => g[i] = h[i]
    <3>1. g \in Seq(Item)
      BY <1>3, <1>5, Parts
    <3>2. DOMAIN g = 1 .. Len(g)
      BY <3>1, Items
    <3> QED
      BY <1>2, <1>5, <1>7, <3>2
  <2>3. PICK x : x = h[1]
    OBVIOUS
  <2>4. (Indices(h) \union {a.index}) \ {x.index} \subseteq Indices(g)
    <3>1. a.index \in Indices(g)
      BY <2>1, <2>2 DEF Indices
    <3>2. ASSUME NEW d \in Indices(h), d # x.index PROVE d \in Indices(g)
      <4>1. PICK i \in DOMAIN h : d = h[i].index
        BY DEF Indices
      <4>2. i # 1
        BY <2>3, <3>2, <4>1
      <4> QED
        BY <2>2, <4>1, <4>2 DEF Indices
    <3> QED
      BY <3>1, <3>2
  <2>5. \A i \in DOMAIN g : x.score <= g[i].score
    BY <1>7, <2>2, <2>3
  <2>6. x \in {a, h[1]} /\ x \in Item
    BY <1>2, <2>1, <2>3
  <2>7. PICK p \in Nat : p = 1
    OBVIOUS
  <2>8. \A i \in DOMAIN g : IF i = p THEN g[i] = a ELSE i \in DOMAIN h /\ g[i] = h[i]
    BY <2>2, <2>7
  <2>9. Len(g) <= Len(h) + 1 /\ Len(h) = s.k /\ Len(g) = s.k
    BY <1>1, <1>2, <1>7, <2>2
  <2> QED
    BY <1>1, <1>3, <1>5, <2>4, <2>5, <2>6, <2>8, <2>9 DEF GainsOnly, Spares
<1>8. CASE /\ Len(h) = k /\ t = s
           /\ \A i \in DOMAIN h : a.score <= h[i].score
  <2>1. g = h
    BY <1>1, <1>5, <1>8
  <2>2. (Indices(h) \union {a.index}) \ {a.index} \subseteq Indices(g)
    BY <2>1
  <2>3. \A i \in DOMAIN g : IF i = 0 THEN g[i] = a ELSE i \in DOMAIN h /\ g[i] = h[i]
    BY <1>2, <2>1
  <2>4. Len(g) <= Len(h) + 1 /\ Len(h) = s.k /\ Len(g) = s.k
    BY <1>1, <1>2, <1>8, <2>1
  <2>5. \A i \in DOMAIN g : a.score <= g[i].score
    BY <1>8, <2>1
  <2> QED
    BY <1>1, <1>3, <1>5, <2>2, <2>3, <2>4, <2>5 DEF GainsOnly, Spares
<1> QED
  BY <1>4, <1>6, <1>7, <1>8

-------------------------------------------------------------------------------
(* The items of h are different documents.                                 *)
Differ(h) == \A i, j \in DOMAIN h : h[i].index = h[j].index => i = j

(* A heap whose items are different documents counts them.                 *)
LEMMA CountIndices ==
  ASSUME NEW h \in Seq(Item), Differ(h)
  PROVE  IsFiniteSet(Indices(h)) /\ Cardinality(Indices(h)) = Len(h)
<1>1. PICK n \in Nat : n = Len(h) /\ DOMAIN h = 1 .. n
  BY Items
<1> DEFINE f == [i \in 1 .. n |-> h[i].index]
<1>2. f \in [1 .. n -> Indices(h)]
  BY <1>1 DEF Indices
<1>3. \A d \in Indices(h) : \E i \in 1 .. n : f[i] = d
  BY <1>1 DEF Indices
<1>4. \A i, j \in 1 .. n : f[i] = f[j] => i = j
  BY <1>1 DEF Differ
<1> HIDE DEF f
<1>5. f \in Bijection(1 .. n, Indices(h))
  BY <1>2, <1>3, <1>4 DEF Bijection, Injection, Surjection, IsInjective
<1>6. ExistsBijection(1 .. n, Indices(h))
  BY <1>5 DEF ExistsBijection
<1> QED
  BY <1>1, <1>6, FS_CountingElements, FS_NatBijection

(* Keeping what was there, there is enough for what is not there.          *)
LEMMA EnoughKept ==
  ASSUME NEW P, IsFiniteSet(P), NEW L, NEW M, L \subseteq M, M \subseteq P,
         NEW score, NEW k \in Nat, Enough(P, L, score, k)
  PROVE  Enough(P, M, score, k)
<1> SUFFICES ASSUME NEW d \in P \ M
             PROVE  Cardinality({x \in M : score[x] >= score[d]}) >= k
  BY DEF Enough
<1>1. PICK A : A = {x \in L : score[x] >= score[d]}
  OBVIOUS
<1>2. PICK B : B = {x \in M : score[x] >= score[d]}
  OBVIOUS
<1>3. A \subseteq B /\ B \subseteq P
  BY <1>1, <1>2
<1>4. Cardinality(A) >= k
  BY <1>1 DEF Enough
<1>5. IsFiniteSet(B) /\ IsFiniteSet(A) /\ Cardinality(A) <= Cardinality(B)
  BY <1>3, FS_Subset
<1>6. Cardinality(A) \in Nat /\ Cardinality(B) \in Nat
  BY <1>5, FS_CardinalityType
<1> QED
  BY <1>2, <1>4, <1>5, <1>6

(* One document may be given up for k that score no less.                  *)
LEMMA EnoughLost ==
  ASSUME NEW P, IsFiniteSet(P), NEW L, NEW M, L \subseteq P, M \subseteq P,
         NEW score, \A d \in P : score[d] \in Int, NEW k \in Nat, Enough(P, L, score, k),
         NEW x \in P, L \ {x} \subseteq M,
         NEW H, H \subseteq M, \A d \in H : score[x] <= score[d], k <= Cardinality(H)
  PROVE  Enough(P, M, score, k)
<1> SUFFICES ASSUME NEW d \in P \ M
             PROVE  Cardinality({y \in M : score[y] >= score[d]}) >= k
  BY DEF Enough
<1>1. PICK B : B = {y \in M : score[y] >= score[d]}
  OBVIOUS
<1>2. IsFiniteSet(B) /\ Cardinality(B) \in Nat
  BY <1>1, FS_Subset, FS_CardinalityType
<1>3. CASE score[d] <= score[x]
  <2>1. \A y \in H : y \in B
    BY <1>1, <1>3
  <2>2. H \subseteq B
    BY <2>1
  <2>3. IsFiniteSet(H) /\ Cardinality(H) <= Cardinality(B)
    BY <1>2, <2>2, FS_Subset
  <2>4. Cardinality(H) \in Nat
    BY <2>3, FS_CardinalityType
  <2> QED
    BY <1>1, <1>2, <2>3, <2>4
<1>4. CASE ~ (score[d] <= score[x])
  <2>1. d \notin L
    BY <1>4
  <2>2. PICK A : A = {y \in L : score[y] >= score[d]}
    OBVIOUS
  <2>3. \A y \in A : y \in B
    BY <1>1, <1>4, <2>2
  <2>4. A \subseteq B /\ Cardinality(A) >= k
    BY <2>1, <2>2, <2>3 DEF Enough
  <2>5. IsFiniteSet(A) /\ Cardinality(A) <= Cardinality(B)
    BY <1>2, <2>4, FS_Subset
  <2>6. Cardinality(A) \in Nat
    BY <2>5, FS_CardinalityType
  <2> QED
    BY <1>1, <1>2, <2>4, <2>5, <2>6
<1> QED
  BY <1>3, <1>4

-------------------------------------------------------------------------------
(* One claimed item goes from the head of a list to place p of a heap.     *)
Moves(T, S, T2, S2, l, w, p) ==
  /\ DOMAIN T2 = DOMAIN T /\ DOMAIN S2 = DOMAIN S /\ 1 \in DOMAIN T[l]
  /\ \A m \in DOMAIN T : \A i \in DOMAIN T2[m] :
       \E j \in DOMAIN T[m] : T2[m][i] = T[m][j] /\ j = IF m = l THEN i + 1 ELSE i
  /\ \A i \in DOMAIN T2[l] : i \in Nat /\ i > 0
  /\ \A v \in DOMAIN S : \A i \in DOMAIN S2[v] :
       IF v = w /\ i = p THEN S2[v][i] = T[l][1]
       ELSE i \in DOMAIN S[v] /\ S2[v][i] = S[v][i]

(* The first item of list l goes to heap w, which becomes g, or nowhere.   *)
LEMMA Moved ==
  ASSUME NEW T, NEW S, NEW l \in DOMAIN T, NEW w \in DOMAIN S,
         \A m \in DOMAIN T : T[m] \in Seq(Item), T[l] # <<>>,
         NEW T2, T2 = [T EXCEPT ![l] = Tail(T[l])],
         NEW g, NEW S2, S2 = [S EXCEPT ![w] = g], NEW p,
         \A i \in DOMAIN g : IF i = p THEN g[i] = T[l][1] ELSE i \in DOMAIN S[w] /\ g[i] = S[w][i]
  PROVE  Moves(T, S, T2, S2, l, w, p)
<1>1. DOMAIN T2 = DOMAIN T /\ T2[l] = Tail(T[l]) /\ \A m \in DOMAIN T : m # l => T2[m] = T[m]
  OBVIOUS
<1>2. DOMAIN S2 = DOMAIN S /\ S2[w] = g /\ \A v \in DOMAIN S : v # w => S2[v] = S[v]
  OBVIOUS
<1>3. PICK h \in Seq(Item) : h = T[l] /\ h # <<>>
  OBVIOUS
<1>4. PICK e : e = Tail(h)
  OBVIOUS
<1>5. /\ 1 \in DOMAIN h
      /\ \A i \in DOMAIN e : i + 1 \in DOMAIN h /\ e[i] = h[i + 1]
      /\ \A i \in DOMAIN e : i \in Nat /\ i > 0
  <2> DEFINE E == Item
  <2>1. h \in Seq(E)
    OBVIOUS
  <2> HIDE DEF E
  <2>2. /\ 1 \in DOMAIN h /\ e \in Seq(E)
        /\ \A i \in DOMAIN e : i + 1 \in DOMAIN h /\ e[i] = h[i + 1]
    BY <1>3, <1>4, <2>1, Tails
  <2>3. DOMAIN e = 1 .. Len(e) /\ Len(e) \in Nat
    BY <2>2, Elements
  <2> QED
    BY <2>2, <2>3
<1>6. ASSUME NEW m \in DOMAIN T, NEW i \in DOMAIN T2[m]
      PROVE  \E j \in DOMAIN T[m] : T2[m][i] = T[m][j] /\ j = IF m = l THEN i + 1 ELSE i
  BY <1>1, <1>3, <1>4, <1>5
<1>7. ASSUME NEW v \in DOMAIN S, NEW i \in DOMAIN S2[v]
      PROVE  IF v = w /\ i = p THEN S2[v][i] = T[l][1]
             ELSE i \in DOMAIN S[v] /\ S2[v][i] = S[v][i]
  BY <1>2
<1> QED
  BY <1>1, <1>2, <1>3, <1>4, <1>5, <1>6, <1>7 DEF Moves

(* Lists and heaps stay apart when an item moves from one to the other.    *)
LEMMA MovedApart ==
  ASSUME NEW T, NEW S, Apart(T, S), NEW l \in DOMAIN T, NEW w \in DOMAIN S, NEW p,
         NEW T2, NEW S2, Moves(T, S, T2, S2, l, w, p)
  PROVE  Apart(T2, S2)
<1>0. /\ DOMAIN T2 = DOMAIN T /\ DOMAIN S2 = DOMAIN S /\ 1 \in DOMAIN T[l]
      /\ \A m \in DOMAIN T : \A i \in DOMAIN T2[m] :
           \E j \in DOMAIN T[m] : T2[m][i] = T[m][j] /\ j = IF m = l THEN i + 1 ELSE i
      /\ \A i \in DOMAIN T2[l] : i \in Nat /\ i > 0
      /\ \A v \in DOMAIN S : \A i \in DOMAIN S2[v] :
           IF v = w /\ i = p THEN S2[v][i] = T[l][1]
           ELSE i \in DOMAIN S[v] /\ S2[v][i] = S[v][i]
  BY DEF Moves
<1>1. \A m, n \in DOMAIN T : \A i \in DOMAIN T[m], j \in DOMAIN T[n] :
        T[m][i].index = T[n][j].index => m = n /\ i = j
  BY DEF Apart, Distinct
<1>2. \A u, v \in DOMAIN S : \A i \in DOMAIN S[u], j \in DOMAIN S[v] :
        S[u][i].index = S[v][j].index => u = v /\ i = j
  BY DEF Apart, Distinct
<1>3. \A m \in DOMAIN T, v \in DOMAIN S : \A i \in DOMAIN T[m], j \in DOMAIN S[v] :
        T[m][i].index # S[v][j].index
  BY DEF Apart
<1>4. Distinct(T2)
  <2> SUFFICES ASSUME NEW m \in DOMAIN T, NEW n \in DOMAIN T,
                      NEW i \in DOMAIN T2[m], NEW j \in DOMAIN T2[n],
                      T2[m][i].index = T2[n][j].index
               PROVE  m = n /\ i = j
    BY <1>0 DEF Distinct
  <2>1. PICK x \in DOMAIN T[m] : T2[m][i] = T[m][x] /\ x = IF m = l THEN i + 1 ELSE i
    BY <1>0
  <2>2. PICK y \in DOMAIN T[n] : T2[n][j] = T[n][y] /\ y = IF n = l THEN j + 1 ELSE j
    BY <1>0
  <2>3. m = n /\ x = y
    BY <1>1, <2>1, <2>2
  <2>4. CASE m = l
    <3>1. i \in Nat /\ j \in Nat /\ i + 1 = j + 1
      BY <1>0, <2>1, <2>2, <2>3, <2>4
    <3> QED
      BY <2>3, <3>1
  <2>5. CASE m # l
    BY <2>1, <2>2, <2>3, <2>5
  <2> QED
    BY <2>4, <2>5
<1>5. Distinct(S2)
  <2> SUFFICES ASSUME NEW u \in DOMAIN S, NEW v \in DOMAIN S,
                      NEW i \in DOMAIN S2[u], NEW j \in DOMAIN S2[v],
                      S2[u][i].index = S2[v][j].index
               PROVE  u = v /\ i = j
    BY <1>0 DEF Distinct
  <2> QED
    BY <1>0, <1>2, <1>3
<1>6. ASSUME NEW m \in DOMAIN T, NEW v \in DOMAIN S,
             NEW i \in DOMAIN T2[m], NEW j \in DOMAIN S2[v]
      PROVE  T2[m][i].index # S2[v][j].index
  <2>1. PICK x \in DOMAIN T[m] : T2[m][i] = T[m][x] /\ x = IF m = l THEN i + 1 ELSE i
    BY <1>0
  <2>2. m = l => x # 1
    BY <1>0, <2>1
  <2>3. CASE v = w /\ j = p
    BY <1>0, <1>1, <2>1, <2>2, <2>3
  <2>4. CASE ~ (v = w /\ j = p)
    BY <1>0, <1>3, <2>1, <2>4
  <2> QED
    BY <2>3, <2>4
<1> QED
  BY <1>0, <1>4, <1>5, <1>6 DEF Apart

-------------------------------------------------------------------------------
(* The order of the results is a strict and, of documents, a total one.    *)
LEMMA BeforeOrders ==
  ASSUME NEW a \in Item, NEW b \in Item
  PROVE  /\ a.score \in Int /\ b.score \in Int
         /\ ~ (Before(a, b) /\ Before(b, a))
         /\ a.index # b.index => Before(a, b) \/ Before(b, a)
         /\ Before(a, b) => a # b /\ b.score <= a.score
  BY DEF Item, Before, Ousts

(* The order of the results is transitive.                                 *)
LEMMA BeforeChains ==
  ASSUME NEW a \in Item, NEW b \in Item, NEW c \in Item, Before(a, b), Before(b, c)
  PROVE  Before(a, c)
  BY DEF Item, Before, Ousts

(* The ranks of different documents are a permutation of their places.     *)
LEMMA RanksPermute ==
  ASSUME NEW h \in Seq(Item), Differ(h)
  PROVE  /\ \A i \in DOMAIN h : Rank(h, i) \in DOMAIN h
         /\ \A i, j \in DOMAIN h : Before(h[i], h[j]) => Rank(h, i) < Rank(h, j)
         /\ \A i, j \in DOMAIN h : Rank(h, i) = Rank(h, j) => i = j
         /\ \A r \in DOMAIN h : \E i \in DOMAIN h : Rank(h, i) = r
<1>1. PICK n \in Nat : n = Len(h) /\ DOMAIN h = 1 .. n
  BY Items
<1>2. \A i \in 1 .. n : h[i] \in Item
  BY <1>1, Items
<1>3. IsFiniteSet(1 .. n) /\ Cardinality(1 .. n) = n
  BY FS_Interval
<1> DEFINE U(i) == {j \in 1 .. n : Before(h[j], h[i]) \/ (h[j] = h[i] /\ j <= i)}
<1>4. \A i \in 1 .. n : Rank(h, i) = Cardinality(U(i))
  BY <1>1 DEF Rank
<1>5. \A i \in 1 .. n : IsFiniteSet(U(i)) /\ Cardinality(U(i)) \in 1 .. n
  <2> SUFFICES ASSUME NEW i \in 1 .. n PROVE IsFiniteSet(U(i)) /\ Cardinality(U(i)) \in 1 .. n
    OBVIOUS
  <2>1. PICK A : A = U(i)
    OBVIOUS
  <2>2. A \subseteq 1 .. n /\ i \in A
    BY <2>1
  <2>3. IsFiniteSet(A) /\ Cardinality(A) <= n
    <3>1. PICK D : D = 1 .. n
      OBVIOUS
    <3>2. IsFiniteSet(D) /\ A \subseteq D /\ Cardinality(D) = n
      BY <1>3, <2>2, <3>1
    <3>3. IsFiniteSet(A) /\ Cardinality(A) <= Cardinality(D)
      BY <3>2, FS_Subset
    <3> QED
      BY <3>2, <3>3
  <2>4. Cardinality(A) \in Nat /\ Cardinality(A) # 0
    BY <2>2, <2>3, FS_CardinalityType, FS_EmptySet
  <2> QED
    BY <2>1, <2>3, <2>4
<1>6. ASSUME NEW i \in 1 .. n, NEW j \in 1 .. n, Before(h[i], h[j])
      PROVE  Cardinality(U(i)) < Cardinality(U(j))
  <2>1. PICK A : A = U(i)
    OBVIOUS
  <2>2. PICK B : B = U(j)
    OBVIOUS
  <2>3. ASSUME NEW x \in A PROVE x \in B
    <3>1. x \in 1 .. n /\ (Before(h[x], h[i]) \/ h[x] = h[i])
      BY <2>1, <2>3
    <3>2. Before(h[x], h[j])
      <4>1. CASE h[x] = h[i]
        BY <1>6, <4>1
      <4>2. CASE Before(h[x], h[i])
        BY <1>2, <1>6, <3>1, <4>2, BeforeChains
      <4> QED
        BY <3>1, <4>1, <4>2
    <3> QED
      BY <2>2, <3>1, <3>2
  <2>4. j \in B /\ j \notin A
    <3>1. h[i] # h[j] /\ ~ Before(h[j], h[i])
      BY <1>2, <1>6, BeforeOrders
    <3> QED
      BY <2>1, <2>2, <3>1
  <2>5. IsFiniteSet(B) /\ A \subseteq B /\ A # B
    BY <1>5, <2>2, <2>3, <2>4
  <2>6. IsFiniteSet(A) /\ Cardinality(A) <= Cardinality(B) /\ Cardinality(A) # Cardinality(B)
    BY <2>5, FS_Subset
  <2>7. Cardinality(A) \in Nat /\ Cardinality(B) \in Nat
    BY <2>5, <2>6, FS_CardinalityType
  <2> QED
    BY <2>1, <2>2, <2>6, <2>7
<1> HIDE DEF U
<1>7. ASSUME NEW i \in 1 .. n, NEW j \in 1 .. n, Rank(h, i) = Rank(h, j)
      PROVE  i = j
  <2>1. ~ Before(h[i], h[j]) /\ ~ Before(h[j], h[i])
    BY <1>4, <1>5, <1>6, <1>7
  <2>2. h[i].index = h[j].index
    BY <1>2, <2>1, BeforeOrders
  <2> QED
    BY <1>1, <2>2 DEF Differ
<1> DEFINE R == [i \in 1 .. n |-> Rank(h, i)]
<1>8. R \in [1 .. n -> 1 .. n] /\ \A i, j \in 1 .. n : R[i] = R[j] => i = j
  BY <1>4, <1>5, <1>7
<1>9. \A r \in 1 .. n : \E i \in 1 .. n : R[i] = r
  <2> HIDE DEF R
  <2>1. R \in Injection(1 .. n, 1 .. n)
    BY <1>8 DEF Injection, IsInjective
  <2>2. R \in Surjection(1 .. n, 1 .. n)
    BY <1>3, <2>1, FS_Injection
  <2> QED
    BY <2>2 DEF Surjection
<1> QED
  BY <1>1, <1>4, <1>5, <1>6, <1>7, <1>9

(* The n items of g are those of h, in the order of the results.           *)
Sorts(g, h, n) ==
  /\ \A r \in 1 .. n : \E i \in 1 .. n : g[r] = h[i]
  /\ \A i \in 1 .. n : \E r \in 1 .. n : g[r] = h[i]
  /\ \A r, q \in 1 .. n : r < q => Before(g[r], g[q])

(* Ranked sorts a heap whose items differ.                                 *)
LEMMA RankedSorts ==
  ASSUME NEW h \in Seq(Item), Differ(h),
         NEW n \in Nat, n = Len(h), NEW g, g = Ranked(h)
  PROVE  Sorts(g, h, n)
<1>1. n \in Nat /\ DOMAIN h = 1 .. n
  BY Items
<1>2. \A i \in 1 .. n : h[i] \in Item
  BY <1>1, Items
<1>3. /\ \A i \in 1 .. n : Rank(h, i) \in 1 .. n
      /\ \A i, j \in 1 .. n : Before(h[i], h[j]) => Rank(h, i) < Rank(h, j)
      /\ \A i, j \in 1 .. n : Rank(h, i) = Rank(h, j) => i = j
      /\ \A r \in 1 .. n : \E i \in 1 .. n : Rank(h, i) = r
  BY <1>1, RanksPermute
<1> DEFINE p(r) == CHOOSE i \in 1 .. n : Rank(h, i) = r
<1>4. \A r \in 1 .. n : p(r) \in 1 .. n /\ Rank(h, p(r)) = r
  BY <1>3
<1>5. DOMAIN g = 1 .. n /\ \A r \in 1 .. n : g[r] = h[p(r)]
  BY <1>1 DEF Ranked
<1> HIDE DEF p
<1>6. ASSUME NEW i \in 1 .. n PROVE \E r \in 1 .. n : g[r] = h[i]
  <2>1. PICK r \in 1 .. n : r = Rank(h, i)
    BY <1>3
  <2>2. p(r) = i
    BY <1>3, <1>4, <2>1
  <2> QED
    BY <1>5, <2>2
<1>7. ASSUME NEW r \in 1 .. n, NEW q \in 1 .. n, r < q PROVE Before(g[r], g[q])
  <2>1. PICK i \in 1 .. n, j \in 1 .. n : i = p(r) /\ j = p(q)
    BY <1>4
  <2>2. Rank(h, i) = r /\ Rank(h, j) = q /\ g[r] = h[i] /\ g[q] = h[j]
    BY <1>4, <1>5, <2>1
  <2>3. ~ Before(h[j], h[i])
    <3>1. Before(h[j], h[i]) => Rank(h, j) < Rank(h, i)
      BY <1>3
    <3> QED
      BY <1>7, <2>2, <3>1
  <2>4. h[i].index # h[j].index
    BY <1>1, <1>7, <2>2 DEF Differ
  <2> QED
    BY <1>2, <2>2, <2>3, <2>4, BeforeOrders
<1>8. \A r \in 1 .. n : \E i \in 1 .. n : g[r] = h[i]
  BY <1>4, <1>5
<1> QED
  BY <1>6, <1>7, <1>8 DEF Sorts

(* What may be in a heap, and what the best m of P are.                    *)
OwnScores(h, P, score) ==
  /\ \A d \in P : score[d] \in Int
  /\ \A i \in DOMAIN h : h[i].index \in P /\ h[i].score = score[h[i].index]
AreBest(res, m, P, score) ==
  /\ \A r \in 1 .. m : /\ res[r].index \in P /\ res[r].score = score[res[r].index]
                       /\ r > 1 => Before(res[r - 1], res[r])
  /\ \A d \in P \ {res[i].index : i \in 1 .. m} : m > 0 => score[d] <= res[m].score

(* The first k of a heap, ranked, are the best of what the heap was filled *)
(* from, if there is enough in it for what is no longer there.             *)
LEMMA BestOf ==
  ASSUME NEW h \in Seq(Item), Differ(h), NEW P, IsFiniteSet(P), NEW score,
         OwnScores(h, P, score), NEW k \in Nat, Enough(P, Indices(h), score, k),
         NEW m, m = Lesser(k, Len(h)), NEW g, g = Ranked(h),
         NEW res, res = [r \in 1 .. m |-> g[r]]
  PROVE  /\ res \in Seq(Item) /\ Len(res) = m /\ DOMAIN res = 1 .. m
         /\ m = Lesser(k, Cardinality(P)) /\ AreBest(res, m, P, score)
<1>0. /\ \A d \in P : score[d] \in Int
      /\ \A i \in DOMAIN h : h[i].index \in P /\ h[i].score = score[h[i].index]
  BY DEF OwnScores
<1>1. PICK n \in Nat : n = Len(h) /\ DOMAIN h = 1 .. n
  BY Items
<1>2. \A i \in 1 .. n : h[i] \in Item
  BY <1>1, Items
<1>3. /\ \A r \in 1 .. n : \E i \in 1 .. n : g[r] = h[i]
      /\ \A i \in 1 .. n : \E r \in 1 .. n : g[r] = h[i]
      /\ \A r, q \in 1 .. n : r < q => Before(g[r], g[q])
  <2>1. n = Len(h)
    BY <1>1
  <2>2. Sorts(g, h, n)
    BY <2>1, RankedSorts
  <2> QED
    BY <2>2 DEF Sorts
<1>4. \A r \in 1 .. n : g[r] \in Item /\ g[r].index \in P /\ g[r].score = score[g[r].index]
  <2> SUFFICES ASSUME NEW r \in 1 .. n
               PROVE  g[r] \in Item /\ g[r].index \in P /\ g[r].score = score[g[r].index]
    OBVIOUS
  <2>1. PICK i \in 1 .. n : g[r] = h[i]
    BY <1>3
  <2>2. i \in DOMAIN h
    BY <1>1
  <2> QED
    BY <1>0, <1>2, <2>1, <2>2
<1>5. m \in Nat /\ m <= n /\ m <= k /\ (m = k \/ m = n)
  BY <1>1 DEF Lesser
<1>6. res \in Seq(Item) /\ Len(res) = m /\ DOMAIN res = 1 .. m
  <2>1. res \in [1 .. m -> Item]
    BY <1>4, <1>5
  <2> QED
    BY <1>5, <2>1, FunSeq
<1>7. \A r \in 1 .. m : /\ res[r].index \in P /\ res[r].score = score[res[r].index]
                        /\ r > 1 => Before(res[r - 1], res[r])
  <2> SUFFICES ASSUME NEW r \in 1 .. m
               PROVE  /\ res[r].index \in P /\ res[r].score = score[res[r].index]
                      /\ r > 1 => Before(res[r - 1], res[r])
    OBVIOUS
  <2>1. r \in 1 .. n /\ res[r] = g[r]
    BY <1>5
  <2>2. ASSUME r > 1 PROVE Before(res[r - 1], res[r])
    <3>1. PICK q \in 1 .. m : q = r - 1
      BY <1>5, <2>2
    <3>2. Before(g[q], g[r])
      BY <1>0, <1>3, <1>5, <2>1, <3>1
    <3> QED
      BY <2>1, <3>1, <3>2
  <2> QED
    BY <1>4, <2>1, <2>2
<1>8. PICK I : I = Indices(h)
  OBVIOUS
<1>9. /\ I \subseteq P /\ IsFiniteSet(I) /\ Cardinality(I) = n
      /\ Cardinality(P) \in Nat /\ n <= Cardinality(P)
  <2>1. I \subseteq P
    BY <1>0, <1>8 DEF Indices
  <2>2. IsFiniteSet(I) /\ Cardinality(I) = n
    BY <1>1, <1>8, CountIndices
  <2>3. Cardinality(I) <= Cardinality(P) /\ Cardinality(P) \in Nat
    BY <2>1, FS_Subset, FS_CardinalityType
  <2> QED
    BY <2>1, <2>2, <2>3
<1>10. ASSUME NEW d \in P \ I
       PROVE  \E A : /\ A = {x \in I : score[x] >= score[d]}
                     /\ Cardinality(A) \in Nat /\ k <= Cardinality(A) /\ Cardinality(A) <= n
  <2>1. PICK A : A = {x \in I : score[x] >= score[d]}
    OBVIOUS
  <2>2. IsFiniteSet(A) /\ Cardinality(A) <= Cardinality(I)
    BY <1>9, <2>1, FS_Subset
  <2>3. Cardinality(A) >= k
    BY <1>8, <1>10, <2>1 DEF Enough
  <2> QED
    BY <1>9, <2>1, <2>2, <2>3, FS_CardinalityType
<1>11. m = Lesser(k, Cardinality(P))
  <2>1. CASE I = P
    BY <1>1, <1>9, <2>1
  <2>2. CASE I # P
    <3>1. PICK d \in P \ I : TRUE
      BY <1>9, <2>2
    <3>2. k <= n
      BY <1>10, <3>1, <1>1
    <3> QED
      BY <1>1, <1>9, <3>2 DEF Lesser
  <2> QED
    BY <2>1, <2>2
<1>12. ASSUME NEW d \in P \ {res[i].index : i \in 1 .. m}, m > 0
       PROVE  score[d] <= res[m].score
  <2>1. m \in 1 .. n /\ m \in 1 .. m /\ res[m] = g[m] /\ g[m].score \in Int
    <3>1. m \in 1 .. n /\ m \in 1 .. m
      BY <1>5, <1>12
    <3> QED
      BY <1>4, <3>1, BeforeOrders
  <2>2. \A r \in 1 .. n : r >= m => g[r].score \in Int /\ g[r].score <= g[m].score
    <3> SUFFICES ASSUME NEW r \in 1 .. n, r >= m
                 PROVE  g[r].score \in Int /\ g[r].score <= g[m].score
      OBVIOUS
    <3>1. CASE r = m
      BY <2>1, <3>1
    <3>2. CASE r # m
      <4>1. Before(g[m], g[r])
        <5>1. m < r
          BY <1>1, <1>5, <3>2
        <5> QED
          BY <1>3, <2>1, <5>1
      <4> QED
        BY <1>4, <2>1, <4>1, BeforeOrders
    <3> QED
      BY <3>1, <3>2
  <2>3. CASE d \in I
    <3>1. PICK i \in 1 .. n : d = h[i].index
      BY <1>1, <1>8, <2>3 DEF Indices
    <3>2. PICK r \in 1 .. n : g[r] = h[i]
      BY <1>3
    <3>3. r >= m /\ score[d] = g[r].score
      <4>1. ~ (r \in 1 .. m)
        BY <1>12, <3>1, <3>2
      <4> QED
        BY <1>0, <1>1, <1>5, <3>1, <3>2, <4>1
    <3> QED
      BY <2>1, <2>2, <3>3
  <2>4. CASE d \notin I
    <3>1. PICK A : /\ A = {x \in I : score[x] >= score[d]}
                   /\ Cardinality(A) \in Nat /\ k <= Cardinality(A)
      BY <1>10, <2>4
    <3> SUFFICES ASSUME g[m].score < score[d] PROVE FALSE
      BY <1>0, <2>1
    <3>2. PICK l \in Nat : l = m - 1
      BY <1>5, <1>12
    <3>3. ASSUME NEW x \in A PROVE \E r \in 1 .. l : g[r].index = x
      <4>1. x \in I /\ score[x] >= score[d]
        BY <3>1
      <4>2. PICK i \in 1 .. n : x = h[i].index
        BY <1>1, <1>8, <4>1 DEF Indices
      <4>3. PICK r \in 1 .. n : g[r] = h[i]
        BY <1>3
      <4>4. score[x] = g[r].score
        BY <1>0, <1>1, <4>2, <4>3
      <4>5. ~ (r >= m)
        BY <1>0, <2>1, <2>2, <4>1, <4>4
      <4>6. r \in 1 .. l
        BY <1>5, <3>2, <4>5
      <4> QED
        BY <4>2, <4>3, <4>6
    <3> DEFINE B == {g[r].index : r \in 1 .. l}
               f == [r \in 1 .. l |-> g[r].index]
    <3>4. f \in [1 .. l -> B] /\ \A x \in B : \E r \in 1 .. l : f[r] = x
      OBVIOUS
    <3>5. A \subseteq B
      BY <3>3
    <3> HIDE DEF f, B
    <3>6. f \in Surjection(1 .. l, B)
      BY <3>4 DEF Surjection
    <3>7. IsFiniteSet(1 .. l) /\ Cardinality(1 .. l) = l
      BY <3>2, FS_Interval
    <3>8. IsFiniteSet(B) /\ Cardinality(B) <= l
      BY <3>6, <3>7, FS_Surjection
    <3>9. Cardinality(A) <= Cardinality(B) /\ Cardinality(B) \in Nat
      BY <3>5, <3>8, FS_Subset, FS_CardinalityType
    <3> QED
      BY <1>5, <3>1, <3>2, <3>8, <3>9
  <2> QED
    BY <2>3, <2>4
<1> QED
  BY <1>6, <1>7, <1>11, <1>12 DEF AreBest

(* What is held before it moves is still held, but for the moved item and  *)
(* what its heap gives up.                                                 *)
StillHeld(T, S, T2, S2, a, h, g) ==
  /\ Held(T) \subseteq Held(T2) \union {a.index}
  /\ Indices(g) \subseteq Held(S2)
  /\ \A x : Indices(h) \ {x} \subseteq Indices(g) => Held(S) \ {x} \subseteq Held(S2)

(* An item moves from list l to heap w, of which g is what becomes.        *)
LEMMA MovedHeld ==
  ASSUME NEW T, NEW S, NEW l \in DOMAIN T, NEW w \in DOMAIN S,
         \A m \in DOMAIN T : T[m] \in Seq(Item), T[l] # <<>>,
         NEW T2, T2 = [T EXCEPT ![l] = Tail(T[l])],
         NEW g, NEW S2, S2 = [S EXCEPT ![w] = g]
  PROVE  StillHeld(T, S, T2, S2, T[l][1], S[w], g)
<1>1. DOMAIN T2 = DOMAIN T /\ T2[l] = Tail(T[l]) /\ \A m \in DOMAIN T : m # l => T2[m] = T[m]
  OBVIOUS
<1>2. DOMAIN S2 = DOMAIN S /\ S2[w] = g /\ \A v \in DOMAIN S : v # w => S2[v] = S[v]
  OBVIOUS
<1>3. PICK h, e : h \in Seq(Item) /\ h = T[l] /\ h # <<>> /\ e = Tail(h)
  OBVIOUS
<1>4. \A i \in DOMAIN h : i = 1 \/ (i - 1 \in DOMAIN e /\ e[i - 1] = h[i])
  <2> DEFINE E == Item
  <2>1. h \in Seq(E)
    BY <1>3
  <2> HIDE DEF E
  <2> QED
    BY <1>3, <2>1
<1>5. ASSUME NEW d \in Held(T), d # T[l][1].index PROVE d \in Held(T2)
  <2>1. PICK m \in DOMAIN T : d \in Indices(T[m])
    BY DEF Held
  <2>2. d \in Indices(T2[m])
    <3>1. CASE m # l
      BY <1>1, <2>1, <3>1
    <3>2. CASE m = l
      <4>1. PICK i \in DOMAIN h : d = h[i].index
        BY <1>3, <2>1, <3>2 DEF Indices
      <4>2. i # 1
        BY <1>3, <1>5, <4>1
      <4>3. PICK j : j = i - 1
        OBVIOUS
      <4>4. j \in DOMAIN e /\ e[j] = h[i]
        BY <1>4, <4>2, <4>3
      <4>5. d \in Indices(e)
        BY <4>1, <4>4 DEF Indices
      <4> QED
        BY <1>1, <1>3, <3>2, <4>5
    <3> QED
      BY <3>1, <3>2
  <2> QED
    BY <1>1, <2>1, <2>2 DEF Held
<1>6. Indices(g) \subseteq Held(S2)
  BY <1>2 DEF Held
<1>7. ASSUME NEW x, Indices(S[w]) \ {x} \subseteq Indices(g), NEW d \in Held(S) \ {x}
      PROVE  d \in Held(S2)
  <2>1. PICK v \in DOMAIN S : d \in Indices(S[v])
    BY DEF Held
  <2>2. CASE v = w
    BY <1>6, <1>7, <2>1, <2>2
  <2>3. CASE v # w
    BY <1>2, <2>1, <2>3 DEF Held
  <2> QED
    BY <2>2, <2>3
<1> QED
  BY <1>5, <1>6, <1>7 DEF StillHeld

-------------------------------------------------------------------------------
(* What a call is about.                                                   *)
LEMMA Requested ==
  ASSUME req \in Requests
  PROVE  /\ req.n \in Nat /\ K \in Nat /\ K <= req.n
         /\ req.n > 0 => K > 0
         /\ req.n = 0 => K = 0
         /\ req.k \in Nat /\ req.k > 0
         /\ req.api \in Modes \union {"search", "flat"}
         /\ IsFiniteSet(Docs) /\ Cardinality(Docs) = req.n
         /\ \A d \in Docs : d \in Nat /\ req.score[d] \in Int
         /\ \A d \in Docs : /\ Scored(d) \in Item /\ Scored(d).index = d
                            /\ Scored(d).score = req.score[d]
<1>1. /\ req.n \in Nat /\ req.k \in Nat /\ req.k # 0 /\ req.score \in [0 .. req.n - 1 -> Int]
      /\ req.api \in Modes \union {"search", "flat"}
  BY RequestsAssumption
<1>2. PICK n \in Nat : n = req.n
  BY <1>1
<1>3. PICK D : D = Docs /\ D = 0 .. n - 1
  BY <1>2 DEF Docs
<1>4. IsFiniteSet(D) /\ Cardinality(D) = n
  <2>1. PICK b \in Int : b = n - 1
    OBVIOUS
  <2>2. PICK a \in Int : a = 0
    OBVIOUS
  <2>3. IsFiniteSet(a .. b) /\ Cardinality(a .. b) = IF a > b THEN 0 ELSE b - a + 1
    BY FS_Interval
  <2> QED
    BY <1>3, <2>1, <2>2, <2>3
<1>5. \A d \in D : d \in Nat /\ req.score[d] \in Int
  BY <1>1, <1>2, <1>3
<1>6. \A d \in D : Scored(d) \in Item /\ Scored(d).index = d /\ Scored(d).score = req.score[d]
  BY <1>5 DEF Scored, Item
<1>7. K \in Nat /\ K <= n /\ (n > 0 => K > 0) /\ (n = 0 => K = 0)
  BY <1>1, <1>2 DEF K, Lesser
<1> QED
  BY <1>1, <1>2, <1>3, <1>4, <1>5, <1>6, <1>7

(* The lists and the selections of a call.                                 *)
LEMMA Lists ==
  ASSUME todo \in Seq(Seq(Item))
  PROVE  /\ Len(todo) \in Nat /\ DOMAIN todo = 1 .. Len(todo)
         /\ \A l \in DOMAIN todo : todo[l] \in Seq(Item)
  BY Elements

(* The selections and their heaps, typed.                                  *)
LEMMA Selections ==
  ASSUME sel \in Seq(Selection)
  PROVE  /\ Len(sel) \in Nat /\ DOMAIN sel = 1 .. Len(sel)
         /\ \A w \in DOMAIN sel : sel[w] \in Selection
         /\ DOMAIN Heaps = DOMAIN sel
         /\ \A w \in DOMAIN sel : Heaps[w] = sel[w].heap /\ Heaps[w] \in Seq(Item)
<1>1. /\ Len(sel) \in Nat /\ DOMAIN sel = 1 .. Len(sel)
      /\ \A w \in DOMAIN sel : sel[w] \in Selection
  BY Elements
<1>2. DOMAIN Heaps = DOMAIN sel /\ \A w \in DOMAIN sel : Heaps[w] = sel[w].heap
  BY DEF Heaps
<1>3. \A w \in DOMAIN sel : Heaps[w] \in Seq(Item)
  BY <1>1, <1>2, Parts
<1> QED
  BY <1>1, <1>2, <1>3

-------------------------------------------------------------------------------
(* A claimed item is offered to a heap: what it is about, then what it     *)
(* leaves true.                                                            *)
LEMMA TakeKeeps ==
  ASSUME ControlInv, ContentInv, NEW w \in DOMAIN sel, Take(w)
  PROVE  ControlInv' /\ ContentInv'
<1>1. /\ at \in Selecting /\ sel[w].root = 0 /\ req \in Requests
      /\ UNCHANGED <<req, at, live, result, pool, oom, scratch>>
  BY DEF Take, ControlInv, SearchTypeOK, Selecting
<1>2. /\ req.n \in Nat /\ req.n > 0 /\ K \in Nat /\ K > 0 /\ IsFiniteSet(Docs)
      /\ Cardinality(Docs) = req.n /\ \A d \in Docs : d \in Nat /\ req.score[d] \in Int
  BY <1>1, Requested DEF ControlInv, PhaseInv
<1>3. HeapInv /\ ItemsInv /\ Apart(todo, Heaps) /\ LostInv /\ PoolInv
  BY <1>1 DEF ContentInv
<1>4. PICK l \in DOMAIN todo :
        /\ Reads(w, l) /\ todo[l] # <<>>
        /\ todo' = [todo EXCEPT ![l] = Tail(todo[l])]
        /\ sel' = [sel EXCEPT ![w] = IF Considered(Head(todo[l]))
                                     THEN Offer(sel[w], Head(todo[l]), ByIndex) ELSE sel[w]]
  BY DEF Take
<1>5. /\ todo \in Seq(Seq(Item)) /\ sel \in Seq(Selection)
      /\ Len(todo) \in Nat /\ DOMAIN todo = 1 .. Len(todo)
      /\ \A m \in DOMAIN todo : todo[m] \in Seq(Item)
  BY Lists DEF ControlInv, SearchTypeOK
<1>6. /\ Len(sel) \in Nat /\ DOMAIN sel = 1 .. Len(sel)
      /\ \A v \in DOMAIN sel : sel[v] \in Selection
      /\ DOMAIN Heaps = DOMAIN sel
      /\ \A v \in DOMAIN sel : Heaps[v] = sel[v].heap /\ Heaps[v] \in Seq(Item)
  BY <1>5, Selections
<1>7. PICK h \in Seq(Item), e \in Seq(Item), a \in Item :
        /\ h = todo[l] /\ e = Tail(h) /\ a = Head(h) /\ a = h[1] /\ 1 \in DOMAIN h
        /\ Len(h) > 0 /\ Len(e) = Len(h) - 1
  <2> DEFINE E == Item
  <2>1. todo[l] \in Seq(E)
    BY <1>4, <1>5
  <2> HIDE DEF E
  <2>2. PICK h \in Seq(E) : h = todo[l] /\ h # <<>>
    BY <1>4, <2>1
  <2>3. /\ Tail(h) \in Seq(E) /\ Len(Tail(h)) = Len(h) - 1 /\ Len(h) > 0
        /\ 1 \in DOMAIN h /\ Head(h) = h[1] /\ h[1] \in E
    BY <2>2, Tails
  <2> QED
    BY <2>2, <2>3 DEF E
<1>8. PICK s \in Selection : s = sel[w] /\ Sound(s) /\ s.root = 0 /\ s.heap = Heaps[w]
  BY <1>1, <1>3, <1>6 DEF HeapInv
<1>9. s.k \in Nat /\ s.heap \in Seq(Item) /\ Len(s.heap) \in Nat
  BY Parts, Items
<1>10. \/ s.k = K
       \/ at = "chunks" /\ l = w /\ Len(s.heap) + Len(h) <= s.k
       \/ at = "merge" /\ s.k = req.n + 1
  BY <1>1, <1>4, <1>7, <1>8 DEF ControlInv, ShapeInv, Reads
<1>11. s.k > 0
  <2>1. Len(h) \in Nat
    BY Items
  <2> QED
    BY <1>2, <1>7, <1>9, <1>10, <2>1
<1>12. PICK t : t = IF Considered(a) THEN Offer(s, a, ByIndex) ELSE s
  OBVIOUS
<1>13. /\ t \in Selection /\ t.k = s.k /\ Sound(t) /\ Len(t.heap) <= Len(s.heap) + 1
       /\ Considered(a) => GainsOnly(t.heap, s.heap, a) /\ Spares(s, t, a)
       /\ ~ Considered(a) => t = s
  <2>1. CASE ~ Considered(a)
    BY <1>8, <1>9, <1>12, <2>1
  <2>2. CASE Considered(a)
    <3>1. PICK b \in BOOLEAN : b = ByIndex
      BY DEF ByIndex
    <3>2. t = Offer(s, a, b)
      BY <1>12, <2>2, <3>1
    <3>3. /\ t \in Selection /\ t.k = s.k /\ Sound(t)
          /\ Len(t.heap) <= Len(s.heap) + 1
          /\ GainsOnly(t.heap, s.heap, a) /\ Spares(s, t, a)
      BY <1>8, <1>11, <3>2, OfferKeeps
    <3> QED
      BY <2>2, <3>3
  <2> QED
    BY <2>1, <2>2
<1>14. PICK p \in Nat : \A i \in DOMAIN t.heap :
         IF i = p THEN Considered(a) /\ t.heap[i] = a
         ELSE i \in DOMAIN s.heap /\ t.heap[i] = s.heap[i]
  <2>1. CASE Considered(a)
    BY <1>13, <2>1 DEF GainsOnly
  <2>2. CASE ~ Considered(a)
    <3>1. DOMAIN s.heap = 1 .. Len(s.heap)
      BY <1>9, Items
    <3>2. \A i \in DOMAIN t.heap : i # 0 /\ i \in DOMAIN s.heap /\ t.heap[i] = s.heap[i]
      BY <1>13, <2>2, <3>1
    <3> QED
      BY <3>2
  <2> QED
    BY <2>1, <2>2
<1>15. /\ sel' = [sel EXCEPT ![w] = t] /\ sel' \in Seq(Selection) /\ Len(sel') = Len(sel)
       /\ DOMAIN sel' = DOMAIN sel /\ sel'[w] = t /\ \A v \in DOMAIN sel : v # w => sel'[v] = sel[v]
  <2>1. sel' = [sel EXCEPT ![w] = t]
    BY <1>4, <1>7, <1>8, <1>12
  <2>2. PICK f : f = sel'
    OBVIOUS
  <2>3. PICK c \in Seq(Selection) : c = sel
    BY <1>5
  <2> DEFINE E == Selection
  <2>4. c \in Seq(E) /\ t \in E /\ w \in DOMAIN c /\ f = [c EXCEPT ![w] = t]
    BY <1>13, <2>1, <2>2, <2>3
  <2> HIDE DEF E
  <2>5. /\ f \in Seq(E) /\ Len(f) = Len(c) /\ DOMAIN f = DOMAIN c
        /\ f[w] = t /\ \A v \in DOMAIN c : v # w => f[v] = c[v]
    BY <2>4, SeqExcept
  <2> QED
    BY <2>1, <2>2, <2>3, <2>5 DEF E
<1>16. /\ todo' = [todo EXCEPT ![l] = e] /\ todo' \in Seq(Seq(Item)) /\ Len(todo') = Len(todo)
       /\ DOMAIN todo' = DOMAIN todo /\ todo'[l] = e
       /\ \A m \in DOMAIN todo : m # l => todo'[m] = todo[m]
  <2>1. todo' = [todo EXCEPT ![l] = e]
    BY <1>4, <1>7
  <2>2. PICK f : f = todo'
    OBVIOUS
  <2>3. PICK c \in Seq(Seq(Item)) : c = todo
    BY <1>5
  <2> DEFINE E == Seq(Item)
  <2>4. c \in Seq(E) /\ e \in E /\ l \in DOMAIN c /\ f = [c EXCEPT ![l] = e]
    BY <2>1, <2>2, <2>3
  <2> HIDE DEF E
  <2>5. /\ f \in Seq(E) /\ Len(f) = Len(c) /\ DOMAIN f = DOMAIN c
        /\ f[l] = e /\ \A v \in DOMAIN c : v # l => f[v] = c[v]
    BY <2>4, SeqExcept
  <2> QED
    BY <2>1, <2>2, <2>3, <2>5 DEF E
<1>17. ControlInv'
  <2>1. SearchTypeOK' /\ PhaseInv'
    BY <1>1, <1>15, <1>16
       DEF ControlInv, SearchTypeOK, PhaseInv, Selecting, scratch, Lesser, K
  <2>2. ShapeInv'
    <3>1. Len(todo') = Len(todo) /\ Len(sel') = Len(sel) /\ at' = at /\ K' = K /\ req' = req
      BY <1>1, <1>15, <1>16 DEF K
    <3>2. ASSUME NEW v \in DOMAIN sel
          PROVE  \/ sel'[v].k = K
                 \/ at = "chunks" /\ Len(sel'[v].heap) + Len(todo'[v]) <= sel'[v].k
                 \/ at = "merge" /\ sel'[v].k = req.n + 1
      <4>1. CASE v = w
        <5>1. Len(h) \in Nat /\ Len(t.heap) \in Nat
          BY <1>13, Parts, Items
        <5>2. sel'[v] = t /\ t.k = s.k
          BY <1>13, <1>15, <4>1
        <5>3. CASE at = "chunks" /\ l = w /\ Len(s.heap) + Len(h) <= s.k
          <6>1. todo'[v] = e
            BY <1>16, <4>1, <5>3
          <6>2. Len(t.heap) + Len(e) <= s.k
            BY <1>7, <1>9, <1>13, <5>1, <5>3
          <6> QED
            BY <5>2, <5>3, <6>1, <6>2
        <5> QED
          BY <1>10, <5>2, <5>3
      <4>2. CASE v # w
        <5>1. \/ sel[v].k = K
              \/ at = "chunks" /\ Len(sel[v].heap) + Len(todo[v]) <= sel[v].k
              \/ at = "merge" /\ sel[v].k = req.n + 1
          BY <1>1 DEF ControlInv, ShapeInv
        <5>2. at = "chunks" => v # l /\ v \in DOMAIN todo
          BY <1>4, <1>5, <1>6, <4>2 DEF Reads, ControlInv, ShapeInv
        <5> QED
          BY <1>15, <1>16, <4>2, <5>1, <5>2
      <4> QED
        BY <4>1, <4>2
    <3> QED
      BY <1>1, <1>15, <3>1, <3>2 DEF ControlInv, ShapeInv
  <2> QED
    BY <2>1, <2>2 DEF ControlInv
<1>18. HeapInv'
  BY <1>3, <1>13, <1>15 DEF HeapInv
(* From here on, lists and heaps are two functions of sequences.           *)
<1>19. PICK T, S, T2, S2, g :
         /\ T = todo /\ S = Heaps /\ T2 = todo' /\ S2 = Heaps' /\ g = t.heap
  OBVIOUS
<1>20. /\ l \in DOMAIN T /\ w \in DOMAIN S /\ T[l] # <<>> /\ T[l][1] = a
       /\ \A m \in DOMAIN T : T[m] \in Seq(Item)
       /\ T2 = [T EXCEPT ![l] = Tail(T[l])] /\ S[w] = s.heap
       /\ g \in Seq(Item)
  BY <1>4, <1>5, <1>6, <1>7, <1>8, <1>13, <1>19, Parts
<1>21. S2 = [S EXCEPT ![w] = g]
  <2>1. S = [v \in DOMAIN sel |-> sel[v].heap] /\ S2 = [v \in DOMAIN sel' |-> sel'[v].heap]
    BY <1>19 DEF Heaps
  <2> QED
    BY <1>15, <1>19, <2>1
<1>22. \A i \in DOMAIN g : IF i = p THEN g[i] = T[l][1] ELSE i \in DOMAIN S[w] /\ g[i] = S[w][i]
  BY <1>14, <1>19, <1>20
<1>23. Moves(T, S, T2, S2, l, w, p)
  BY <1>20, <1>21, <1>22, Moved
<1>24. Apart(T2, S2)
  <2>1. Apart(T, S)
    BY <1>3, <1>19
  <2> QED
    BY <1>20, <1>23, <2>1, MovedApart
<1>25. /\ \A m \in DOMAIN T : \A i \in DOMAIN T[m] :
            /\ T[m][i].index \in Docs /\ T[m][i] = Scored(T[m][i].index)
            /\ Considered(T[m][i]) <=> T[m][i].index \in pool
       /\ \A v \in DOMAIN S : \A i \in DOMAIN S[v] :
            S[v][i].index \in pool /\ S[v][i] = Scored(S[v][i].index)
  BY <1>3, <1>19 DEF ItemsInv
<1>26. a.index \in Docs /\ a = Scored(a.index) /\ (Considered(a) <=> a.index \in pool)
  BY <1>7, <1>19, <1>20, <1>25
<1>27. /\ \A m \in DOMAIN T2 : \A i \in DOMAIN T2[m] :
            /\ T2[m][i].index \in Docs /\ T2[m][i] = Scored(T2[m][i].index)
            /\ Considered(T2[m][i]) <=> T2[m][i].index \in pool
       /\ \A v \in DOMAIN S2 : \A i \in DOMAIN S2[v] :
            S2[v][i].index \in pool /\ S2[v][i] = Scored(S2[v][i].index)
  <2>1. ASSUME NEW m \in DOMAIN T2, NEW i \in DOMAIN T2[m]
        PROVE  /\ T2[m][i].index \in Docs /\ T2[m][i] = Scored(T2[m][i].index)
               /\ Considered(T2[m][i]) <=> T2[m][i].index \in pool
    <3>1. m \in DOMAIN T
      BY <1>23 DEF Moves
    <3>2. PICK j \in DOMAIN T[m] : T2[m][i] = T[m][j]
      BY <1>23, <3>1 DEF Moves
    <3> QED
      BY <1>25, <3>1, <3>2
  <2>2. ASSUME NEW v \in DOMAIN S2, NEW i \in DOMAIN S2[v]
        PROVE  S2[v][i].index \in pool /\ S2[v][i] = Scored(S2[v][i].index)
    <3>1. v \in DOMAIN S
      BY <1>23 DEF Moves
    <3>2. CASE v = w /\ i = p
      <4>1. S2[v][i] = a /\ i \in DOMAIN g
        BY <1>20, <1>21, <1>23, <3>1, <3>2 DEF Moves
      <4>2. Considered(a)
        BY <1>14, <1>19, <3>2, <4>1
      <4> QED
        BY <1>26, <4>1, <4>2
    <3>3. CASE ~ (v = w /\ i = p)
      <4>1. i \in DOMAIN S[v] /\ S2[v][i] = S[v][i]
        BY <1>23, <3>1, <3>3 DEF Moves
      <4> QED
        BY <1>25, <3>1, <4>1
    <3> QED
      BY <3>2, <3>3
  <2> QED
    BY <2>1, <2>2
<1>28. ItemsInv'
  BY <1>1, <1>19, <1>27 DEF ItemsInv, Considered, Passes, Docs, Scored
<1>29. PICK P, L, M, f, k :
         /\ P = pool /\ L = Left /\ M = Left' /\ f = req.score /\ k = K
         /\ P = pool' /\ f = req'.score /\ k = K'
  BY <1>1 DEF K
<1>30. /\ L = P \intersect (Held(T) \union Held(S)) /\ M = P \intersect (Held(T2) \union Held(S2))
       /\ P \subseteq Docs /\ IsFiniteSet(P) /\ \A d \in P : f[d] \in Int
       /\ k \in Nat /\ k > 0 /\ Enough(P, L, f, k)
  <2>1. P \subseteq Docs /\ Enough(P, L, f, k)
    BY <1>3, <1>29 DEF LostInv
  <2>2. IsFiniteSet(P)
    BY <1>2, <2>1, FS_Subset
  <2> QED
    BY <1>2, <1>19, <1>29, <2>1, <2>2 DEF Left
<1>31. /\ Held(T) \subseteq Held(T2) \union {a.index}
       /\ Indices(g) \subseteq Held(S2)
       /\ \A x : Indices(S[w]) \ {x} \subseteq Indices(g) => Held(S) \ {x} \subseteq Held(S2)
  <2>1. StillHeld(T, S, T2, S2, T[l][1], S[w], g)
    BY <1>20, <1>21, MovedHeld
  <2> QED
    BY <1>20, <2>1 DEF StillHeld
<1>32. Enough(P, M, f, k)
  <2>1. CASE Indices(S[w]) \subseteq Indices(g) /\ (a.index \in P => a.index \in Indices(g))
    <3>1. Held(S) \ {a.index} \subseteq Held(S2)
      BY <1>31, <2>1
    <3>2. L \subseteq M
      BY <1>30, <1>31, <2>1, <3>1
    <3> QED
      BY <1>30, <3>2, EnoughKept
  <2>2. CASE /\ Considered(a) /\ Len(s.heap) = s.k /\ Len(t.heap) = s.k
             /\ \E x \in {a, s.heap[1]} :
                  /\ x \in Item
                  /\ (Indices(s.heap) \union {a.index}) \ {x.index} \subseteq Indices(t.heap)
                  /\ \A i \in DOMAIN t.heap : x.score <= t.heap[i].score
    <3>1. PICK x \in {a, s.heap[1]} :
            /\ x \in Item
            /\ (Indices(s.heap) \union {a.index}) \ {x.index} \subseteq Indices(g)
            /\ \A i \in DOMAIN g : x.score <= g[i].score
      BY <1>19, <2>2
    <3>2. x.index \in P /\ x = Scored(x.index)
      <4>1. CASE x = a
        BY <1>26, <1>29, <2>2, <4>1
      <4>2. CASE x = s.heap[1]
        <5>1. 1 \in DOMAIN S[w]
          <6>1. DOMAIN s.heap = 1 .. Len(s.heap)
            BY <1>9, Items
          <6> QED
            BY <1>9, <1>11, <1>20, <2>2, <6>1
        <5> QED
          BY <1>20, <1>25, <1>29, <4>2, <5>1
      <4> QED
        BY <3>1, <4>1, <4>2
    <3>3. PICK y : y = x.index /\ y \in P /\ x.score = f[y]
      BY <1>29, <3>2 DEF Scored
    <3>4. Held(S) \ {y} \subseteq Held(S2)
      BY <1>20, <1>31, <3>1, <3>3
    <3>5. L \ {y} \subseteq M
      BY <1>30, <1>31, <3>1, <3>3, <3>4
    <3>6. PICK H : H = Indices(g)
      OBVIOUS
    <3>7. /\ H \subseteq P
          /\ \A d \in H : f[y] <= f[d]
      <4> SUFFICES ASSUME NEW d \in H PROVE d \in P /\ f[y] <= f[d]
        OBVIOUS
      <4>1. PICK i \in DOMAIN g : d = g[i].index
        BY <3>6 DEF Indices
      <4>2. w \in DOMAIN S2 /\ S2[w] = g
        BY <1>20, <1>21
      <4>3. d \in P /\ g[i] = Scored(d)
        BY <1>27, <1>29, <4>1, <4>2
      <4>4. g[i].score = f[d]
        <5>1. Scored(d).score = req.score[d]
          BY DEF Scored
        <5> QED
          BY <1>29, <4>3, <5>1
      <4> QED
        BY <3>1, <3>3, <4>3, <4>4
    <3>8. H \subseteq M
      BY <1>30, <1>31, <3>6, <3>7
    <3>9. Cardinality(H) = s.k
      <4>1. Differ(g)
        BY <1>20, <1>21, <1>24 DEF Apart, Distinct, Differ
      <4> QED
        BY <1>19, <1>20, <2>2, <3>6, <4>1, CountIndices
    <3>10. s.k = K
      <4>1. CASE at = "chunks" /\ l = w /\ Len(s.heap) + Len(h) <= s.k
        BY <1>7, <1>9, <2>2, <4>1, Items
      <4>2. CASE at = "merge" /\ s.k = req.n + 1
        <5>1. H \subseteq Docs
          BY <1>30, <3>7
        <5>2. Cardinality(H) <= req.n
          BY <1>2, <5>1, FS_Subset
        <5> QED
          BY <1>2, <3>9, <4>2, <5>2
      <4> QED
        BY <1>10, <4>1, <4>2
    <3>11. k \in Nat /\ k <= Cardinality(H)
      <4>1. k = Cardinality(H)
        BY <1>29, <3>9, <3>10
      <4>2. k \in Nat
        BY <1>30
      <4> QED
        BY <4>1, <4>2
    <3>12. L \subseteq P /\ M \subseteq P
      BY <1>30
    <3>13. IsFiniteSet(P) /\ Enough(P, L, f, k) /\ \A d \in P : f[d] \in Int
      BY <1>30
    <3>14. y \in P /\ H \subseteq M /\ \A d \in H : f[y] <= f[d]
      BY <3>3, <3>7, <3>8
    <3> QED
      BY <3>5, <3>11, <3>12, <3>13, <3>14, EnoughLost
  <2>3. CASE ~ Considered(a)
    <3>1. g = S[w] /\ a.index \notin P
      BY <1>13, <1>19, <1>20, <1>26, <1>29, <2>3
    <3> QED
      BY <2>1, <3>1
  <2>4. CASE Considered(a) /\ Indices(s.heap) \union {a.index} \subseteq Indices(t.heap)
    BY <1>19, <1>20, <2>1, <2>4
  <2> QED
    BY <1>13, <2>2, <2>3, <2>4 DEF Spares
<1>33. LostInv'
  <2>1. Docs' = Docs
    BY <1>1 DEF Docs
  <2> QED
    BY <1>29, <1>30, <1>32, <2>1 DEF LostInv
<1>34. PoolInv'
  <2>1. K' = K /\ Due' = Due
    BY <1>1 DEF K, Due, Docs, Passes, Scored
  <2> QED
    BY <1>1, <1>3, <2>1 DEF PoolInv
<1> QED
  BY <1>17, <1>18, <1>19, <1>24, <1>28, <1>33, <1>34 DEF ContentInv

(* A round of a sift moves items within their heap.                        *)
Within(S2, S) ==
  \A v \in DOMAIN S2 : \A i \in DOMAIN S2[v] :
    v \in DOMAIN S /\ \E j \in DOMAIN S[v] : S2[v][i] = S[v][j]

SameHeld(S2, S) == Held(S2) = Held(S)

(* Lists and heaps hold the same documents when one heap is permuted.      *)
LEMMA PermutedHeap ==
  ASSUME NEW T, NEW S, Apart(T, S), NEW w \in DOMAIN S, NEW h, h = S[w],
         NEW g, Permutes(g, h), DOMAIN g = DOMAIN h, NEW S2, S2 = [S EXCEPT ![w] = g]
  PROVE  Apart(T, S2) /\ SameHeld(S2, S) /\ Within(S2, S)
<1>1. DOMAIN S2 = DOMAIN S /\ S2[w] = g /\ \A v \in DOMAIN S : v # w => S2[v] = S[v]
  OBVIOUS
<1>2. PICK m \in [DOMAIN g -> DOMAIN g] :
        \A i \in DOMAIN g : m[m[i]] = i /\ g[i] = S[w][m[i]]
  BY DEF Permutes
<1> DEFINE at2(v, i) == IF v = w THEN m[i] ELSE i
<1>3. ASSUME NEW v \in DOMAIN S, NEW i \in DOMAIN S2[v]
      PROVE  /\ at2(v, i) \in DOMAIN S[v] /\ S2[v][i] = S[v][at2(v, i)]
             /\ at2(v, at2(v, i)) = i
  BY <1>1, <1>2
<1>4. \A v \in DOMAIN S : DOMAIN S2[v] = DOMAIN S[v]
  BY <1>1
<1>5. Held(S2) = Held(S)
  <2>1. ASSUME NEW v \in DOMAIN S PROVE Indices(S2[v]) = Indices(S[v])
    <3>1. ASSUME NEW d \in Indices(S2[v]) PROVE d \in Indices(S[v])
      BY <1>3 DEF Indices
    <3>2. ASSUME NEW d \in Indices(S[v]) PROVE d \in Indices(S2[v])
      <4>1. PICK i \in DOMAIN S[v] : d = S[v][i].index
        BY DEF Indices
      <4>2. PICK j \in DOMAIN S2[v] : S2[v][j] = S[v][i]
        BY <1>1, <1>2
      <4> QED
        BY <4>1, <4>2 DEF Indices
    <3> QED
      BY <3>1, <3>2
  <2> QED
    BY <1>1, <2>1 DEF Held
<1>6. Apart(T, S2)
  <2>1. Distinct(T)
    BY DEF Apart
  <2>2. Distinct(S2)
    <3> SUFFICES ASSUME NEW u \in DOMAIN S, NEW v \in DOMAIN S,
                        NEW i \in DOMAIN S2[u], NEW j \in DOMAIN S2[v],
                        S2[u][i].index = S2[v][j].index
                 PROVE  u = v /\ i = j
      BY <1>1 DEF Distinct
    <3>1. PICK x, y : x = at2(u, i) /\ y = at2(v, j)
      OBVIOUS
    <3>2. x \in DOMAIN S[u] /\ y \in DOMAIN S[v] /\ S[u][x].index = S[v][y].index
      BY <1>3, <3>1
    <3>3. u = v /\ x = y
      BY <3>2 DEF Apart, Distinct
    <3> QED
      BY <1>3, <3>1, <3>3
  <2>3. ASSUME NEW l \in DOMAIN T, NEW v \in DOMAIN S,
               NEW i \in DOMAIN T[l], NEW j \in DOMAIN S2[v]
        PROVE  T[l][i].index # S2[v][j].index
    BY <1>3 DEF Apart
  <2> QED
    BY <1>1, <2>1, <2>2, <2>3 DEF Apart
<1>7. Within(S2, S)
  BY <1>1, <1>3 DEF Within
<1> QED
  BY <1>5, <1>6, <1>7 DEF SameHeld

(* A round of a sift keeps the invariant.                                  *)
LEMMA SiftStepKeeps ==
  ASSUME ControlInv, ContentInv, NEW w \in DOMAIN sel, Sift(w)
  PROVE  ControlInv' /\ ContentInv'
<1>1. /\ at \in Selecting /\ sel[w].root > 0 /\ req \in Requests
      /\ sel' = [sel EXCEPT ![w] = SiftRound(sel[w])]
      /\ UNCHANGED <<req, at, todo, live, result, pool, oom, scratch>>
  BY DEF Sift, ControlInv, SearchTypeOK, Selecting
<1>2. HeapInv /\ ItemsInv /\ Apart(todo, Heaps) /\ LostInv /\ PoolInv
  BY <1>1 DEF ContentInv
<1>3. todo \in Seq(Seq(Item)) /\ sel \in Seq(Selection)
  BY DEF ControlInv, SearchTypeOK
<1>4. /\ Len(sel) \in Nat /\ DOMAIN sel = 1 .. Len(sel)
      /\ \A v \in DOMAIN sel : sel[v] \in Selection
      /\ DOMAIN Heaps = DOMAIN sel
      /\ \A v \in DOMAIN sel : Heaps[v] = sel[v].heap /\ Heaps[v] \in Seq(Item)
  BY <1>3, Selections
<1>5. PICK s, t : /\ s \in Selection /\ s = sel[w] /\ Sound(s) /\ s.root > 0
                  /\ s.heap = Heaps[w] /\ t = SiftRound(s)
  BY <1>1, <1>2, <1>4 DEF HeapInv
<1>6. /\ t \in Selection /\ t.k = s.k /\ Sound(t)
      /\ Len(t.heap) = Len(s.heap) /\ Permutes(t.heap, s.heap)
  BY <1>5, SiftKeeps
<1>7. /\ sel' = [sel EXCEPT ![w] = t] /\ sel' \in Seq(Selection) /\ Len(sel') = Len(sel)
      /\ DOMAIN sel' = DOMAIN sel /\ sel'[w] = t /\ \A v \in DOMAIN sel : v # w => sel'[v] = sel[v]
  <2>1. sel' = [sel EXCEPT ![w] = t]
    BY <1>1, <1>5
  <2>2. PICK f : f = sel'
    OBVIOUS
  <2>3. PICK c \in Seq(Selection) : c = sel
    BY <1>3
  <2> DEFINE E == Selection
  <2>4. c \in Seq(E) /\ t \in E /\ w \in DOMAIN c /\ f = [c EXCEPT ![w] = t]
    BY <1>6, <2>1, <2>2, <2>3
  <2> HIDE DEF E
  <2>5. /\ f \in Seq(E) /\ Len(f) = Len(c) /\ DOMAIN f = DOMAIN c
        /\ f[w] = t /\ \A v \in DOMAIN c : v # w => f[v] = c[v]
    BY <2>4, SeqExcept
  <2> QED
    BY <2>1, <2>2, <2>3, <2>5 DEF E
<1>8. ControlInv'
  <2>1. SearchTypeOK' /\ PhaseInv'
    BY <1>1, <1>7 DEF ControlInv, SearchTypeOK, PhaseInv, Selecting, scratch
  <2>2. ShapeInv'
    <3>1. /\ todo' = todo /\ Len(sel') = Len(sel) /\ at' = at /\ K' = K /\ req' = req
      BY <1>1, <1>7 DEF K
    <3>2. \A v \in DOMAIN sel : sel'[v].k = sel[v].k /\ Len(sel'[v].heap) = Len(sel[v].heap)
      BY <1>5, <1>6, <1>7
    <3> QED
      BY <1>1, <1>7, <3>1, <3>2 DEF ControlInv, ShapeInv
  <2> QED
    BY <2>1, <2>2 DEF ControlInv
<1>9. HeapInv'
  BY <1>2, <1>6, <1>7 DEF HeapInv
<1>10. PICK T, S, S2, g : T = todo /\ T = todo' /\ S = Heaps /\ S2 = Heaps' /\ g = t.heap
  BY <1>1
<1>11. S2 = [S EXCEPT ![w] = g] /\ w \in DOMAIN S /\ S[w] = s.heap
  <2>1. S = [v \in DOMAIN sel |-> sel[v].heap] /\ S2 = [v \in DOMAIN sel' |-> sel'[v].heap]
    BY <1>10 DEF Heaps
  <2> QED
    BY <1>5, <1>7, <1>10, <2>1
<1>12. DOMAIN g = DOMAIN S[w]
  <2>1. DOMAIN g = 1 .. Len(g) /\ DOMAIN s.heap = 1 .. Len(s.heap)
    BY <1>5, <1>6, <1>10, Parts, Items
  <2> QED
    BY <1>6, <1>10, <1>11, <2>1
<1>13. Apart(T, S2) /\ Held(S2) = Held(S) /\ Within(S2, S)
  <2>1. Apart(T, S) /\ Permutes(g, S[w])
    BY <1>2, <1>6, <1>10, <1>11
  <2>2. PICK h : h = S[w] /\ Permutes(g, h) /\ DOMAIN g = DOMAIN h
    BY <1>12, <2>1
  <2>3. w \in DOMAIN S /\ S2 = [S EXCEPT ![w] = g]
    BY <1>11
  <2>4. Apart(T, S2)
    BY <2>1, <2>2, <2>3, PermutedHeap
  <2>5. SameHeld(S2, S)
    BY <2>1, <2>2, <2>3, PermutedHeap
  <2>6. Within(S2, S)
    BY <2>1, <2>2, <2>3, PermutedHeap
  <2> QED
    BY <2>4, <2>5, <2>6 DEF SameHeld
<1>14. ItemsInv'
  <2>1. \A v \in DOMAIN S : \A i \in DOMAIN S[v] :
          S[v][i].index \in pool /\ S[v][i] = Scored(S[v][i].index)
    BY <1>2, <1>10 DEF ItemsInv
  <2>2. \A v \in DOMAIN S2 : \A i \in DOMAIN S2[v] :
          S2[v][i].index \in pool /\ S2[v][i] = Scored(S2[v][i].index)
    BY <1>13, <2>1 DEF Within
  <2> QED
    BY <1>1, <1>2, <1>10, <2>2 DEF ItemsInv, Considered, Passes, Docs, Scored
<1>15. LostInv' /\ PoolInv'
  <2>1. K' = K /\ Due' = Due /\ Docs' = Docs
    BY <1>1 DEF K, Due, Docs, Passes, Scored
  <2>2. Left' = Left
    BY <1>1, <1>10, <1>13 DEF Left
  <2> QED
    BY <1>1, <1>2, <2>1, <2>2 DEF PoolInv, LostInv
<1> QED
  BY <1>8, <1>9, <1>10, <1>13, <1>14, <1>15 DEF ContentInv

-------------------------------------------------------------------------------
(* Selections begin with nothing in their heaps.                           *)
LEMMA FreshIs ==
  ASSUME NEW k \in Nat
  PROVE  /\ Fresh(k) \in Selection /\ Sound(Fresh(k))
         /\ Fresh(k).k = k /\ Fresh(k).heap = <<>> /\ Fresh(k).root = 0
<1>1. PICK E : E = Seq(Item) /\ Selection = [k : Nat, heap : E, from : Nat, root : Nat]
  BY SelectionIs
<1>2. PICK h \in Seq(Item) : h = <<>> /\ Len(h) = 0
  <2> DEFINE D == Item
  <2> HIDE DEF D
  <2>1. <<>> \in Seq(D) /\ Len(<<>>) = 0
    OBVIOUS
  <2> QED
    BY <2>1 DEF D
<1>3. PICK z \in Nat : z = 0
  OBVIOUS
<1>4. Fresh(k) = [k |-> k, heap |-> h, from |-> z, root |-> z]
  BY <1>2, <1>3 DEF Fresh
<1>5. Fresh(k) \in Selection
  BY <1>1, <1>2, <1>4
<1>6. /\ Fresh(k).k = k /\ Fresh(k).heap = h /\ Fresh(k).root = 0 /\ Fresh(k).from = 0
  BY <1>3, <1>4
<1>7. Ordered(h, 0, 0)
  BY <1>2 DEF Ordered
<1>8. Sound(Fresh(k))
  BY <1>2, <1>5, <1>6, <1>7, SoundParts
<1> QED
  BY <1>2, <1>5, <1>6, <1>8

(* The items of lists to be looked at, of which those for P are considered *)
(* (all of them in a merge).                                               *)
Fine(lists, P, all) ==
  \A l \in DOMAIN lists : \A i \in DOMAIN lists[l] :
    /\ lists[l][i].index \in Docs /\ lists[l][i] = Scored(lists[l][i].index)
    /\ (all \/ Passes(lists[l][i])) <=> lists[l][i].index \in P
Empty(S) == S \in Seq(Selection) /\ \A w \in DOMAIN S : S[w].heap = <<>> /\ S[w].root = 0
For(S, bounds) == Len(S) = Len(bounds) /\ \A w \in DOMAIN S : S[w].k = bounds[w]

(* New selections are empty, sound and bound as asked.                     *)
LEMMA SelectStarts ==
  ASSUME NEW bounds \in Seq(Nat), NEW S, S = [w \in DOMAIN bounds |-> Fresh(bounds[w])]
  PROVE  Empty(S) /\ For(S, bounds) /\ \A w \in DOMAIN S : Sound(S[w])
<1>1. PICK n \in Nat : /\ n = Len(bounds) /\ DOMAIN bounds = 1 .. n
                       /\ \A w \in 1 .. n : bounds[w] \in Nat
  OBVIOUS
<1>2. \A w \in 1 .. n : /\ Fresh(bounds[w]) \in Selection /\ Sound(Fresh(bounds[w]))
                        /\ Fresh(bounds[w]).k = bounds[w] /\ Fresh(bounds[w]).heap = <<>>
                        /\ Fresh(bounds[w]).root = 0
  BY <1>1, FreshIs
<1>3. S \in [1 .. n -> Selection]
  BY <1>1, <1>2
<1>4. S \in Seq(Selection) /\ Len(S) = n /\ DOMAIN S = 1 .. n
  BY <1>3, FunSeq
<1>5. \A w \in 1 .. n : S[w] = Fresh(bounds[w])
  BY <1>1
<1> QED
  BY <1>1, <1>2, <1>4, <1>5 DEF Empty, For

(* What is selected from new lists is as the invariant wants it.           *)
LEMMA StartKeeps ==
  ASSUME NEW lists \in Seq(Seq(Item)), NEW bounds \in Seq(Nat),
         todo' = lists, sel' = [w \in DOMAIN bounds |-> Fresh(bounds[w])],
         req' = req, Distinct(lists), Fine(lists, pool', at' = "merge"),
         pool' \subseteq Docs, Enough(pool', pool' \intersect Held(lists), req.score, K), PoolInv'
  PROVE  Empty(sel') /\ For(sel', bounds) /\ ContentInv'
<1>1. PICK S, H : /\ S = sel' /\ H = Heaps' /\ S = [w \in DOMAIN bounds |-> Fresh(bounds[w])]
                  /\ H = [w \in DOMAIN S |-> S[w].heap]
  BY DEF Heaps
<1>2. Empty(S) /\ For(S, bounds) /\ \A w \in DOMAIN S : Sound(S[w])
  BY <1>1, SelectStarts
<1>3. \A w \in DOMAIN H : DOMAIN H[w] = {}
  BY <1>1, <1>2 DEF Empty
<1>4. Held(H) = {} /\ Distinct(H)
  BY <1>3 DEF Held, Indices, Distinct
<1>5. HeapInv'
  BY <1>1, <1>2 DEF HeapInv
<1>6. ItemsInv'
  <2>1. \A l \in DOMAIN lists : \A i \in DOMAIN lists[l] :
          /\ lists[l][i].index \in Docs' /\ lists[l][i] = Scored(lists[l][i].index)'
          /\ Considered(lists[l][i])' <=> lists[l][i].index \in pool'
    BY DEF Fine, Considered, Passes, Docs, Scored
  <2> QED
    BY <1>1, <1>3, <2>1 DEF ItemsInv
<1>7. Apart(todo', H)
  BY <1>3, <1>4 DEF Apart
<1>8. LostInv'
  <2>1. K' = K /\ Docs' = Docs
    BY DEF K, Docs
  <2>2. Left' = pool' \intersect Held(lists)
    BY <1>1, <1>4 DEF Left
  <2> QED
    BY <2>1, <2>2 DEF LostInv
<1> QED
  BY <1>1, <1>2, <1>5, <1>6, <1>7, <1>8 DEF ContentInv

(* One list and one selection for each of some workers.                    *)
LEMMA OneList ==
  ASSUME NEW h \in Seq(Item)
  PROVE  <<h>> \in Seq(Seq(Item)) /\ Held(<<h>>) = Indices(h) /\ (Differ(h) => Distinct(<<h>>))
<1>1. <<h>> \in Seq(Seq(Item)) /\ DOMAIN <<h>> = {1} /\ <<h>>[1] = h
  OBVIOUS
<1>2. PICK T : T = <<h>>
  OBVIOUS
<1>3. Held(T) = Indices(h)
  BY <1>1, <1>2 DEF Held
<1>4. Differ(h) => Distinct(T)
  BY <1>1, <1>2 DEF Differ, Distinct
<1> QED
  BY <1>1, <1>2, <1>3, <1>4

(* The bounds of some workers.                                             *)
LEMMA ManyBounds ==
  ASSUME NEW n \in Nat, NEW k \in Nat, NEW b, b = [w \in 1 .. n |-> k]
  PROVE  b \in Seq(Nat) /\ Len(b) = n /\ DOMAIN b = 1 .. n /\ \A w \in 1 .. n : b[w] = k
  BY FunSeq

(* More documents than twice top_k leave work for two workers.             *)
LEMMA ManyWorkers ==
  ASSUME NEW n \in Nat, req \in Requests, K > 0, ~ StaySerial(n)
  PROVE  WorkersFor(n) \in Nat /\ WorkersFor(n) > 1
<1>1. PICK k \in Nat : k = K /\ k > 0
  BY Requested
<1>2. Workers \in Nat /\ Workers > 1
  BY SearchAssumption DEF StaySerial
<1>3. PICK h \in Nat : h = n \div 2 /\ 2 * h <= n
  BY Halves
<1>4. h > k
  BY <1>1, <1>2, <1>3 DEF StaySerial
<1>5. PICK q \in Nat, r \in Nat : q = n \div k /\ n = k * q + r /\ r < k
  BY <1>1
<1>6. q > 1
  <2>1. q # 0
    BY <1>1, <1>3, <1>4, <1>5
  <2>2. q # 1
    BY <1>1, <1>3, <1>4, <1>5
  <2> QED
    BY <1>5, <2>1, <2>2
<1> QED
  BY <1>1, <1>2, <1>5, <1>6 DEF WorkersFor, Lesser

(* The list of all documents.                                              *)
LEMMA AllDocsAre ==
  ASSUME req \in Requests, NEW h, h = AllDocs
  PROVE  /\ h \in Seq(Item) /\ Len(h) = req.n /\ Indices(h) = Docs /\ Differ(h)
         /\ \A i \in DOMAIN h : h[i].index \in Docs /\ h[i] = Scored(h[i].index)
<1>1. PICK n \in Nat : n = req.n
  BY Requested
<1>2. Docs = 0 .. n - 1
  BY <1>1 DEF Docs
<1>3. \A d \in Docs : Scored(d) \in Item /\ Scored(d).index = d
  BY Requested
<1>4. h = [i \in 1 .. n |-> Scored(i - 1)]
  BY <1>1 DEF AllDocs
<1>5. \A i \in 1 .. n : i - 1 \in Docs
  BY <1>2
<1>6. h \in [1 .. n -> Item] /\ \A i \in 1 .. n : h[i] = Scored(i - 1) /\ h[i].index = i - 1
  BY <1>3, <1>4, <1>5
<1>7. h \in Seq(Item) /\ Len(h) = n /\ DOMAIN h = 1 .. n
  BY <1>6, FunSeq
<1>8. Differ(h)
  BY <1>6, <1>7 DEF Differ
<1>9. Indices(h) = Docs
  <2>1. ASSUME NEW d \in Docs PROVE d \in Indices(h)
    <3>1. PICK i \in 1 .. n : d = i - 1
      <4>1. d + 1 \in 1 .. n /\ d = (d + 1) - 1
        BY <1>2
      <4> QED
        BY <4>1
    <3> QED
      BY <1>6, <1>7, <3>1 DEF Indices
  <2>2. ASSUME NEW d \in Indices(h) PROVE d \in Docs
    BY <1>5, <1>6, <1>7 DEF Indices
  <2> QED
    BY <2>1, <2>2
<1> QED
  BY <1>1, <1>5, <1>6, <1>7, <1>8, <1>9

-------------------------------------------------------------------------------
(* Quotient and remainder.                                                 *)
LEMMA Division ==
  ASSUME NEW n \in Nat, NEW N \in Nat, N > 0
  PROVE  n = N * (n \div N) + (n % N)
  OBVIOUS

(* The chunks of a scan follow one another from the first document to the  *)
(* last.                                                                   *)
LEMMA ChunkBounds ==
  ASSUME req \in Requests
  PROVE  /\ Chunks \in Nat /\ Chunks > 0 /\ ChunkStart(1) = 0
         /\ \A c \in 1 .. Chunks : /\ ChunkSize(c) \in Nat /\ ChunkStart(c) \in Nat
                                   /\ ChunkStart(c + 1) = ChunkStart(c) + ChunkSize(c)
         /\ ChunkStart(Chunks + 1) = req.n
<1>1. PICK n \in Nat, N \in Nat : n = req.n /\ N = Chunks /\ N > 0
  BY Requested, SearchAssumption
<1>2. PICK q \in Nat, r \in Nat : q = n \div N /\ r = n % N /\ n = N * q + r /\ r < N
  <2>1. PICK q \in Nat : q = n \div N
    BY <1>1
  <2>2. PICK r \in Nat : r = n % N /\ r < N
    BY <1>1
  <2>3. n = N * q + r
    BY <1>1, <2>1, <2>2, Division
  <2> QED
    BY <2>1, <2>2, <2>3
<1>3. /\ \A c : ChunkSize(c) = q + IF c <= r THEN 1 ELSE 0
      /\ \A c : ChunkStart(c) = (c - 1) * q + IF c - 1 < r THEN c - 1 ELSE r
  BY <1>1, <1>2 DEF ChunkSize, ChunkStart, Lesser
<1>4. ChunkStart(1) = 0
  <2>1. (1 - 1) * q = 0 /\ (IF 1 - 1 < r THEN 1 - 1 ELSE r) = 0
    BY <1>2
  <2> QED
    BY <1>3, <2>1
<1>5. ASSUME NEW c \in 1 .. N
      PROVE  /\ ChunkSize(c) \in Nat /\ ChunkStart(c) \in Nat
             /\ ChunkStart(c + 1) = ChunkStart(c) + ChunkSize(c)
  <2>1. PICK b \in Nat : b = c - 1 /\ c = b + 1
    BY <1>1
  <2>2. PICK m \in Nat : m = b * q
    BY <2>1
  <2>3. c * q = m + q
    BY <2>1, <2>2
  <2>4. ChunkStart(c) = m + IF b < r THEN b ELSE r
    BY <1>3, <2>1, <2>2
  <2>5. ChunkStart(c + 1) = m + q + IF c < r THEN c ELSE r
    <3>1. (c + 1) - 1 = c
      BY <1>1
    <3> QED
      BY <1>3, <2>3, <3>1
  <2>6. ChunkSize(c) = q + IF c <= r THEN 1 ELSE 0
    BY <1>3
  <2> QED
    BY <1>2, <2>1, <2>4, <2>5, <2>6
<1>6. ChunkStart(N + 1) = n
  <2>1. (N + 1) - 1 = N /\ ~ (N < r)
    BY <1>1, <1>2
  <2> QED
    BY <1>2, <1>3, <2>1
<1> QED
  BY <1>1, <1>4, <1>5, <1>6

(* Every document is in one chunk.                                         *)
LEMMA ChunksAreApart ==
  ASSUME req \in Requests, NEW c \in 1 .. Chunks, NEW e \in 1 .. Chunks, c < e
  PROVE  ChunkStart(c) + ChunkSize(c) <= ChunkStart(e)
<1>1. PICK N \in Nat : N = Chunks
  BY ChunkBounds
<1>2. \A x \in 1 .. N : /\ ChunkSize(x) \in Nat /\ ChunkStart(x) \in Nat
                        /\ ChunkStart(x + 1) = ChunkStart(x) + ChunkSize(x)
  BY <1>1, ChunkBounds
<1> DEFINE T == {x \in (c + 1) .. N : ChunkStart(x) < ChunkStart(c) + ChunkSize(c)}
<1>3. SUFFICES ASSUME T # {} PROVE FALSE
  BY <1>1, <1>2
<1>4. PICK x \in T : \A y \in T : x <= y
  <2>1. T \subseteq Nat
    BY <1>1
  <2> QED
    BY <1>3, <2>1, Least
<1>5. x \in Nat /\ c + 1 <= x /\ x <= N /\ ChunkStart(x) < ChunkStart(c) + ChunkSize(c)
  BY <1>1, <1>4
<1>6. x # c + 1
  BY <1>1, <1>2, <1>5
<1>7. PICK y \in 1 .. N : y = x - 1 /\ c + 1 <= y
  BY <1>1, <1>5, <1>6
<1>8. ChunkStart(x) = ChunkStart(y) + ChunkSize(y)
  <2>1. y + 1 = x
    BY <1>1, <1>5, <1>7
  <2> QED
    BY <1>2, <1>7, <2>1
<1>9. ChunkStart(y) < ChunkStart(c) + ChunkSize(c)
  BY <1>1, <1>2, <1>5, <1>7, <1>8
<1>10. y \in T
  BY <1>1, <1>7, <1>9
<1> QED
  BY <1>1, <1>4, <1>5, <1>7, <1>10

(* No document is between two chunks.                                      *)
LEMMA EveryDocHasChunk ==
  ASSUME req \in Requests, NEW d \in Docs
  PROVE  \E c \in 1 .. Chunks : \E i \in 1 .. ChunkSize(c) : d = ChunkStart(c) + i - 1
<1>1. PICK n \in Nat, N \in Nat : n = req.n /\ N = Chunks /\ N > 0
  BY Requested, ChunkBounds
<1>2. \A x \in 1 .. N : /\ ChunkSize(x) \in Nat /\ ChunkStart(x) \in Nat
                        /\ ChunkStart(x + 1) = ChunkStart(x) + ChunkSize(x)
  BY <1>1, ChunkBounds
<1>3. d \in Nat /\ d < n /\ ChunkStart(1) = 0 /\ ChunkStart(N + 1) = n
  BY <1>1, ChunkBounds DEF Docs
<1> DEFINE T == {x \in 1 .. N : d < ChunkStart(x + 1)}
<1>4. PICK c \in T : \A y \in T : c <= y
  <2>1. N \in T
    BY <1>1, <1>3
  <2>2. T \subseteq Nat
    BY <1>1
  <2>3. T # {}
    BY <2>1
  <2> HIDE DEF T
  <2> QED
    BY <2>2, <2>3, Least
<1>5. c \in 1 .. N /\ d < ChunkStart(c) + ChunkSize(c)
  BY <1>2, <1>4
<1>6. ChunkStart(c) <= d
  <2>1. CASE c = 1
    BY <1>3, <2>1
  <2>2. CASE c # 1
    <3>1. PICK y \in 1 .. N : y = c - 1
      BY <1>1, <1>5, <2>2
    <3>2. y \notin T /\ y + 1 = c
      BY <1>1, <1>4, <1>5, <3>1
    <3> QED
      BY <1>2, <1>3, <1>5, <3>1, <3>2
  <2> QED
    BY <2>1, <2>2
<1>7. PICK s \in Nat, z \in Nat : s = ChunkStart(c) /\ z = ChunkSize(c)
  BY <1>2, <1>5
<1>8. PICK i \in Nat : i = d - s + 1
  BY <1>3, <1>6, <1>7
<1>9. i \in 1 .. z /\ d = s + i - 1
  BY <1>3, <1>5, <1>6, <1>7, <1>8
<1> QED
  BY <1>1, <1>5, <1>7, <1>9

(* The lists of the chunks.                                                *)
LEMMA ChunkLists ==
  ASSUME req \in Requests, NEW T, T = [c \in 1 .. Chunks |-> ChunkDocs(c)]
  PROVE  /\ T \in Seq(Seq(Item)) /\ Len(T) = Chunks /\ DOMAIN T = 1 .. Chunks
         /\ \A c \in 1 .. Chunks : Len(T[c]) = ChunkSize(c)
         /\ \A c \in 1 .. Chunks : \A i \in DOMAIN T[c] :
              T[c][i].index \in Docs /\ T[c][i] = Scored(T[c][i].index)
         /\ Distinct(T) /\ Held(T) = Docs
<1>1. PICK n \in Nat, N \in Nat : n = req.n /\ N = Chunks /\ N > 0
  BY Requested, ChunkBounds
<1>2. /\ \A x \in 1 .. N : /\ ChunkSize(x) \in Nat /\ ChunkStart(x) \in Nat
                           /\ ChunkStart(x + 1) = ChunkStart(x) + ChunkSize(x)
      /\ ChunkStart(N + 1) = n
  BY <1>1, ChunkBounds
<1>3. Docs = 0 .. n - 1 /\ \A d \in Docs : Scored(d) \in Item /\ Scored(d).index = d
  BY <1>1, Requested DEF Docs
<1>4. ASSUME NEW c \in 1 .. N, NEW i \in 1 .. ChunkSize(c)
      PROVE  ChunkStart(c) + i - 1 \in Docs
  <2>1. ChunkStart(c) + ChunkSize(c) <= n
    <3>1. CASE c = N
      BY <1>1, <1>2, <3>1
    <3>2. CASE c # N
      <4>1. N \in 1 .. N /\ c < N
        BY <1>1, <3>2
      <4>2. ChunkStart(c) + ChunkSize(c) <= ChunkStart(N)
        BY <1>1, <4>1, ChunksAreApart
      <4>3. PICK s \in Nat, z \in Nat, r \in Nat, y \in Nat :
              /\ s = ChunkStart(c) /\ z = ChunkSize(c)
              /\ r = ChunkStart(N) /\ y = ChunkSize(N)
        BY <1>2, <4>1
      <4>4. r + y = n /\ s + z <= r
        BY <1>2, <4>1, <4>2, <4>3
      <4>5. s + z <= n
        BY <4>3, <4>4
      <4> QED
        BY <4>3, <4>5
    <3> QED
      BY <3>1, <3>2
  <2> QED
    BY <1>2, <1>3, <2>1
<1>5. ASSUME NEW c \in 1 .. N
      PROVE  /\ T[c] \in Seq(Item) /\ Len(T[c]) = ChunkSize(c) /\ DOMAIN T[c] = 1 .. ChunkSize(c)
             /\ \A i \in 1 .. ChunkSize(c) : /\ T[c][i].index = ChunkStart(c) + i - 1
                                             /\ T[c][i].index \in Docs
                                             /\ T[c][i] = Scored(T[c][i].index)
  <2>1. PICK z, f : z \in Nat /\ z = ChunkSize(c) /\ f = T[c]
    BY <1>2
  <2>2. f = [i \in 1 .. z |-> Scored(ChunkStart(c) + i - 1)]
    BY <1>1, <2>1 DEF ChunkDocs
  <2>3. \A i \in 1 .. z : /\ f[i] = Scored(ChunkStart(c) + i - 1)
                          /\ f[i] \in Item /\ f[i].index = ChunkStart(c) + i - 1
                          /\ f[i].index \in Docs
    BY <1>3, <1>4, <2>1, <2>2
  <2>4. f \in [1 .. z -> Item]
    BY <2>2, <2>3
  <2>5. f \in Seq(Item) /\ Len(f) = z /\ DOMAIN f = 1 .. z
    BY <2>1, <2>4, FunSeq
  <2> QED
    BY <2>1, <2>3, <2>5
<1>6. T \in Seq(Seq(Item)) /\ Len(T) = N /\ DOMAIN T = 1 .. N
  <2>1. PICK E : E = Seq(Item)
    OBVIOUS
  <2>2. T \in [1 .. N -> E]
    BY <1>1, <1>5, <2>1
  <2>3. T \in Seq(E) /\ Len(T) = N /\ DOMAIN T = 1 .. N
    BY <2>2, FunSeq
  <2> QED
    BY <2>1, <2>3
<1>7. Distinct(T)
  <2> SUFFICES ASSUME NEW c \in DOMAIN T, NEW e \in DOMAIN T,
                      NEW i \in DOMAIN T[c], NEW j \in DOMAIN T[e],
                      T[c][i].index = T[e][j].index
               PROVE  c = e /\ i = j
    BY DEF Distinct
  <2>0. c \in 1 .. N /\ e \in 1 .. N
    BY <1>6
  <2>1. PICK s \in Nat, z \in Nat : s = ChunkStart(c) /\ z = ChunkSize(c)
    BY <1>2, <2>0
  <2>2. PICK r \in Nat, y \in Nat : r = ChunkStart(e) /\ y = ChunkSize(e)
    BY <1>2, <2>0
  <2>3. PICK d : d = T[c][i].index /\ d = T[e][j].index
    OBVIOUS
  <2>4. PICK x \in 1 .. z : x = i /\ d = s + x - 1
    <3>1. i \in 1 .. ChunkSize(c) /\ T[c][i].index = ChunkStart(c) + i - 1
      BY <1>5, <2>0
    <3>2. PICK x \in 1 .. z : x = i
      BY <2>1, <3>1
    <3>3. d = s + x - 1
      BY <2>1, <2>3, <3>1, <3>2
    <3> QED
      BY <3>2, <3>3
  <2>5. PICK o \in 1 .. y : o = j /\ d = r + o - 1
    <3>1. j \in 1 .. ChunkSize(e) /\ T[e][j].index = ChunkStart(e) + j - 1
      BY <1>5, <2>0
    <3>2. PICK o \in 1 .. y : o = j
      BY <2>2, <3>1
    <3>3. d = r + o - 1
      BY <2>2, <2>3, <3>1, <3>2
    <3> QED
      BY <3>2, <3>3
  <2>6. ~ (c < e)
    <3> SUFFICES ASSUME c < e PROVE FALSE
      OBVIOUS
    <3>1. ChunkStart(c) + ChunkSize(c) <= ChunkStart(e)
      BY <1>1, <2>0, ChunksAreApart
    <3>2. s + z <= r
      BY <2>1, <2>2, <3>1
    <3>3. s + x - 1 = r + o - 1
      BY <2>4, <2>5
    <3>4. x <= z /\ 1 <= o /\ x \in Nat /\ o \in Nat
      BY <2>1, <2>2, <2>4, <2>5
    <3> QED
      BY <3>2, <3>3, <3>4
  <2>7. ~ (e < c)
    <3> SUFFICES ASSUME e < c PROVE FALSE
      OBVIOUS
    <3>1. ChunkStart(e) + ChunkSize(e) <= ChunkStart(c)
      BY <1>1, <2>0, ChunksAreApart
    <3>2. r + y <= s
      BY <2>1, <2>2, <3>1
    <3>3. s + x - 1 = r + o - 1
      BY <2>4, <2>5
    <3>4. o <= y /\ 1 <= x /\ x \in Nat /\ o \in Nat
      BY <2>1, <2>2, <2>4, <2>5
    <3> QED
      BY <3>2, <3>3, <3>4
  <2>8. c = e
    BY <1>1, <2>0, <2>6, <2>7
  <2>9. s = r
    BY <2>1, <2>2, <2>8
  <2> QED
    BY <2>1, <2>2, <2>4, <2>5, <2>8, <2>9
<1>8. Held(T) = Docs
  <2>1. ASSUME NEW d \in Docs PROVE d \in Held(T)
    <3>1. PICK c \in 1 .. N : \E i \in 1 .. ChunkSize(c) : d = ChunkStart(c) + i - 1
      BY <1>1, EveryDocHasChunk
    <3>2. PICK i \in 1 .. ChunkSize(c) : d = ChunkStart(c) + i - 1
      BY <3>1
    <3>3. d = T[c][i].index /\ i \in DOMAIN T[c]
      BY <1>5, <3>2
    <3>4. d \in Indices(T[c])
      BY <3>3 DEF Indices
    <3> QED
      BY <1>6, <3>4 DEF Held
  <2>2. ASSUME NEW d \in Held(T) PROVE d \in Docs
    <3>1. PICK c \in 1 .. N : d \in Indices(T[c])
      BY <1>6 DEF Held
    <3>2. PICK i \in DOMAIN T[c] : d = T[c][i].index
      BY <3>1 DEF Indices
    <3> QED
      BY <1>5, <3>2
  <2> QED
    BY <2>1, <2>2
<1>9. /\ \A c \in 1 .. Chunks : Len(T[c]) = ChunkSize(c)
      /\ \A c \in 1 .. Chunks : \A i \in DOMAIN T[c] :
           T[c][i].index \in Docs /\ T[c][i] = Scored(T[c][i].index)
  BY <1>1, <1>5
<1> QED
  BY <1>1, <1>6, <1>7, <1>8, <1>9

-------------------------------------------------------------------------------
(* The bitmap of a corpus of n documents has a bit for each.               *)
LEMMA BitmapCovers ==
  ASSUME NEW n \in Nat, n > 0
  PROVE  WordsFor(n) \in Nat /\ WordDocs \in Nat /\ WordDocs * WordsFor(n) >= n
<1>1. PICK W \in Nat, m \in Nat : W = WordDocs /\ W > 0 /\ m = n + W - 1
  BY SearchAssumption
<1>2. PICK q \in Nat : q = m \div W
  BY <1>1
<1>3. PICK r \in Nat : r = m % W /\ r < W
  BY <1>1
<1>4. m = W * q + r
  BY <1>1, <1>2, <1>3, Division
<1>5. W * q >= n
  <2>1. PICK x \in Nat : x = W * q
    BY <1>1
  <2> QED
    BY <1>1, <1>3, <1>4, <2>1
<1>6. WordsFor(n) = q
  BY <1>1, <1>2 DEF WordsFor
<1> QED
  BY <1>1, <1>2, <1>5, <1>6

(* What an ordering of a finite set is.                                    *)
LEMMA Orders ==
  ASSUME NEW D, IsFiniteSet(D), NEW f \in SetToSeqs(D)
  PROVE  /\ Cardinality(D) \in Nat /\ DOMAIN f = 1 .. Cardinality(D)
         /\ \A i \in DOMAIN f : f[i] \in D
         /\ \A i, j \in DOMAIN f : f[i] = f[j] => i = j
         /\ \A d \in D : \E i \in DOMAIN f : f[i] = d
<1>1. PICK n \in Nat : n = Cardinality(D)
  BY FS_CardinalityType
<1>2. f \in [1 .. n -> D] /\ \A i, j \in 1 .. n : i # j => f[i] # f[j]
  BY <1>1 DEF SetToSeqs
<1>3. f \in Injection(1 .. n, D)
  BY <1>2 DEF Injection, IsInjective
<1>4. IsFiniteSet(1 .. n) /\ Cardinality(1 .. n) = n
  BY <1>1, FS_Interval
<1>5. f \in Surjection(1 .. n, D)
  BY <1>1, <1>3, <1>4, FS_Injection
<1>6. \A d \in D : \E i \in 1 .. n : f[i] = d
  BY <1>5 DEF Surjection
<1> QED
  BY <1>1, <1>2, <1>6

(* The candidates, before they are reranked.                               *)
LEMMA CandidatesKeep ==
  ASSUME req' = req, at' \notin Selecting, NEW h \in Seq(Item), todo' = <<h>>, sel' = <<>>,
         Differ(h), \A i \in DOMAIN h : h[i].index \in Docs /\ h[i] = Scored(h[i].index),
         Indices(h) = pool', pool' \subseteq Docs, req.api # "search",
         at' = "rerank" => PoolInv'
  PROVE  ContentInv'
<1>1. PICK T, H : T = todo' /\ H = Heaps' /\ T = <<h>> /\ H = [w \in DOMAIN sel' |-> sel'[w].heap]
  BY DEF Heaps
<1>2. DOMAIN H = {} /\ DOMAIN sel' = {} /\ DOMAIN T = {1} /\ T[1] = h
  BY <1>1
<1>3. Held(T) = Indices(h) /\ Distinct(T)
  BY <1>1, OneList
<1>4. Held(H) = {} /\ Apart(T, H)
  BY <1>2, <1>3 DEF Held, Apart, Distinct
<1>5. HeapInv'
  BY <1>2 DEF HeapInv
<1>6. ItemsInv'
  <2>1. ASSUME NEW i \in DOMAIN h
        PROVE  /\ h[i].index \in Docs' /\ h[i] = Scored(h[i].index)'
               /\ Considered(h[i])' /\ h[i].index \in pool'
    BY DEF Docs, Scored, Considered, Passes, Indices
  <2> QED
    BY <1>1, <1>2, <2>1 DEF ItemsInv
<1>7. LostInv'
  <2>1. Left' = pool' /\ Docs' = Docs
    BY <1>1, <1>3, <1>4 DEF Left, Docs
  <2> QED
    BY <2>1 DEF LostInv, Enough
<1> QED
  BY <1>1, <1>4, <1>5, <1>6, <1>7 DEF ContentInv

(* The candidates, with any allocation failing.                            *)
LEMMA CollectKeeps ==
  ASSUME ControlInv, Collect
  PROVE  ControlInv' /\ ContentInv'
<1>1. /\ at = "collect" /\ req \in Requests /\ req' = req /\ sel' = sel
      /\ result' = result
      /\ req.api \in Modes /\ req.api # "brute" /\ req.query = "good" /\ req.index
      /\ sel = <<>> /\ oom = {}
  BY DEF Collect, Keep, AfterCollect, Goto, ControlInv, SearchTypeOK, PhaseInv, ShapeInv, Selecting
<1>2. /\ req.n \in Nat /\ req.n > 0 /\ K \in Nat /\ K > 0 /\ IsFiniteSet(Docs)
      /\ Cardinality(Docs) = req.n /\ \A d \in Docs : d \in Nat /\ req.score[d] \in Int
      /\ \A d \in Docs : /\ Scored(d) \in Item /\ Scored(d).index = d
  <2>1. req.n > 0
    BY <1>1 DEF ControlInv, PhaseInv
  <2> QED
    BY <1>1, <2>1, Requested
<1>3. req.match \subseteq Docs
  BY <1>1, RequestsAssumption DEF Docs
<1>4. req.match \ Cleared = req.match
  <2>1. PICK b \in Nat : b = WordDocs * WordsFor(req.n) /\ b >= req.n
    BY <1>2, BitmapCovers
  <2>2. \A d \in Cleared : d >= b
    BY <2>1 DEF Cleared
  <2>3. \A d \in req.match : ~ (d >= b)
    BY <1>2, <1>3, <2>1 DEF Docs
  <2> QED
    BY <2>2, <2>3
<1>5. PICK c \in Nat : c = Cardinality(req.match) /\ IsFiniteSet(req.match)
  BY <1>2, <1>3, FS_Subset, FS_CardinalityType
<1>6. Cap \in Nat /\ Cap > 0
  BY SearchAssumption
<1>7. words' \in Nat
  BY <1>2, BitmapCovers DEF Collect, ControlInv, SearchTypeOK, scratch
<1>8. ASSUME NEW n \in Nat, AfterCollect(n), NEW h \in Seq(Item), todo' = <<h>>,
             Differ(h), \A i \in DOMAIN h : h[i].index \in Docs /\ h[i] = Scored(h[i].index),
             Indices(h) = pool', pool' \subseteq req.match,
             oom' = {} => n = Cardinality(pool') /\ n = Lesser(Cap, c)
      PROVE  ControlInv' /\ ContentInv'
  <2>1. at' = IF n < K /\ req.api # "fast" THEN "scan" ELSE "rerank"
    BY <1>8 DEF AfterCollect, Goto
  <2>2. todo' \in Seq(Seq(Item)) /\ Len(todo') = 1
    BY <1>8, OneList
  <2>3. ControlInv'
    <3>1. SearchTypeOK'
      BY <1>1, <1>7, <2>1, <2>2 DEF ControlInv, SearchTypeOK
    <3>2. PhaseInv' /\ ShapeInv'
      BY <1>1, <1>2, <2>1, <2>2 DEF ControlInv, PhaseInv, ShapeInv, Selecting
    <3> QED
      BY <3>1, <3>2 DEF ControlInv
  <2>4. at' = "rerank" => PoolInv'
    <3> SUFFICES ASSUME at' = "rerank" PROVE PoolInv'
      OBVIOUS
    <3>1. K' = K /\ Due' = Due
      BY <1>1 DEF K, Due, Docs, Passes, Scored
    <3>2. oom' = {} => Lesser(K, Cardinality(pool')) = Due
      <4> SUFFICES ASSUME oom' = {} PROVE Lesser(K, Cardinality(pool')) = Due
        OBVIOUS
      <4>1. Cardinality(pool') = n /\ n = Lesser(Cap, c)
        BY <1>8
      <4>2. CASE req.api = "fast"
        BY <1>1, <1>5, <4>1, <4>2 DEF Due
      <4>3. CASE req.api # "fast"
        <5>1. req.api \in {"auto", "tfidf"} /\ ~ (n < K)
          BY <1>1, <2>1, <4>3 DEF Modes
        <5>2. Due = K
          BY <1>1, <5>1 DEF Due
        <5> QED
          BY <1>2, <4>1, <5>1, <5>2 DEF Lesser
      <4> QED
        BY <4>2, <4>3
    <3> QED
      BY <1>1, <1>8, <3>1, <3>2 DEF PoolInv
  <2>5. ContentInv'
    <3>1. at' \notin Selecting /\ sel' = <<>> /\ req.api # "search" /\ pool' \subseteq Docs
      BY <1>1, <1>3, <1>8, <2>1 DEF Selecting, Modes
    <3> QED
      BY <1>1, <1>8, <2>4, <3>1, CandidatesKeep
  <2> QED
    BY <2>3, <2>5
<1>9. CASE Succeeds /\ Keep(req.match)
  <2>1. PICK kept \in SUBSET req.match :
          /\ Cardinality(kept) = Lesser(Cap, c)
          /\ \E order \in SetToSeqs(kept) :
               todo' = <<[i \in DOMAIN order |-> Scored(order[i])]>>
          /\ pool' = IF c <= Cap THEN req.match ELSE kept
          /\ AfterCollect(Cardinality(kept))
    BY <1>5, <1>9 DEF Keep
  <2>2. PICK order \in SetToSeqs(kept) :
          todo' = <<[i \in DOMAIN order |-> Scored(order[i])]>>
    BY <2>1
  <2>3. PICK n \in Nat : n = Cardinality(kept) /\ IsFiniteSet(kept)
    BY <1>5, FS_Subset, FS_CardinalityType
  <2>4. pool' = kept
    <3>1. CASE c <= Cap
      <4>1. Cardinality(kept) = c
        BY <1>5, <1>6, <2>1, <3>1 DEF Lesser
      <4>2. req.match = kept
        BY <1>5, <4>1, FS_Subset
      <4> QED
        BY <2>1, <3>1, <4>2
    <3>2. CASE ~ (c <= Cap)
      BY <2>1, <3>2
    <3> QED
      BY <3>1, <3>2
  <2>5. /\ DOMAIN order = 1 .. n
        /\ \A i \in 1 .. n : order[i] \in kept
        /\ \A i, j \in 1 .. n : order[i] = order[j] => i = j
        /\ \A d \in kept : \E i \in 1 .. n : order[i] = d
    BY <2>3, Orders
  <2>6. PICK h : h = [i \in 1 .. n |-> Scored(order[i])]
    OBVIOUS
  <2>7. \A i \in 1 .. n : /\ h[i] = Scored(order[i]) /\ h[i] \in Item /\ h[i].index = order[i]
                          /\ order[i] \in Docs
    BY <1>2, <1>3, <2>5, <2>6
  <2>8. h \in Seq(Item) /\ DOMAIN h = 1 .. n
    <3>1. h \in [1 .. n -> Item]
      BY <2>6, <2>7
    <3> QED
      BY <2>3, <3>1, FunSeq
  <2>9. Differ(h)
    BY <2>5, <2>7, <2>8 DEF Differ
  <2>10. Indices(h) = kept
    <3>1. ASSUME NEW d \in kept PROVE d \in Indices(h)
      BY <2>5, <2>7, <2>8 DEF Indices
    <3>2. ASSUME NEW d \in Indices(h) PROVE d \in kept
      BY <2>5, <2>7, <2>8 DEF Indices
    <3> QED
      BY <3>1, <3>2
  <2>11. todo' = <<h>>
    BY <2>2, <2>5, <2>6
  <2>12. AfterCollect(n) /\ n = Cardinality(pool') /\ n = Lesser(Cap, c)
    BY <2>1, <2>3, <2>4
  <2>13. \A i \in DOMAIN h : h[i].index \in Docs /\ h[i] = Scored(h[i].index)
    BY <2>7, <2>8
  <2> QED
    BY <1>8, <2>4, <2>8, <2>9, <2>10, <2>11, <2>12, <2>13
<1>10. CASE Fails("collect") /\ pool' = {} /\ todo' = <<(<<>>)>> /\ AfterCollect(0)
  <2>1. PICK h \in Seq(Item) : h = <<>>
    <3> DEFINE D == Item
    <3> HIDE DEF D
    <3>1. <<>> \in Seq(D)
      OBVIOUS
    <3> QED
      BY <3>1 DEF D
  <2>2. PICK n \in Nat : n = 0
    OBVIOUS
  <2>3. DOMAIN h = {} /\ Differ(h) /\ Indices(h) = {}
    BY <2>1 DEF Differ, Indices
  <2>4. oom' # {} /\ todo' = <<h>> /\ AfterCollect(n)
    BY <1>10, <2>1, <2>2 DEF Fails
  <2> QED
    BY <1>8, <1>10, <2>3, <2>4
<1> QED
  BY <1>4, <1>9, <1>10 DEF Collect

-------------------------------------------------------------------------------
(* What a selection has to be started with.                                *)
Startable(T, b, l) ==
  /\ l \in Selecting
  /\ l \in {"serial", "workers"} => Len(T) = 1
  /\ l \in {"serial", "merge"} => Len(b) = 1
  /\ l \in {"workers", "chunks"} => Len(b) > 1
  /\ l = "chunks" => Len(T) = Len(b) /\ req.api \in Modes
  /\ l = "merge" => Len(T) > 1
  /\ \A w \in DOMAIN b : \/ b[w] = K
                         \/ l = "chunks" /\ Len(T[w]) <= b[w]
                         \/ l = "merge" /\ b[w] = req.n + 1

(* The invariant holds when a selection starts.                            *)
LEMMA StartHolds ==
  ASSUME ControlInv, req \in Requests, req.n > 0,
         NEW T \in Seq(Seq(Item)), NEW b \in Seq(Nat), NEW l,
         Select(T, b, l), Startable(T, b, l),
         Distinct(T), Fine(T, pool', l = "merge"),
         pool' \subseteq Docs, Enough(pool', pool' \intersect Held(T), req.score, K), PoolInv'
  PROVE  ControlInv' /\ ContentInv'
<1>1. /\ at' = l /\ req' = req /\ result' = result /\ todo' = T
      /\ sel' = [w \in DOMAIN b |-> Fresh(b[w])] /\ words' = words
  BY DEF Select, Goto, scratch
<1>2. Empty(sel') /\ For(sel', b) /\ ContentInv'
  <2>1. Fine(T, pool', at' = "merge")
    BY <1>1
  <2> QED
    BY <1>1, <2>1, StartKeeps
<1>3. SearchTypeOK'
  BY <1>1, <1>2 DEF ControlInv, SearchTypeOK, Startable, Selecting, Empty
<1>4. PhaseInv'
  BY <1>1 DEF PhaseInv, Startable, Selecting
<1>5. ShapeInv'
  <2>1. K' = K /\ Len(sel') = Len(b) /\ DOMAIN sel' = DOMAIN b
    BY <1>1, <1>2 DEF K, For
  <2>2. \A w \in DOMAIN sel' : sel'[w].k = b[w] /\ Len(sel'[w].heap) = 0
    BY <1>2 DEF Empty, For
  <2>3. ASSUME NEW w \in DOMAIN sel'
        PROVE  \/ sel'[w].k = K
               \/ l = "chunks" /\ Len(sel'[w].heap) + Len(T[w]) <= sel'[w].k
               \/ l = "merge" /\ sel'[w].k = req.n + 1
    <3>1. CASE l = "chunks" /\ Len(T[w]) <= b[w]
      <4>1. Len(T) = Len(b) /\ w \in 1 .. Len(T)
        <5>1. DOMAIN b = 1 .. Len(b)
          BY Elements
        <5> QED
          BY <2>1, <3>1, <5>1 DEF Startable
      <4>2. Len(T[w]) \in Nat
        <5>1. PICK h : h = T[w] /\ h \in Seq(Item)
          BY <4>1, Elements
        <5> QED
          BY <5>1, Items
      <4>3. 0 + Len(T[w]) <= b[w]
        BY <3>1, <4>2
      <4> QED
        BY <2>2, <3>1, <4>3
    <3> QED
      BY <2>1, <2>2, <3>1 DEF Startable
  <2> QED
    BY <1>1, <2>1, <2>3 DEF ShapeInv, Startable, Selecting
<1> QED
  BY <1>2, <1>3, <1>4, <1>5 DEF ControlInv

(* One list, with one selection or with several.                           *)
LEMMA OneListStarts ==
  ASSUME ControlInv, req \in Requests, req.n > 0, NEW h \in Seq(Item),
         \/ Serially(h) \/ (~ StaySerial(Len(h)) /\ InWorkers(h)),
         Differ(h), Fine(<<h>>, pool', FALSE),
         pool' \subseteq Docs, Enough(pool', pool' \intersect Indices(h), req.score, K), PoolInv'
  PROVE  ControlInv' /\ ContentInv'
<1>1. PICK T : T = <<h>>
  OBVIOUS
<1>2. /\ T \in Seq(Seq(Item)) /\ Held(T) = Indices(h) /\ Distinct(T) /\ Len(T) = 1
      /\ Enough(pool', pool' \intersect Held(T), req.score, K)
  BY <1>1, OneList
<1>3. PICK k \in Nat : k = K /\ k > 0
  BY Requested
<1>4. CASE Serially(h)
  <2>1. PICK b \in Seq(Nat) : b = <<K>> /\ Len(b) = 1 /\ DOMAIN b = {1} /\ b[1] = K
    <3>1. <<k>> \in Seq(Nat) /\ Len(<<k>>) = 1 /\ DOMAIN <<k>> = {1} /\ <<k>>[1] = k
      OBVIOUS
    <3>2. PICK b : b = <<k>>
      OBVIOUS
    <3>3. b \in Seq(Nat) /\ b = <<K>> /\ Len(b) = 1 /\ DOMAIN b = {1} /\ b[1] = K
      BY <1>3, <3>1, <3>2
    <3> QED
      BY <3>3
  <2>2. PICK l : l = "serial"
    OBVIOUS
  <2>3. Select(T, b, l) /\ at' = l
    BY <1>1, <1>4, <2>1, <2>2 DEF Serially, Select, Goto
  <2>4. Startable(T, b, l)
    BY <1>2, <2>1, <2>2 DEF Startable, Selecting
  <2>5. Fine(T, pool', l = "merge")
    BY <1>1, <2>2
  <2> QED
    BY <1>2, <2>3, <2>4, <2>5, StartHolds
<1>5. CASE ~ StaySerial(Len(h)) /\ InWorkers(h)
  <2>1. PICK n \in Nat : n = WorkersFor(Len(h)) /\ n > 1
    <3>1. Len(h) \in Nat
      BY Items
    <3> QED
      BY <1>3, <1>5, <3>1, ManyWorkers
  <2>2. PICK b : b = [w \in 1 .. n |-> k]
    OBVIOUS
  <2>3. b \in Seq(Nat) /\ Len(b) = n /\ DOMAIN b = 1 .. n /\ \A w \in 1 .. n : b[w] = K
    BY <1>3, <2>2, ManyBounds
  <2>4. PICK l : l = "workers"
    OBVIOUS
  <2>5. Select(T, b, l) /\ at' = l
    BY <1>1, <1>3, <1>5, <2>1, <2>2, <2>4 DEF InWorkers, Select, Goto
  <2>6. Startable(T, b, l)
    BY <1>2, <2>1, <2>3, <2>4 DEF Startable, Selecting
  <2>7. Fine(T, pool', l = "merge")
    BY <1>1, <2>4
  <2> QED
    BY <1>2, <2>3, <2>4, <2>5, <2>6, <2>7, StartHolds
<1> QED
  BY <1>4, <1>5

(* A call that returns nothing.                                            *)
LEMMA NothingHolds ==
  ASSUME ControlInv, at # "idle", ReturnNothing
  PROVE  ControlInv' /\ ContentInv'
<1>1. /\ at' = "returned" /\ result' = <<>> /\ req' = req /\ todo' = todo
      /\ sel' = sel /\ words' = words /\ req \in Requests
  BY DEF ReturnNothing, work, scratch, ControlInv, SearchTypeOK
<1>2. <<>> \in Seq(Item)
  <2> DEFINE D == Item
  <2> HIDE DEF D
  <2>1. <<>> \in Seq(D)
    OBVIOUS
  <2> QED
    BY <2>1 DEF D
<1>3. SearchTypeOK'
  BY <1>1, <1>2 DEF ControlInv, SearchTypeOK
<1>4. PhaseInv' /\ ShapeInv' /\ ContentInv'
  BY <1>1 DEF PhaseInv, ShapeInv, ContentInv, Selecting
<1> QED
  BY <1>3, <1>4 DEF ControlInv

(* The rerank, with its fallback, keeps the invariant.                     *)
LEMMA RerankKeeps ==
  ASSUME ControlInv, ContentInv, Rerank
  PROVE  ControlInv' /\ ContentInv'
<1>1. /\ at = "rerank" /\ req \in Requests /\ sel = <<>> /\ req.n > 0
      /\ req.api \in Modes /\ req.api # "brute" /\ req.query = "good"
      /\ todo \in Seq(Seq(Item)) /\ Len(todo) = 1
  BY DEF Rerank, ControlInv, SearchTypeOK, PhaseInv, ShapeInv, Selecting
<1>2. ItemsInv /\ Apart(todo, Heaps) /\ LostInv /\ PoolInv
  BY <1>1 DEF ContentInv
<1>3. PICK h \in Seq(Item) : h = todo[1] /\ todo = <<h>> /\ DOMAIN todo = {1}
  <2>1. PICK E : E = Seq(Item)
    OBVIOUS
  <2>2. todo \in Seq(E) /\ Len(todo) = 1
    BY <1>1, <2>1
  <2>3. todo[1] \in E /\ todo = <<todo[1]>> /\ DOMAIN todo = {1}
    BY <2>2
  <2> QED
    BY <2>1, <2>3
<1>4. Differ(h)
  BY <1>2, <1>3 DEF Apart, Distinct, Differ
<1>5. Left = pool \intersect Indices(h)
  <2>1. DOMAIN Heaps = {}
    BY <1>1 DEF Heaps
  <2>2. Held(Heaps) = {}
    BY <2>1 DEF Held
  <2>3. Held(todo) = Indices(h)
    BY <1>3, OneList
  <2> QED
    BY <2>2, <2>3 DEF Left
<1>6. ASSUME Succeeds, pool' = pool, Serially(h) \/ (~ StaySerial(Len(h)) /\ InWorkers(h))
      PROVE  ControlInv' /\ ContentInv'
  <2>1. Fine(<<h>>, pool', FALSE)
    <3>1. PICK T : T = <<h>> /\ T = todo
      BY <1>3
    <3>2. Fine(T, pool', FALSE)
      BY <1>1, <1>2, <1>6, <3>1 DEF Fine, ItemsInv, Considered
    <3> QED
      BY <3>1, <3>2
  <2>2. pool' \subseteq Docs /\ Enough(pool', pool' \intersect Indices(h), req.score, K)
    BY <1>2, <1>5, <1>6 DEF LostInv
  <2>3. PoolInv'
    <3>1. req' = req
      BY <1>6 DEF Serially, InWorkers, Select, Goto
    <3>2. K' = K /\ Due' = Due
      BY <3>1 DEF K, Due, Docs, Passes, Scored
    <3> QED
      BY <1>2, <1>6, <3>1, <3>2 DEF PoolInv, Succeeds
  <2> QED
    BY <1>1, <1>4, <1>6, <2>1, <2>2, <2>3, OneListStarts
<1>7. CASE StaySerial(Len(h)) /\ Succeeds /\ Serially(h) /\ UNCHANGED pool
  BY <1>1, <1>6, <1>7
<1>8. CASE ReturnNothing
  BY <1>1, <1>8, NothingHolds
<1>9. CASE ~ StaySerial(Len(h)) /\ Succeeds /\ InWorkers(h) /\ UNCHANGED pool
  BY <1>1, <1>6, <1>9
<1>10. CASE Fails("rerank") /\ Goto("scan") /\ UNCHANGED <<work, pool, scratch>>
  <2>1. /\ at' = "scan" /\ req' = req /\ result' = result /\ todo' = todo /\ sel' = sel
        /\ words' = words /\ "rerank" \in oom'
    BY <1>10 DEF Fails, Goto, work, scratch
  <2>2. SearchTypeOK'
    BY <1>1, <2>1 DEF ControlInv, SearchTypeOK
  <2>3. PhaseInv' /\ ShapeInv' /\ ContentInv'
    BY <1>1, <2>1 DEF PhaseInv, ShapeInv, ContentInv, Selecting
  <2> QED
    BY <2>2, <2>3 DEF ControlInv
<1> QED
  BY <1>3, <1>7, <1>8, <1>9, <1>10 DEF Rerank

(* The ranking of arrays keeps the invariant.                              *)
LEMMA RankArraysKeeps ==
  ASSUME ControlInv, RankArrays
  PROVE  ControlInv' /\ ContentInv'
<1>1. at = "rank" /\ req \in Requests /\ oom = {} /\ req.api \notin Modes
  BY DEF RankArrays, ControlInv, SearchTypeOK, PhaseInv
<1>2. CASE ReturnNothing
  BY <1>1, <1>2, NothingHolds
<1>3. CASE /\ req.n > 0 /\ (req.api = "search" => req.query # "unsorted")
           /\ pool' = {d \in Docs : Passes(Scored(d))}
           /\ \/ Serially(AllDocs)
              \/ ~ StaySerial(req.n) /\ InWorkers(AllDocs)
  <2>1. PICK h \in Seq(Item) :
          /\ h = AllDocs /\ Len(h) = req.n /\ Indices(h) = Docs /\ Differ(h)
          /\ \A i \in DOMAIN h : h[i].index \in Docs /\ h[i] = Scored(h[i].index)
    BY <1>1, AllDocsAre
  <2>2. Serially(h) \/ (~ StaySerial(Len(h)) /\ InWorkers(h))
    BY <1>3, <2>1
  <2>3. req' = req
    BY <2>2 DEF Serially, InWorkers, Select, Goto
  <2>4. Fine(<<h>>, pool', FALSE)
    <3>0. DOMAIN <<h>> = {1} /\ <<h>>[1] = h
      OBVIOUS
    <3>1. PICK T : T = <<h>>
      OBVIOUS
    <3>2. ASSUME NEW i \in DOMAIN h
          PROVE  /\ h[i].index \in Docs /\ h[i] = Scored(h[i].index)
                 /\ (FALSE \/ Passes(h[i])) <=> h[i].index \in pool'
      BY <1>3, <2>1
    <3>3. Fine(T, pool', FALSE)
      BY <3>0, <3>1, <3>2 DEF Fine
    <3> QED
      BY <3>1, <3>3
  <2>5. pool' \subseteq Docs /\ pool' \intersect Indices(h) = pool'
    BY <1>3, <2>1
  <2>6. Enough(pool', pool' \intersect Indices(h), req.score, K)
    BY <2>5 DEF Enough
  <2>7. PoolInv'
    <3>1. K' = K /\ Due' = Due
      BY <2>3 DEF K, Due, Docs, Passes, Scored
    <3>2. Lesser(K, Cardinality(pool')) = Due
      <4>1. CASE req.api = "search"
        BY <1>3, <4>1 DEF Due
      <4>2. CASE req.api # "search"
        <5>1. /\ req.api = "flat" /\ K \in Nat /\ K <= req.n /\ req.n \in Nat
              /\ Cardinality(Docs) = req.n
          BY <1>1, <4>2, Requested
        <5>2. pool' = Docs /\ Due = K
          BY <1>3, <5>1 DEF Passes, Due
        <5> QED
          BY <5>1, <5>2 DEF Lesser
      <4> QED
        BY <4>1, <4>2
    <3>3. req.api # "fast"
      BY <1>1 DEF Modes
    <3> QED
      BY <2>3, <3>1, <3>2, <3>3 DEF PoolInv
  <2> QED
    BY <1>1, <1>3, <2>1, <2>2, <2>4, <2>5, <2>6, <2>7, OneListStarts
<1> QED
  BY <1>2, <1>3 DEF RankArrays

-------------------------------------------------------------------------------
(* The scan, in chunks or serial, keeps the invariant.                     *)
LEMMA ScanKeeps ==
  ASSUME ControlInv, Scan
  PROVE  ControlInv' /\ ContentInv'
<1>1. /\ at = "scan" /\ pool' = Docs /\ req \in Requests /\ req.n > 0
      /\ req.api \in Modes /\ req.api \notin {"search", "flat"}
  BY DEF Scan, ControlInv, SearchTypeOK, PhaseInv, Modes
<1>2. /\ req.n \in Nat /\ K \in Nat /\ K <= req.n /\ Cardinality(Docs) = req.n
  BY <1>1, Requested
<1>3. ASSUME req' = req, oom \subseteq oom'
      PROVE  PoolInv'
  <2>1. K' = K /\ Due' = Due
    BY <1>3 DEF K, Due, Docs, Passes, Scored
  <2>2. oom' = {} => Due = K
    BY <1>1, <1>3 DEF ControlInv, PhaseInv, Due, Modes
  <2>3. Lesser(K, Cardinality(pool')) = K
    BY <1>1, <1>2 DEF Lesser
  <2>4. ~ (req.api = "fast" /\ "rerank" \notin oom')
    BY <1>1, <1>3 DEF ControlInv, PhaseInv
  <2> QED
    BY <1>3, <2>1, <2>2, <2>3, <2>4 DEF PoolInv
<1>4. CASE Serially(AllDocs) /\ (Succeeds \/ Fails("chunks"))
  <2>1. PICK h \in Seq(Item) :
          /\ h = AllDocs /\ Len(h) = req.n /\ Indices(h) = Docs /\ Differ(h)
          /\ \A i \in DOMAIN h : h[i].index \in Docs /\ h[i] = Scored(h[i].index)
    BY <1>1, AllDocsAre
  <2>2. Serially(h) /\ req' = req /\ at' = "serial"
    BY <1>4, <2>1 DEF Serially, Select, Goto
  <2>3. Fine(<<h>>, pool', FALSE)
    <3>1. DOMAIN <<h>> = {1} /\ <<h>>[1] = h
      OBVIOUS
    <3>2. PICK T : T = <<h>>
      OBVIOUS
    <3>3. \A i \in DOMAIN h : Passes(h[i])
      BY <1>1 DEF Passes
    <3>4. Fine(T, pool', FALSE)
      BY <1>1, <2>1, <3>1, <3>2, <3>3 DEF Fine
    <3> QED
      BY <3>2, <3>4
  <2>4. pool' \subseteq Docs /\ pool' \intersect Indices(h) = pool'
    BY <1>1, <2>1
  <2>5. Enough(pool', pool' \intersect Indices(h), req.score, K)
    BY <2>4 DEF Enough
  <2>6. PoolInv'
    BY <1>3, <1>4, <2>2 DEF Succeeds, Fails
  <2> QED
    BY <1>1, <2>1, <2>2, <2>3, <2>4, <2>5, <2>6, OneListStarts
<1>5. CASE /\ ~ (Chunks = 1 \/ req.n <= ScanLimit) /\ Succeeds
           /\ Select([c \in 1 .. Chunks |-> ChunkDocs(c)],
                     [c \in 1 .. Chunks |-> Lesser(K, ChunkSize(c))], "chunks")
  <2>1. PICK N \in Nat : N = Chunks /\ N > 1
    BY <1>5, SearchAssumption
  <2>2. PICK T : T = [c \in 1 .. Chunks |-> ChunkDocs(c)]
    OBVIOUS
  <2>3. /\ T \in Seq(Seq(Item)) /\ Len(T) = Chunks /\ DOMAIN T = 1 .. Chunks
        /\ \A c \in 1 .. Chunks : Len(T[c]) = ChunkSize(c)
        /\ \A c \in 1 .. Chunks : \A i \in DOMAIN T[c] :
             T[c][i].index \in Docs /\ T[c][i] = Scored(T[c][i].index)
        /\ Distinct(T) /\ Held(T) = Docs
    BY <1>1, <2>2, ChunkLists
  <2>4. PICK b : b = [c \in 1 .. Chunks |-> Lesser(K, ChunkSize(c))]
    OBVIOUS
  <2>5. /\ b \in Seq(Nat) /\ Len(b) = N /\ DOMAIN b = 1 .. N
        /\ \A c \in 1 .. N : b[c] = K \/ ChunkSize(c) <= b[c]
    <3>1. \A c \in 1 .. N : ChunkSize(c) \in Nat
      BY <1>1, <2>1, ChunkBounds
    <3>2. /\ b \in [1 .. N -> Nat]
          /\ \A c \in 1 .. N : b[c] = K \/ ChunkSize(c) <= b[c]
      BY <1>2, <2>1, <2>4, <3>1 DEF Lesser
    <3>3. b \in Seq(Nat) /\ Len(b) = N /\ DOMAIN b = 1 .. N
      BY <3>2, FunSeq
    <3> QED
      BY <3>2, <3>3
  <2>6. PICK l : l = "chunks"
    OBVIOUS
  <2>7. Select(T, b, l) /\ req' = req /\ at' = l
    BY <1>5, <2>2, <2>4, <2>6 DEF Select, Goto
  <2>8. Startable(T, b, l)
    BY <1>1, <2>1, <2>3, <2>5, <2>6 DEF Startable, Selecting
  <2>9. Fine(T, pool', l = "merge")
    BY <1>1, <2>3, <2>6 DEF Fine, Passes
  <2>10. pool' \subseteq Docs /\ Enough(pool', pool' \intersect Held(T), req.score, K)
    BY <1>1, <2>3 DEF Enough
  <2>11. PoolInv'
    BY <1>3, <1>5, <2>7 DEF Succeeds
  <2>12. Distinct(T)
    BY <2>3
  <2> QED
    BY <1>1, <2>3, <2>5, <2>7, <2>8, <2>9, <2>10, <2>11, <2>12, StartHolds
<1> QED
  BY <1>4, <1>5 DEF Scan

(* The lists of a merge are the heaps of the workers.                      *)
LEMMA MergeKeeps ==
  ASSUME ControlInv, ContentInv, Merge
  PROVE  ControlInv' /\ ContentInv'
<1>1. /\ at \in {"workers", "chunks"} /\ req \in Requests /\ req.n > 0
      /\ \A l \in DOMAIN todo : todo[l] = <<>>
      /\ Len(sel) > 1 /\ sel \in Seq(Selection) /\ pool' = pool
      /\ at = "chunks" => req.api \in Modes
  BY DEF Merge, AllTaken, ControlInv, SearchTypeOK, PhaseInv, ShapeInv, Selecting
<1>2. ItemsInv /\ Apart(todo, Heaps) /\ LostInv /\ PoolInv
  BY <1>1 DEF ContentInv, Selecting
<1>3. PICK k \in Nat, n \in Nat : k = K /\ n = req.n
  BY <1>1, Requested
<1>4. PICK T : T = [w \in DOMAIN sel |-> sel[w].heap] /\ T = Heaps
  BY DEF Heaps
<1>5. T \in Seq(Seq(Item)) /\ Len(T) = Len(sel)
  <2>1. PICK z \in Nat : z = Len(sel) /\ DOMAIN sel = 1 .. z
    BY <1>1, Selections
  <2>2. PICK E : E = Seq(Item)
    OBVIOUS
  <2>3. \A w \in 1 .. z : T[w] \in E
    BY <1>1, <1>4, <2>1, <2>2, Selections
  <2>4. T \in [1 .. z -> E]
    BY <1>4, <2>1, <2>3
  <2>5. T \in Seq(E) /\ Len(T) = z
    BY <2>4, FunSeq
  <2> QED
    BY <2>1, <2>2, <2>5
<1>6. Distinct(T) /\ \A b : Fine(T, pool, TRUE)
  BY <1>2, <1>4 DEF Apart, Fine, ItemsInv, LostInv
<1>7. Left = pool \intersect Held(T)
  <2>1. \A l \in DOMAIN todo : DOMAIN todo[l] = {}
    BY <1>1
  <2>2. Held(todo) = {}
    BY <2>1 DEF Held, Indices
  <2> QED
    BY <1>4, <2>2 DEF Left
<1>8. ASSUME NEW s \in Nat, s = k \/ s = n + 1, Select(T, <<s>>, "merge"),
             oom \subseteq oom'
      PROVE  ControlInv' /\ ContentInv'
  <2>1. PICK b \in Seq(Nat) : b = <<s>> /\ Len(b) = 1 /\ DOMAIN b = {1} /\ b[1] = s
    <3>1. <<s>> \in Seq(Nat) /\ Len(<<s>>) = 1 /\ DOMAIN <<s>> = {1} /\ <<s>>[1] = s
      OBVIOUS
    <3> QED
      BY <3>1
  <2>2. PICK l : l = "merge"
    OBVIOUS
  <2>3. Select(T, b, l) /\ req' = req
    BY <1>8, <2>1, <2>2 DEF Select, Goto
  <2>4. Startable(T, b, l)
    BY <1>1, <1>3, <1>5, <1>8, <2>1, <2>2 DEF Startable, Selecting
  <2>5. Distinct(T) /\ Fine(T, pool', l = "merge")
    <3>1. (l = "merge") = TRUE
      BY <2>2
    <3> QED
      BY <1>1, <1>6, <3>1
  <2>6. pool' \subseteq Docs /\ Enough(pool', pool' \intersect Held(T), req.score, K)
    BY <1>1, <1>2, <1>7 DEF LostInv
  <2>7. PoolInv'
    <3>1. K' = K /\ Due' = Due
      BY <2>3 DEF K, Due, Docs, Passes, Scored
    <3> QED
      BY <1>1, <1>2, <1>8, <2>3, <3>1 DEF PoolInv
  <2> QED
    BY <1>1, <1>5, <2>3, <2>4, <2>5, <2>6, <2>7, StartHolds
<1>9. /\ Select(T, <<k>>, "merge") \/ Select(T, <<n + 1>>, "merge")
      /\ oom \subseteq oom'
  BY <1>3, <1>4 DEF Merge, Succeeds, Fails
<1>10. PICK s \in Nat : (s = k \/ s = n + 1) /\ Select(T, <<s>>, "merge")
  <2>1. n + 1 \in Nat
    OBVIOUS
  <2> QED
    BY <1>9, <2>1
<1> QED
  BY <1>8, <1>9, <1>10

-------------------------------------------------------------------------------
(* A call keeps the invariant.                                             *)
LEMMA CallKeeps ==
  ASSUME ControlInv, NEW r \in Requests, Call(r)
  PROVE  ControlInv' /\ ContentInv'
<1>1. /\ at = "idle" /\ req' = r /\ at' = IF r.api \in Modes THEN "query" ELSE "rank"
      /\ todo' = todo /\ sel' = sel /\ result' = result /\ oom' = oom /\ words' = words
  BY DEF Call, work, scratch
<1>2. SearchTypeOK'
  BY <1>1 DEF ControlInv, SearchTypeOK
<1>3. PhaseInv' /\ ShapeInv' /\ ContentInv'
  BY <1>1 DEF ControlInv, PhaseInv, ShapeInv, ContentInv, Selecting
<1> QED
  BY <1>2, <1>3 DEF ControlInv

(* So does the end of a call.                                              *)
LEMMA LeaveKeeps ==
  ASSUME ControlInv, Leave
  PROVE  ControlInv' /\ ContentInv'
<1>1. /\ req' = NoCall /\ at' = "idle" /\ todo' = <<>> /\ sel' = <<>>
      /\ result' = <<>> /\ oom' = {} /\ words' = words
  BY DEF Leave, scratch
<1>2. SearchTypeOK'
  <2>1. \A D : <<>> \in Seq(D)
    OBVIOUS
  <2> QED
    BY <1>1, <2>1 DEF ControlInv, SearchTypeOK
<1>3. PhaseInv' /\ ShapeInv' /\ ContentInv'
  BY <1>1 DEF PhaseInv, ShapeInv, ContentInv, Selecting
<1> QED
  BY <1>2, <1>3 DEF ControlInv

(* A query that begins keeps the invariant.                                *)
LEMMA EnterKeeps ==
  ASSUME ControlInv, EnterBrute \/ EnterIndex
  PROVE  ControlInv' /\ ContentInv'
<1>1. /\ at = "query" /\ req \in Requests /\ req.api \in Modes /\ todo = <<>> /\ sel = <<>>
      /\ oom = {}
  BY DEF EnterBrute, EnterIndex, ControlInv, SearchTypeOK, PhaseInv, ShapeInv, Selecting
<1>2. CASE ReturnNothing
  BY <1>1, <1>2, NothingHolds
<1>3. CASE /\ at' \in {"scan", "collect"} /\ req' = req /\ result' = result /\ oom' = oom
           /\ UNCHANGED <<work, pool, scratch>> /\ req.n > 0
           /\ IF req.api = "brute" THEN req.query # "empty" ELSE req.query = "good"
           /\ at' = "collect" => req.api # "brute" /\ req.index
           /\ at' = "scan" => req.api # "fast"
  <2>1. todo' = todo /\ sel' = sel /\ words' = words
    BY <1>3 DEF work, scratch
  <2>2. SearchTypeOK'
    BY <1>1, <1>3, <2>1 DEF ControlInv, SearchTypeOK
  <2>3. PhaseInv' /\ ShapeInv' /\ ContentInv'
    BY <1>1, <1>3, <2>1 DEF ControlInv, PhaseInv, ShapeInv, ContentInv, Selecting
  <2> QED
    BY <2>2, <2>3 DEF ControlInv
<1>4. CASE EnterBrute
  <2>1. req.n \in Nat
    BY <1>1, Requested
  <2>2. CASE ~ (req.query = "empty" \/ req.n = 0)
    BY <1>1, <1>3, <1>4, <2>1, <2>2 DEF EnterBrute, Goto, Succeeds
  <2> QED
    BY <1>2, <1>4, <2>2 DEF EnterBrute
<1>5. CASE EnterIndex
  <2>1. CASE /\ Succeeds /\ req.n > 0 /\ req.query = "good"
             /\ req.api = "fast" => req.index
             /\ Goto(IF req.index THEN "collect" ELSE "scan")
             /\ UNCHANGED <<work, pool, scratch>>
    BY <1>1, <1>3, <1>5, <2>1 DEF EnterIndex, Goto, Succeeds
  <2>2. CASE req.n > 0 /\ req.query # "empty" /\ ~ Degenerate
    <3>1. req.query = "good" /\ (req.api = "fast" => req.index)
      BY <1>1, <2>2, RequestsAssumption DEF Degenerate
    <3> QED
      BY <1>2, <1>5, <2>1, <2>2, <3>1 DEF EnterIndex
  <2> QED
    BY <1>2, <1>5, <2>2 DEF EnterIndex
<1> QED
  BY <1>4, <1>5

-------------------------------------------------------------------------------
(* What is said of the answers, in a state.                                *)
AnswersRight == BestReturned /\ AnsweredInFull /\ FastStaysInIndex

(* Nothing is said of a call that has not returned.                        *)
LEMMA NotYetReturned ==
  ASSUME at' # "returned"
  PROVE  AnswersRight'
  BY DEF AnswersRight, BestReturned, AnsweredInFull, FastStaysInIndex, Returned

(* An empty answer is right when nothing is due.                           *)
LEMMA NothingAnswers ==
  ASSUME req \in Requests, ReturnNothing, oom' # {} \/ Due = 0
  PROVE  AnswersRight'
<1>1. at' = "returned" /\ result' = <<>> /\ pool' = {} /\ req' = req
  BY DEF ReturnNothing
<1>2. PICK e : e = result' /\ DOMAIN e = {} /\ Len(e) = 0
  BY <1>1
<1>3. BestReturned'
  <2>1. K \in Nat /\ K' = K
    BY <1>1, Requested DEF K
  <2>2. Cardinality({}) = 0
    BY FS_EmptySet
  <2>3. Lesser(K', Cardinality(pool')) = 0
    BY <1>1, <2>1, <2>2 DEF Lesser
  <2> QED
    BY <1>1, <1>2, <2>3 DEF BestReturned
<1>4. AnsweredInFull'
  <2>1. Due' = Due
    BY <1>1 DEF K, Due, Docs, Passes, Scored
  <2> QED
    BY <1>2, <2>1 DEF AnsweredInFull
<1>5. FastStaysInIndex'
  BY <1>2 DEF FastStaysInIndex
<1> QED
  BY <1>3, <1>4, <1>5 DEF AnswersRight

(* No document is due from an empty corpus.                                *)
LEMMA NothingDue ==
  ASSUME req \in Requests, req.n = 0
  PROVE  Due = 0
<1>1. K = 0 /\ IsFiniteSet(Docs) /\ Cardinality(Docs) = 0
  BY Requested
<1>2. Docs = {}
  BY <1>1, FS_EmptySet
<1>3. CASE req.api = "fast"
  <2>1. req.match \subseteq Docs
    BY <1>3, RequestsAssumption DEF Docs, Modes
  <2>2. req.match = {} /\ Cardinality({}) = 0
    BY <1>2, <2>1, FS_EmptySet
  <2>3. Cap \in Nat
    BY SearchAssumption
  <2>4. Lesser(K, Lesser(Cap, Cardinality(req.match))) = 0
    BY <1>1, <2>2, <2>3 DEF Lesser
  <2> QED
    BY <1>3, <2>4 DEF Due
<1>4. CASE req.api = "search"
  <2>1. {d \in Docs : Passes(Scored(d))} = {} /\ Cardinality({}) = 0
    BY <1>2, FS_EmptySet
  <2>2. Lesser(K, Cardinality({d \in Docs : Passes(Scored(d))})) = 0
    BY <1>1, <2>1 DEF Lesser
  <2> QED
    BY <1>4, <2>2 DEF Due
<1>5. CASE req.api \notin {"fast", "search"}
  BY <1>1, <1>5 DEF Due
<1> QED
  BY <1>3, <1>4, <1>5

(* A query that ends before it searches.                                   *)
LEMMA EnterAnswers ==
  ASSUME ControlInv, EnterBrute \/ EnterIndex
  PROVE  AnswersRight'
<1>1. at = "query" /\ req \in Requests /\ req.api \in Modes
  BY DEF EnterBrute, EnterIndex, ControlInv, SearchTypeOK, PhaseInv
<1>3. req.n = 0 => Due = 0
  BY <1>1, NothingDue
<1>4. CASE at' # "returned"
  BY <1>4, NotYetReturned
<1>5. CASE EnterBrute /\ at' = "returned"
  <2>1. ReturnNothing /\ req.api = "brute" /\ (req.query = "empty" \/ req.n = 0)
    BY <1>5 DEF EnterBrute, Goto
  <2>2. Due = 0
    BY <1>3, <2>1 DEF Due
  <2> QED
    BY <1>1, <2>1, <2>2, NothingAnswers
<1>6. CASE EnterIndex /\ at' = "returned"
  <2>1. /\ ReturnNothing /\ req.api # "brute"
        /\ \/ oom' # {} \/ req.n = 0 \/ req.query # "good" \/ (req.api = "fast" /\ ~ req.index)
    BY <1>6 DEF EnterIndex, Goto, Fails, Degenerate
  <2>2. oom' # {} \/ Due = 0
    BY <1>1, <1>3, <2>1 DEF Due, Modes
  <2> QED
    BY <1>1, <2>1, <2>2, NothingAnswers
<1> QED
  BY <1>4, <1>5, <1>6

(* A ranking of arrays that ends before it ranks.                          *)
LEMMA RankArraysAnswers ==
  ASSUME ControlInv, RankArrays
  PROVE  AnswersRight'
<1>1. at = "rank" /\ req \in Requests
  BY DEF RankArrays, ControlInv, SearchTypeOK, PhaseInv
<1>2. CASE /\ req.n = 0 \/ (req.api = "search" /\ req.query = "unsorted")
           /\ ReturnNothing
  <2>1. Due = 0
    <3>1. CASE req.n = 0
      BY <1>1, <3>1, NothingDue
    <3>2. CASE req.api = "search" /\ req.query = "unsorted"
      BY <3>2 DEF Due
    <3> QED
      BY <1>2, <3>1, <3>2
  <2> QED
    BY <1>1, <1>2, <2>1, NothingAnswers
<1>3. CASE at' \in {"serial", "workers"}
  BY <1>3, NotYetReturned
<1> QED
  BY <1>2, <1>3 DEF RankArrays, Serially, InWorkers, Select, Goto

(* A serial rerank without memory.                                         *)
LEMMA RerankAnswers ==
  ASSUME ControlInv, Rerank
  PROVE  AnswersRight'
<1>1. at = "rerank" /\ req \in Requests
  BY DEF Rerank, ControlInv, SearchTypeOK, PhaseInv
<1>2. CASE Fails("heap") /\ ReturnNothing
  BY <1>1, <1>2, NothingAnswers DEF Fails
<1>3. CASE at' \in {"serial", "workers", "scan"}
  BY <1>3, NotYetReturned
<1> QED
  BY <1>2, <1>3 DEF Rerank, Serially, InWorkers, Select, Goto

(* A search that has gone through all of its documents.                    *)
LEMMA FinishAnswers ==
  ASSUME ControlInv, ContentInv, Finish
  PROVE  ControlInv' /\ ContentInv' /\ AnswersRight'
<1>1. /\ at \in {"serial", "merge"} /\ req \in Requests /\ req.n > 0
      /\ \A l \in DOMAIN todo : todo[l] = <<>>
      /\ Len(sel) = 1 /\ sel \in Seq(Selection) /\ todo \in Seq(Seq(Item))
  BY DEF Finish, AllTaken, ControlInv, SearchTypeOK, PhaseInv, ShapeInv, Selecting
<1>2. ItemsInv /\ Apart(todo, Heaps) /\ LostInv /\ PoolInv
  BY <1>1 DEF ContentInv, Selecting
<1>3. /\ at' = "returned" /\ req' = req
      /\ todo' = todo /\ sel' = sel /\ pool' = pool /\ oom' = oom /\ words' = words
  BY DEF Finish, work, scratch
<1>4. K' = K /\ Due' = Due
  BY <1>3 DEF K, Due, Docs, Passes, Scored
<1>5. PICK h \in Seq(Item) : h = sel[1].heap /\ h = Heaps[1] /\ DOMAIN Heaps = {1}
  <2>1. DOMAIN sel = {1}
    BY <1>1, Selections
  <2> QED
    BY <1>1, <2>1, Selections
<1>6. Differ(h) /\ \A i \in DOMAIN h : h[i].index \in pool /\ h[i].score = req.score[h[i].index]
  <2>1. Differ(h)
    BY <1>2, <1>5 DEF Apart, Distinct, Differ
  <2>2. \A i \in DOMAIN h : h[i].index \in pool /\ h[i] = Scored(h[i].index)
    BY <1>2, <1>5 DEF ItemsInv
  <2>3. \A d : Scored(d).score = req.score[d]
    BY DEF Scored
  <2> QED
    BY <2>1, <2>2, <2>3
<1>7. Left = Indices(h)
  <2>1. \A l \in DOMAIN todo : DOMAIN todo[l] = {}
    BY <1>1
  <2>2. Held(todo) = {}
    BY <2>1 DEF Held, Indices
  <2>3. Held(Heaps) = Indices(h)
    BY <1>5 DEF Held
  <2>4. Indices(h) \subseteq pool
    BY <1>6 DEF Indices
  <2> QED
    BY <2>2, <2>3, <2>4 DEF Left
<1>8. PICK k \in Nat : k = K
  BY <1>1, Requested
<1>9. /\ IsFiniteSet(pool) /\ \A d \in pool : req.score[d] \in Int
      /\ Enough(pool, Indices(h), req.score, k)
  <2>1. pool \subseteq Docs /\ Enough(pool, Left, req.score, K)
    BY <1>2 DEF LostInv
  <2>2. IsFiniteSet(Docs) /\ \A d \in Docs : req.score[d] \in Int
    BY <1>1, Requested
  <2>3. IsFiniteSet(pool)
    BY <2>1, <2>2, FS_Subset
  <2> QED
    BY <1>7, <1>8, <2>1, <2>2, <2>3
<1>10. PICK P, score : P = pool /\ score = req.score
  OBVIOUS
<1>11. PICK m, g, res : /\ m = Lesser(k, Len(h)) /\ g = Ranked(h)
                        /\ res = [r \in 1 .. m |-> g[r]]
  OBVIOUS
<1>12. result' = res
  BY <1>5, <1>8, <1>11 DEF Finish
<1>13. /\ res \in Seq(Item) /\ Len(res) = m /\ DOMAIN res = 1 .. m
       /\ m = Lesser(k, Cardinality(P)) /\ AreBest(res, m, P, score)
  <2>1. IsFiniteSet(P) /\ Enough(P, Indices(h), score, k)
    BY <1>9, <1>10
  <2>2. Differ(h) /\ OwnScores(h, P, score)
    BY <1>6, <1>9, <1>10 DEF OwnScores
  <2> QED
    BY <1>11, <2>1, <2>2, BestOf
<1>14. BestReturned'
  <2>1. result' # <<>> => m > 0
    <3>1. m \in Nat
      BY <1>13
    <3>2. ASSUME m = 0 PROVE res = <<>>
      BY <1>13, <3>2
    <3> QED
      BY <1>12, <3>1, <3>2
  <2> QED
    BY <1>3, <1>4, <1>8, <1>10, <1>12, <1>13, <2>1 DEF BestReturned, AreBest
<1>15. AnsweredInFull'
  BY <1>2, <1>3, <1>4, <1>8, <1>10, <1>12, <1>13 DEF AnsweredInFull, PoolInv
<1>16. FastStaysInIndex'
  BY <1>2, <1>3, <1>10, <1>12, <1>13 DEF FastStaysInIndex, PoolInv, AreBest
<1>17. ControlInv'
  <2>1. SearchTypeOK'
    BY <1>1, <1>3, <1>12, <1>13 DEF ControlInv, SearchTypeOK
  <2>2. PhaseInv' /\ ShapeInv'
    BY <1>3 DEF PhaseInv, ShapeInv, Selecting
  <2> QED
    BY <2>1, <2>2 DEF ControlInv
<1>18. ContentInv'
  BY <1>3 DEF ContentInv, Selecting
<1> QED
  BY <1>14, <1>15, <1>16, <1>17, <1>18 DEF AnswersRight

(* The other steps return nothing.                                         *)
LEMMA OthersAnswer ==
  ASSUME ControlInv,
         \/ \E r \in Requests : Call(r)
         \/ Collect \/ Scan \/ Merge \/ Leave
         \/ \E w \in DOMAIN sel : Take(w) \/ Sift(w)
  PROVE  AnswersRight'
<1>1. at' # "returned"
  BY DEF Call, Collect, Keep, AfterCollect, Scan, Serially, Select, Goto, Merge, Leave, Take, Sift,
         Selecting
<1> QED
  BY <1>1, NotYetReturned

-------------------------------------------------------------------------------
(* At each place a call holds just what it has allocated on the way, and a *)
(* way out frees that: one step for each action.                           *)
LEMMA BlocksKept ==
  ASSUME ControlInv, LiveInv, [SearchNext]_searchVars
  PROVE  LiveInv'
<1>1. PhaseInv /\ ShapeInv
  BY DEF ControlInv
<1>2. ASSUME NEW r \in Requests, Call(r) PROVE LiveInv'
  <2>1. at = "idle" /\ live' = live /\ at' \in {"query", "rank"}
    BY <1>2 DEF Call
  <2> QED
    BY <2>1 DEF LiveInv, OnlyProxLeaks, Returned, Selecting
<1>3. CASE Leave
  BY <1>3 DEF Leave, LiveInv, OnlyProxLeaks, Returned
<1>4. ASSUME at \in {"query", "rank", "rerank"}, ReturnNothing, live' = {},
             req.api = "search" => todo = <<>>
      PROVE  LiveInv'
  <2>1. at' = "returned" /\ req' = req /\ todo' = todo
    BY <1>4 DEF ReturnNothing, work
  <2>2. req.api = "search" => ~ (Len(todo) > 1)
    BY <1>4
  <2> QED
    BY <1>4, <2>1, <2>2 DEF LiveInv, OnlyProxLeaks
<1>5. ASSUME at' \in {"scan", "collect", "rerank"}, req' = req, live' = CallHolds
      PROVE  LiveInv'
  BY <1>5 DEF LiveInv, CallHolds, OnlyProxLeaks, Returned
<1>6. CASE EnterBrute
  <2>1. live = {} /\ at = "query" /\ req.api = "brute" /\ req.api # "search"
    BY <1>6 DEF EnterBrute, LiveInv
  <2>2. CASE ReturnNothing
    BY <1>4, <1>6, <2>1, <2>2 DEF EnterBrute, Blocks, BruteFrees, Goto, ReturnNothing
  <2>3. CASE Goto("scan") /\ Blocks({"tokens"}, {})
    BY <1>5, <2>1, <2>3 DEF Blocks, Goto, CallHolds
  <2> QED
    BY <1>6, <2>2, <2>3 DEF EnterBrute
<1>7. CASE EnterIndex
  <2>1. /\ live = {} /\ at = "query" /\ req.api # "brute" /\ req.api \in Modes
        /\ req.api # "search"
    BY <1>1, <1>7 DEF EnterIndex, LiveInv, PhaseInv, Modes
  <2>2. CASE /\ ReturnNothing
             /\ \/ Blocks({}, {}) \/ Blocks({"candidates"}, NoTokensFrees)
                \/ Blocks({"candidates", "tokens"}, Cleanup)
    BY <1>4, <2>1, <2>2 DEF Blocks, NoTokensFrees, Cleanup
  <2>3. CASE /\ Goto(IF req.index THEN "collect" ELSE "scan")
             /\ Blocks({"candidates", "tokens"}, {})
    BY <1>5, <2>1, <2>3 DEF Blocks, Goto, CallHolds
  <2> QED
    BY <1>7, <2>2, <2>3 DEF EnterIndex
<1>8. CASE Collect
  <2>1. at = "collect" /\ live = CallHolds /\ req' = req /\ at' \in {"scan", "rerank"}
    BY <1>8 DEF Collect, Keep, AfterCollect, Goto, LiveInv
  <2>2. live' = CallHolds
    BY <1>8, <2>1 DEF Collect, Blocks, CollectFrees, CallHolds
  <2> QED
    BY <1>5, <2>1, <2>2
<1>9. CASE Rerank
  <2>1. /\ at = "rerank" /\ live = CallHolds /\ req.api # "brute" /\ req.api \in Modes
        /\ req.api # "search" /\ live = {"candidates", "tokens"}
    BY <1>1, <1>9 DEF Rerank, LiveInv, PhaseInv, Modes, CallHolds
  <2>2. CASE ReturnNothing /\ Blocks({}, Cleanup)
    BY <1>4, <2>1, <2>2 DEF Blocks, Cleanup
  <2>3. CASE Serially(todo[1]) /\ Blocks({"heap"}, {})
    <3>1. at' = "serial" /\ req' = req /\ live' = CallHolds \union {"heap"}
      BY <2>1, <2>3 DEF Serially, Select, Goto, Blocks
    <3> QED
      BY <2>1, <3>1 DEF LiveInv, CallHolds, OnlyProxLeaks, Returned
  <2>4. CASE InWorkers(todo[1]) /\ Blocks(WorkerArrays, {})
    <3>1. at' = "workers" /\ req' = req /\ live' = WorkersHold
      BY <2>1, <2>4 DEF InWorkers, Select, Goto, Blocks, WorkerArrays, WorkersHold, Prox
    <3> QED
      BY <3>1 DEF LiveInv, CallHolds, WorkersHold, Prox, OnlyProxLeaks, Returned
  <2>5. CASE /\ Goto("scan")
             /\ \E some \in SUBSET WorkerArrays :
                  some # WorkerArrays /\ Blocks(some, RerankGivesUp)
    <3>1. at' = "scan" /\ req' = req
      BY <2>5 DEF Goto
    <3>2. live' = CallHolds
      BY <2>1, <2>5 DEF Blocks, WorkerArrays, RerankGivesUp
    <3> QED
      BY <1>5, <3>1, <3>2
  <2> QED
    BY <1>9, <2>2, <2>3, <2>4, <2>5 DEF Rerank
<1>10. CASE RankArrays
  <2>1. live = {} /\ at = "rank" /\ req.api \notin Modes /\ req.api # "brute" /\ todo = <<>>
    BY <1>1, <1>10 DEF RankArrays, LiveInv, PhaseInv, Modes
  <2>2. CASE ReturnNothing /\ Blocks({}, {})
    BY <1>4, <2>1, <2>2 DEF Blocks
  <2>3. ASSUME Serially(AllDocs), live' = {} \/ (StaySerial(req.n) /\ live' = Prox)
        PROVE  LiveInv'
    <3>1. at' = "serial" /\ req' = req
      BY <2>3 DEF Serially, Select, Goto
    <3>2. K' = K /\ Prox' = Prox
      BY <3>1 DEF K, Prox
    <3>3. StaySerial(req.n)' = StaySerial(req.n)
      BY <3>1, <3>2 DEF StaySerial
    <3> QED
      BY <2>1, <2>3, <3>1, <3>2, <3>3 DEF LiveInv, CallHolds, OnlyProxLeaks, Returned
  <2>4. CASE StaySerial(req.n) /\ Serially(AllDocs) /\ (Blocks(Prox, {}) \/ Blocks({}, {}))
    BY <2>1, <2>3, <2>4 DEF Blocks
  <2>5. CASE /\ Serially(AllDocs)
             /\ \E some \in SUBSET (WorkerArrays \union Prox) :
                  \/ ~ WorkerArrays \subseteq some /\ Blocks(some, RankGivesUp)
                  \/ some = WorkerArrays /\ Prox # {} /\ Blocks(some, NoProxGivesUp)
    <3>1. live' = {}
      BY <2>1, <2>5 DEF Blocks, WorkerArrays, Prox, RankGivesUp, NoProxGivesUp
    <3> QED
      BY <2>3, <2>5, <3>1
  <2>6. CASE InWorkers(AllDocs) /\ Blocks(WorkerArrays \union Prox, {})
    <3>1. at' = "workers" /\ req' = req /\ live' = WorkersHold
      BY <2>1, <2>6 DEF InWorkers, Select, Goto, Blocks, WorkerArrays, WorkersHold, CallHolds
    <3> QED
      BY <3>1 DEF LiveInv, CallHolds, WorkersHold, Prox, OnlyProxLeaks, Returned
  <2> QED
    BY <1>10, <2>2, <2>4, <2>5, <2>6 DEF RankArrays
<1>11. CASE Scan
  <2>1. at = "scan" /\ live = CallHolds /\ req.api \in Modes
    BY <1>1, <1>11 DEF Scan, LiveInv, PhaseInv
  <2>2. CASE /\ Serially(AllDocs)
             /\ \/ Blocks({}, {})
                \/ \E some \in {{}, {"chunks"}, ChunkBlocks} : Blocks(some, ChunksGiveUp)
    <3>1. at' = "serial" /\ req' = req
      BY <2>2 DEF Serially, Select, Goto
    <3>2. live' = CallHolds
      BY <2>1, <2>2 DEF Blocks, ChunkBlocks, ChunksGiveUp, CallHolds
    <3> QED
      BY <3>1, <3>2 DEF LiveInv, CallHolds, OnlyProxLeaks, Returned
  <2>3. CASE /\ Select([c \in 1 .. Chunks |-> ChunkDocs(c)],
                       [c \in 1 .. Chunks |-> Lesser(K, ChunkSize(c))], "chunks")
             /\ Blocks(ChunkBlocks, {})
    <3>1. at' = "chunks" /\ req' = req /\ live' = ChunksHold
      BY <2>1, <2>3 DEF Select, Goto, Blocks, ChunkBlocks, ChunksHold
    <3> QED
      BY <3>1 DEF LiveInv, CallHolds, ChunksHold, OnlyProxLeaks, Returned
  <2> QED
    BY <1>11, <2>2, <2>3 DEF Scan
<1>12. CASE \E w \in DOMAIN sel : Take(w) \/ Sift(w)
  <2>1. at \in Selecting /\ at' = at /\ req' = req /\ live' = live
    BY <1>12 DEF Take, Sift
  <2>2. K' = K /\ Prox' = Prox /\ CallHolds' = CallHolds
    BY <2>1 DEF K, Prox, CallHolds
  <2>3. StaySerial(req.n)' = StaySerial(req.n)
    BY <2>1, <2>2 DEF StaySerial
  <2> QED
    BY <2>1, <2>2, <2>3 DEF LiveInv, WorkersHold, ChunksHold, OnlyProxLeaks, Returned, Selecting
<1>13. CASE Merge
  <2>1. at' = "merge" /\ req' = req
    BY <1>13 DEF Merge, Select, Goto
  <2>2. Prox' = Prox /\ CallHolds' = CallHolds
    BY <2>1 DEF Prox, CallHolds
  <2>3. CASE at = "workers" /\ Blocks({}, {})
    <3>1. live' = WorkersHold
      BY <2>3 DEF LiveInv, Blocks
    <3> QED
      BY <2>1, <2>2, <3>1 DEF LiveInv, WorkersHold, OnlyProxLeaks, Returned
  <2>4. CASE /\ at = "chunks"
             /\ \E some : some \subseteq {"merge_heap", "all"} /\ Blocks(some, {})
    <3>1. req.api \in Modes /\ live = ChunksHold
      BY <1>1, <2>4 DEF LiveInv, PhaseInv
    <3>2. live' \ {"merge_heap", "all"} = ChunksHold
      BY <2>4, <3>1 DEF Blocks, ChunksHold, CallHolds
    <3> QED
      BY <2>1, <2>2, <3>1, <3>2 DEF LiveInv, ChunksHold, OnlyProxLeaks, Returned
  <2> QED
    BY <1>13, <2>3, <2>4 DEF Merge
<1>14. CASE Finish
  <2>1. /\ at' = "returned" /\ req' = req /\ todo' = todo
        /\ live' = live \ (SelectionFrees \union CallFrees)
    BY <1>14 DEF Finish, Blocks, work
  <2>2. SUFFICES live \ (SelectionFrees \union CallFrees)
                   = IF req.api = "search" /\ Len(todo) > 1 THEN {"corpus_prox"} ELSE {}
    BY <2>1 DEF LiveInv, OnlyProxLeaks
  <2>3. "search" \notin Modes /\ "brute" \in Modes
    BY DEF Modes
  <2>4. CASE at = "serial"
    <3>1. Len(todo) = 1 /\ at # "merge"
      BY <1>1, <2>4 DEF ShapeInv
    <3>2. CASE req.api \in Modes
      <4>1. live = CallHolds \/ live = CallHolds \union {"heap"}
        BY <2>4, <3>2 DEF LiveInv
      <4>2. SelectionFrees = {"heap"} /\ CallFrees = CallHolds
        BY <3>1, <3>2 DEF SelectionFrees, RerankSerialFrees, CallFrees, CallHolds, BruteFrees, Cleanup
      <4> QED
        BY <2>3, <3>1, <3>2, <4>1, <4>2
    <3>3. CASE req.api \notin Modes
      <4>1. CallHolds = {}
        BY <2>3, <3>3 DEF CallHolds
      <4>2. live = {} \/ (StaySerial(req.n) /\ live \subseteq {"corpus_prox"})
        BY <2>4, <3>3, <4>1 DEF LiveInv, Prox
      <4>3. StaySerial(req.n) => SelectionFrees = {"corpus_prox"}
        BY <3>1, <3>3 DEF SelectionFrees, RankSerialFrees
      <4> QED
        BY <3>1, <4>2, <4>3
    <3> QED
      BY <3>2, <3>3
  <2>5. CASE at = "merge"
    <3>1. Len(todo) > 1
      BY <1>1, <2>5 DEF ShapeInv
    <3>2. CallFrees = CallHolds
      BY <2>3 DEF CallFrees, CallHolds, BruteFrees, Cleanup
    <3>3. CASE live = WorkersHold
      <4>1. "chunks" \notin live
        BY <3>3 DEF WorkersHold, CallHolds, Prox
      <4>2. SelectionFrees = {"worker_results", "worker_counts"}
        BY <2>5, <4>1 DEF SelectionFrees, WorkersFree
      <4>3. live \ (SelectionFrees \union CallFrees) = Prox
        BY <3>2, <3>3, <4>2 DEF WorkersHold, CallHolds, Prox
      <4> QED
        BY <3>1, <4>3 DEF Prox
    <3>4. CASE req.api \in Modes /\ live \ {"merge_heap", "all"} = ChunksHold
      <4>1. "chunks" \in live
        BY <3>4 DEF ChunksHold
      <4>2. SelectionFrees = {"merge_heap", "all", "chunks", "local_heaps"}
        BY <2>5, <4>1 DEF SelectionFrees, MergeFrees, ScanFrees
      <4>3. live \ (SelectionFrees \union CallFrees) = {}
        BY <3>2, <3>4, <4>2 DEF ChunksHold
      <4> QED
        BY <2>3, <3>4, <4>3
    <3> QED
      BY <2>5, <3>3, <3>4 DEF LiveInv
  <2> QED
    BY <1>14, <2>4, <2>5 DEF Finish
<1>15. CASE UNCHANGED searchVars
  <2>1. at' = at /\ req' = req /\ live' = live /\ todo' = todo
    BY <1>15 DEF searchVars, work
  <2>2. K' = K /\ Prox' = Prox /\ CallHolds' = CallHolds
    BY <2>1 DEF K, Prox, CallHolds
  <2>3. StaySerial(req.n)' = StaySerial(req.n)
    BY <2>1, <2>2 DEF StaySerial
  <2> QED
    BY <2>1, <2>2, <2>3 DEF LiveInv, WorkersHold, ChunksHold, OnlyProxLeaks, Returned
<1> QED
  BY <1>2, <1>3, <1>6, <1>7, <1>8, <1>9, <1>10, <1>11, <1>12, <1>13, <1>14, <1>15
     DEF SearchNext

-------------------------------------------------------------------------------
(* The invariant holds before any call.                                    *)
LEMMA SearchStarts == SearchInit => SearchInv
<1> SUFFICES ASSUME SearchInit PROVE SearchInv
  OBVIOUS
<1>1. /\ req = NoCall /\ at = "idle" /\ todo = <<>> /\ sel = <<>> /\ live = {}
      /\ result = <<>> /\ oom = {} /\ words = 0
  BY DEF SearchInit
<1>2. \A D : <<>> \in Seq(D)
  OBVIOUS
<1>3. SearchTypeOK
  BY <1>1, <1>2 DEF SearchTypeOK
<1>4. PhaseInv /\ ShapeInv /\ LiveInv /\ ContentInv
  BY <1>1 DEF PhaseInv, ShapeInv, LiveInv, OnlyProxLeaks, Returned, ContentInv, Selecting
<1>5. BestReturned /\ AnsweredInFull /\ FastStaysInIndex
  BY <1>1 DEF BestReturned, AnsweredInFull, FastStaysInIndex, Returned
<1> QED
  BY <1>3, <1>4, <1>5 DEF SearchInv, ControlInv

(* Every step keeps the invariant.                                         *)
LEMMA SearchSteps ==
  ASSUME SearchInv, [SearchNext]_searchVars
  PROVE  SearchInv'
<1>1. ControlInv /\ ContentInv /\ LiveInv
  BY DEF SearchInv
<1>2. SUFFICES ControlInv' /\ ContentInv' /\ AnswersRight'
  BY <1>1, BlocksKept DEF SearchInv, AnswersRight
<1>3. CASE \E r \in Requests : Call(r)
  BY <1>1, <1>3, CallKeeps, OthersAnswer
<1>4. CASE EnterBrute \/ EnterIndex
  BY <1>1, <1>4, EnterKeeps, EnterAnswers
<1>5. CASE Collect
  BY <1>1, <1>5, CollectKeeps, OthersAnswer
<1>6. CASE Rerank
  BY <1>1, <1>6, RerankKeeps, RerankAnswers
<1>7. CASE RankArrays
  BY <1>1, <1>7, RankArraysKeeps, RankArraysAnswers
<1>8. CASE Scan
  BY <1>1, <1>8, ScanKeeps, OthersAnswer
<1>9. CASE \E w \in DOMAIN sel : Take(w)
  BY <1>1, <1>9, TakeKeeps, OthersAnswer
<1>10. CASE \E w \in DOMAIN sel : Sift(w)
  BY <1>1, <1>10, SiftStepKeeps, OthersAnswer
<1>11. CASE Merge
  BY <1>1, <1>11, MergeKeeps, OthersAnswer
<1>12. CASE Finish
  BY <1>1, <1>12, FinishAnswers
<1>13. CASE Leave
  BY <1>1, <1>13, LeaveKeeps, OthersAnswer
<1>14. CASE UNCHANGED searchVars
  <2>1. /\ req' = req /\ at' = at /\ todo' = todo /\ sel' = sel
        /\ result' = result /\ pool' = pool /\ oom' = oom /\ words' = words
    BY <1>14 DEF searchVars, work, scratch
  <2>2. SearchTypeOK' /\ PhaseInv' /\ ShapeInv'
    <3>1. SearchTypeOK' /\ PhaseInv'
      BY <1>1, <2>1 DEF ControlInv, SearchTypeOK, PhaseInv
    <3>2. ShapeInv'
      BY <1>1, <2>1 DEF ControlInv, ShapeInv, K
    <3> QED
      BY <3>1, <3>2
  <2>3. Heaps' = Heaps /\ Docs' = Docs /\ K' = K /\ Left' = Left
    BY <2>1 DEF Heaps, Docs, K, Left, Held
  <2>4. Due' = Due
    BY <2>1 DEF K, Due, Docs, Passes, Scored
  <2>5. ContentInv'
    <3>1. at \in Selecting \union {"rerank"} =>
            HeapInv' /\ ItemsInv' /\ Apart(todo, Heaps)' /\ LostInv' /\ PoolInv'
      BY <1>1, <2>1, <2>3, <2>4 DEF ContentInv, HeapInv, ItemsInv, LostInv, PoolInv, Considered,
                                    Passes, Scored
    <3> QED
      BY <2>1, <3>1 DEF ContentInv
  <2>6. AnswersRight'
    BY <2>1, <2>3, <2>4 DEF SearchInv, AnswersRight, BestReturned, AnsweredInFull, FastStaysInIndex,
                            Returned
  <2> QED
    BY <2>2, <2>5, <2>6 DEF ControlInv
<1> QED
  BY <1>3, <1>4, <1>5, <1>6, <1>7, <1>8, <1>9, <1>10, <1>11, <1>12, <1>13, <1>14 DEF SearchNext

(* The inductive invariant of the searches.                                *)
THEOREM SearchInvariant == SearchSpec => []SearchInv
<1>1. SearchInit => SearchInv
  BY SearchStarts
<1>2. SearchInv /\ [SearchNext]_searchVars => SearchInv'
  BY SearchSteps
<1> QED
  BY <1>1, <1>2, PTL DEF SearchSpec

(* Every search returns the best of what it looked at, ranked.             *)
THEOREM BestIsReturned == SearchSpec => []BestReturned
<1>1. SearchInv => BestReturned
  BY DEF SearchInv
<1> QED
  BY <1>1, SearchInvariant, PTL

(* Unless memory ran out a query gets all the documents due to it.         *)
THEOREM QueriesAnsweredInFull == SearchSpec => []AnsweredInFull
<1>1. SearchInv => AnsweredInFull
  BY DEF SearchInv
<1> QED
  BY <1>1, SearchInvariant, PTL

(* FAST is not padded with documents the index does not list.              *)
THEOREM FastIsNotPadded == SearchSpec => []FastStaysInIndex
<1>1. SearchInv => FastStaysInIndex
  BY DEF SearchInv
<1> QED
  BY <1>1, SearchInvariant, PTL

(* However a call is left, nothing it allocated is left over but the one   *)
(* array: what each path holds when it gets to its frees is what they free.*)
THEOREM NoOtherLeak == SearchSpec => []OnlyProxLeaks
<1>1. SearchInv => OnlyProxLeaks
  BY DEF SearchInv, LiveInv
<1> QED
  BY <1>1, SearchInvariant, PTL

================================================================================
