------------------------------ MODULE MCPyCorpus ------------------------------
(* Objects that build, search, save and load, and what add_files reports.  *)
EXTENDS PyCorpus

(* add_files of two paths in one batch, far from any limit: of the p and q *)
(* chunks buffered a and b have tokens.  What the batch does not take is   *)
(* charged to the last chunks, so the counts are those of the first a + b  *)
(* chunks (the runs of AddFiles show how they come about).                 *)
MCReport(p, q, a, b) ==
  LET first == IF p < a + b THEN p ELSE a + b
  IN  [docs |-> [i \in 1 .. a + b |-> IF i <= a THEN 1 ELSE 2],
       counts |-> <<first, a + b - first>>]

(* An empty first file; an empty chunk and a document each; two documents. *)
(* Two chunks of the first file and one of the second, or one of each; the *)
(* one document in the first file, if any, is its own, the one in the      *)
(* second is labelled with the first.                                      *)
MCReports == {MCReport(2, 1, 1, 1), MCReport(1, 1, 0, 1)}
================================================================================
