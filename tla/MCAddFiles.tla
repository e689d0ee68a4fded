------------------------------ MODULE MCAddFiles ------------------------------
(* Bounds for AddFiles: every way three files yield at most two chunks.    *)
EXTENDS AddFiles, SequencesExt

MCInputs == TupleOf(BoundedSeq({"tokens", "empty"}, 2), 3)
===============================================================================
