--------------------------- MODULE MCPretrainedMap ---------------------------
(* Bounds for PretrainedMap.                                               *)
EXTENDS PretrainedMap

MCAllKinds == {"lookup", "ensure", "build", "tokenize"}
===============================================================================
