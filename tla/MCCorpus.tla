------------------------------- MODULE MCCorpus -------------------------------
(* Bounds for Corpus: two tokens and room for both;                       *)
(* documents that are empty, too long, hold NULL elements or a token twice.*)
EXTENDS Corpus, TLC

CONSTANTS a, b, w1, w2

MCDocs == {<<a, a>>, <<b, a>>, <<>>, <<NoToken, b>>}
MCBatches ==
  {<< <<a, b>>, <<>>, <<b, b>> >>, << <<>>, <<a, b>>, <<b, b>> >>,
   << <<a, b, a>>, <<b>> >>, << <<>> >>}
===============================================================================
