-------------------------------- MODULE MCSearch --------------------------------
(* Calls small enough to enumerate, yet large enough for every path: three *)
(* distinct scores, more matches than the cap, parallel reranks, ranks and *)
(* scans, and corpora of different sizes one after the other.              *)
EXTENDS Search

(* Queries of n documents: good ones, with every assignment of scores, for *)
(* a corpus with an index, and the ones that end early.                    *)
Query(api, n, k, match, top) ==
  [api : {api}, n : {n}, k : {k}, match : {match}, index : {TRUE},
   query : {"good"}, score : [0 .. n - 1 -> 0 .. top]]

Early(api, n) ==
  [api : {api}, n : {n}, k : {2}, match : {0 .. n - 1}, index : BOOLEAN,
   query : {"empty", "zero"}, score : [0 .. n - 1 -> {0}]]

NoIndex(api) ==
  [api : {api}, n : {2}, k : {1}, match : {{0}}, index : {FALSE},
   query : {"good"}, score : [0 .. 1 -> 0 .. 1]]

Arrays(api, n, k, scores) ==
  [api : {api}, n : {n}, k : {k}, min : {1}, query : {"sorted", "unsorted"},
   score : scores]

(* Three different scores, each twice, or one of them more often.          *)
Pairs == {s \in [0 .. 5 -> 0 .. 2] : \A i \in {0, 2, 4} : s[i] = s[i + 1]}

MCRequests ==
  UNION {Query("brute", 6, 2, {}, 1), Query("brute", 4, 3, {}, 2),
         Query("brute", 5, 4, {}, 1), Query("brute", 6, 4, {}, 1)}
  \union UNION {Query(m, 5, 1, 0 .. 4, 1) : m \in {"auto", "fast"}}
  \union Query("tfidf", 5, 1, 1 .. 4, 1)
  \union UNION {Query(m, 4, 3, match, 1) :
                  m \in {"auto", "fast"}, match \in {0 .. 2, {0, 3}}}
  \union UNION {Early(m, n) : m \in {"brute", "auto", "fast", "tfidf"}, n \in {0, 1}}
  \union UNION {NoIndex(m) : m \in {"auto", "fast", "tfidf"}}
  \union UNION {Arrays(a, 6, 2, Pairs) : a \in {"search", "flat"}}
  \union Arrays("search", 4, 1, [0 .. 3 -> 0 .. 2])
  \union Arrays("flat", 3, 2, [0 .. 2 -> 0 .. 2])
================================================================================
