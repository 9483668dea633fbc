--------------------------- MODULE MC_AnswerCache ---------------------------
(* Upstream answers: a positive one above, inside and below the clamp,     *)
(* negative ones with and without an SOA, an error and a failure.  Pairs   *)
(* of limits: the defaults (scaled), and a minimum above the maximum.      *)
EXTENDS AnswerCache

Answer(k, ttl) == [kind |-> k, ttl |-> ttl]

AllAnswers == {Answer("positive", 5), Answer("positive", 0),
               Answer("nxdomain", 1), Answer("nxdomain", NoSoa),
               Answer("nodata", NoSoa), Answer("error", NoSoa),
               Answer("failure", NoSoa)}

Limits(min, max) == [cache_min_ttl |-> min, cache_max_ttl |-> max]
TwoLimits == {Limits(0, 1), Limits(2, 1)}
OneLimit == {Limits(0, 1)}
LongerLimit == {Limits(0, 2)}

OneAnswer == {Answer("positive", 2)}

(* Threads and keys are interchangeable.                                   *)
Symmetry == Permutations(Threads) \cup Permutations(Keys)
=============================================================================
