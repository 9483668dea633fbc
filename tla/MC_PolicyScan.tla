--------------------------- MODULE MC_PolicyScan ---------------------------
(* Rule lists of up to three rules over two clients and a three-level      *)
(* name space, with one pattern typed in two spellings.                    *)
EXTENDS PolicyScan

Spelled(l, s) == [labels |-> l, spelling |-> s]

MCRawNames == {Spelled(<<>>, "lower"), Spelled(<<"com">>, "lower"),
               Spelled(<<"ex", "com">>, "lower"),
               Spelled(<<"ex", "com">>, "upper"),
               Spelled(<<"ads", "ex", "com">>, "lower")}

Pattern(k, raw) == [kind |-> k, raw |-> raw]

MCPatterns == {Pattern("any", Spelled(<<"com">>, "lower")),
               Pattern("suffix", Spelled(<<"com">>, "lower")),
               Pattern("suffix", Spelled(<<"ex", "com">>, "lower")),
               Pattern("exact", Spelled(<<"ex", "com">>, "lower")),
               Pattern("exact", Spelled(<<"ex", "com">>, "upper"))}

MCRules == [client : {"c1", "c2", WILDCARD}, domain : MCPatterns, action : {"deny"}]

(* uq_policies_client_domain: no two rows share client and domain text.    *)
MCRuleLists ==
  {l \in UNION {[1..n -> MCRules] : n \in 0..3} :
     \A i, j \in DOMAIN l : i # j => l[i] # l[j]}
============================================================================
