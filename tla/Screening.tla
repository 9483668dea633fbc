----------------------------- MODULE Screening -----------------------------
(***************************************************************************)
(* The pure decision functions of the resolver: name normalisation, policy *)
(* matching, blocklist suffix matching and the trusted-network test.       *)
(*                                                                         *)
(* A canonical name is its sequence of labels, e.g. <<"ads","example">>.   *)
(* A name as it is typed or received also has a spelling (letter case,     *)
(* trailing dot), which normalize_domain removes.                          *)
(***************************************************************************)
EXTENDS Integers, Sequences

WILDCARD == "*"
NoRule == 0            \* select_policy returned None
NoMatch == -1          \* _domain_specificity returned None

VALID_ACTIONS == {"forward", "override", "deny", "blocklist"}

(* Strip the spelling: two spellings of one name have one canonical form.  *)
normalize_domain(raw) == raw.labels

(* A name and each of its parent domains.                                  *)
domain_suffixes(name) == {SubSeq(name, i, Len(name)) : i \in 1..Len(name)}

is_blocked(blocked, name) == \E s \in domain_suffixes(name) : s \in blocked

(***************************************************************************)
(* Policies.  A pattern is [kind, raw]: kind "any" is "*", "suffix" is     *)
(* "*.name", "exact" is "name".  Scores count labels where the code counts *)
(* characters: two suffixes of one name are ordered alike by both.         *)
(***************************************************************************)
EXACT_SCORE == 1000000
SUFFIX_SCORE == 1000

PatternMatches(pattern, name) ==
  \/ pattern.kind = "any"
  \/ /\ pattern.kind = "suffix"
     /\ normalize_domain(pattern.raw) \in domain_suffixes(name)
  \/ pattern.kind = "exact" /\ normalize_domain(pattern.raw) = name

domain_specificity(pattern, name) ==
  IF ~PatternMatches(pattern, name) THEN NoMatch
  ELSE IF pattern.kind = "any" THEN 0
  ELSE IF pattern.kind = "exact" THEN EXACT_SCORE
  ELSE SUFFIX_SCORE + Len(normalize_domain(pattern.raw))

client_matches(ruleClient, client) == ruleClient \in {WILDCARD, client}

client_specificity(rule) == IF rule.client # WILDCARD THEN 1 ELSE 0

Matches(rule, client, name) ==
  /\ client_matches(rule.client, client)
  /\ domain_specificity(rule.domain, name) # NoMatch

(* Mutant: the client is compared before the domain.                       *)
Mutant_Outranks(rule, best, name) ==
  LET d == domain_specificity(rule.domain, name)
      e == domain_specificity(best.domain, name)
  IN  \/ client_specificity(rule) > client_specificity(best)
      \/ client_specificity(rule) = client_specificity(best) /\ d > e

(* key > best_key on the pairs (domain specificity, client specificity).   *)
Outranks(rule, best, name) ==
  LET d == domain_specificity(rule.domain, name)
      e == domain_specificity(best.domain, name)
  IN  \/ d > e
      \/ d = e /\ client_specificity(rule) > client_specificity(best)

(* What the loop of select_policy leaves in best after the rules listed in *)
(* ids (in rowid order): the earliest of the top-ranked matches.  Module   *)
(* PolicyScan has the loop itself and shows that it computes this.         *)
select_policy(table, ids, client, name) ==
  LET M == {i \in ids : Matches(table[i], client, name)}
  IN  IF M = {} THEN NoRule
      ELSE CHOOSE i \in M :
             \A j \in M \ {i} : \/ Outranks(table[i], table[j], name)
                                \/ /\ ~Outranks(table[j], table[i], name)
                                   /\ i < j

(* A network is the set of the client addresses inside it.                 *)
is_trusted(networks, client) ==
  networks = {} \/ \E net \in networks : client \in net
=============================================================================
