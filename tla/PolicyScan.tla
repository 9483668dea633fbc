----------------------------- MODULE PolicyScan -----------------------------
(***************************************************************************)
(* The loop of select_policy, one rule per step: `next' is the position of *)
(* the rule to look at, `best' the position of the best rule so far.       *)
(***************************************************************************)
EXTENDS Screening

CONSTANTS
  RuleLists,   \* the rule lists load_rules may return, each a sequence
  Clients,     \* source addresses that ask
  RawNames     \* names as received

Rules == [client : Clients \cup {WILDCARD},
          domain : [kind : {"any", "suffix", "exact"}, raw : RawNames],
          action : VALID_ACTIONS]

ASSUME RuleListsAssumption == RuleLists \subseteq Seq(Rules)

(* A DNS name has at most 127 labels (255 octets on the wire), the root    *)
(* none, so that no suffix score reaches the score of an exact match.      *)
ASSUME RawNamesAssumption ==
  \A raw \in RawNames : /\ normalize_domain(raw) \in Seq(STRING)
                         /\ Len(normalize_domain(raw)) \in 0..127

VARIABLES rules, client, name, next, best
scanVars == <<rules, client, name, next, best>>

ScanInit ==
  /\ rules \in RuleLists
  /\ client \in Clients
  /\ \E raw \in RawNames : name = normalize_domain(raw)
  /\ next = 1
  /\ best = NoRule

(* Mutant: the first match is kept.                                        *)
Mutant_Examine ==
  /\ next <= Len(rules)
  /\ best' = IF Matches(rules[next], client, name) /\ best = NoRule
             THEN next ELSE best
  /\ next' = next + 1
  /\ UNCHANGED <<rules, client, name>>

(* One iteration: skip the rule if its client or its domain does not       *)
(* match, else keep it when it strictly outranks the best so far.          *)
Examine ==
  /\ next <= Len(rules)
  /\ best' = IF /\ Matches(rules[next], client, name)
                /\ \/ best = NoRule
                   \/ Outranks(rules[next], rules[best], name)
             THEN next ELSE best
  /\ next' = next + 1
  /\ UNCHANGED <<rules, client, name>>

Done == next > Len(rules) /\ UNCHANGED scanVars

ScanNext == Examine \/ Done
ScanSpec == ScanInit /\ [][ScanNext]_scanVars

-----------------------------------------------------------------------------
ScanTypeOK ==
  /\ rules \in RuleLists
  /\ client \in Clients
  /\ name \in {normalize_domain(raw) : raw \in RawNames}
  /\ next \in 1..Len(rules) + 1
  /\ best \in 0..next - 1

(* The documented order of two rules that match the name: an exact domain  *)
(* beats every suffix, a longer suffix a shorter one, a suffix beats "*".  *)
MoreSpecificDomain(p, q) ==
  \/ p.kind = "exact" /\ q.kind # "exact"
  \/ p.kind = "suffix" /\ q.kind = "any"
  \/ /\ p.kind = "suffix" /\ q.kind = "suffix"
     /\ Len(normalize_domain(p.raw)) > Len(normalize_domain(q.raw))

Beats(r, s) ==
  \/ MoreSpecificDomain(r.domain, s.domain)
  \/ /\ ~MoreSpecificDomain(s.domain, r.domain)
     /\ r.client # WILDCARD /\ s.client = WILDCARD

(* README, "Match precedence": the most specific domain wins (exact, then  *)
(* longest suffix, then any), ties go to an exact client: no matching rule *)
(* beats the one select_policy returns, which itself matches; None is      *)
(* returned only when no rule matches; and of two rules that tie (two      *)
(* spellings of one pattern) the one stored first is returned.             *)
DocumentedPrecedence ==
  next > Len(rules) =>
    LET M == {i \in DOMAIN rules : Matches(rules[i], client, name)}
    IN  /\ best = NoRule <=> M = {}
        /\ best # NoRule =>
             /\ best \in M
             /\ \A i \in M : ~Beats(rules[i], rules[best])
             /\ \A i \in M : i < best => Beats(rules[best], rules[i])

(* The loop agrees with the operator select_policy the other modules use.  *)
LoopComputesSelection ==
  best = select_policy(rules, 1..next - 1, client, name)
=============================================================================
