--------------------------- MODULE ScreeningProofs ---------------------------
(***************************************************************************)
(* Proofs about the screening of queries.                                  *)
(*                                                                         *)
(* PolicyScan: for every rule list, client and name, the loop of           *)
(* select_policy returns the rule the documented precedence names.  The    *)
(* loop invariant is that best is the earliest top-ranked match among the  *)
(* rules examined.                                                         *)
(*                                                                         *)
(* LiveScreening: for any number of threads, queries, policies and edits,  *)
(* no query is answered from configuration older than the last complete    *)
(* reload, and no answer gets past a screen its whole window enforces.     *)
(***************************************************************************)
EXTENDS PolicyScan, LiveScreening, TLAPS

(* The rules examined so far that match.                                   *)
Seen == {i \in 1..next - 1 : Matches(rules[i], client, name)}

(* best is the earliest of the top-ranked rules examined.                  *)
BestOfSeen ==
  /\ best = NoRule => Seen = {}
  /\ best # NoRule =>
       /\ best \in Seen
       /\ \A j \in Seen \ {best} :
            \/ Outranks(rules[best], rules[j], name)
            \/ ~Outranks(rules[j], rules[best], name) /\ best < j

LoopInv == ScanTypeOK /\ BestOfSeen

-----------------------------------------------------------------------------
(* A rule list is a function on its positions whose values are rules.      *)
LEMMA RuleType ==
  ASSUME ScanTypeOK, NEW i \in 1..Len(rules)
  PROVE  /\ rules[i] \in Rules
         /\ Len(rules) \in Nat
         /\ DOMAIN rules = 1..Len(rules)
BY RuleListsAssumption DEF ScanTypeOK

(* A score is an integer, and orders the kinds of pattern that match.      *)
LEMMA ScoreRange ==
  ASSUME NEW r \in Rules, NEW raw \in RawNames
  PROVE  LET d == domain_specificity(r.domain, normalize_domain(raw))
         IN  /\ d \in Int
             /\ d # NoMatch =>
                  /\ r.domain.kind = "any" => d = 0
                  /\ r.domain.kind = "suffix" =>
                       /\ d = SUFFIX_SCORE + Len(normalize_domain(r.domain.raw))
                       /\ d \in SUFFIX_SCORE..SUFFIX_SCORE + 127
                  /\ r.domain.kind = "exact" => d = EXACT_SCORE
<1>1. /\ r.domain.kind \in {"any", "suffix", "exact"}
      /\ r.domain.raw \in RawNames
      /\ Len(normalize_domain(r.domain.raw)) \in 0..127
  BY RawNamesAssumption DEF Rules
<1>2. CASE r.domain.kind = "any"
  BY SMT, <1>2 DEF domain_specificity, NoMatch, EXACT_SCORE, SUFFIX_SCORE
<1>3. CASE r.domain.kind = "suffix"
  <2> DEFINE n == Len(normalize_domain(r.domain.raw))
             d == domain_specificity(r.domain, normalize_domain(raw))
  <2>1. n \in 0..127
    BY <1>1
  <2>2. d = NoMatch \/ d = SUFFIX_SCORE + n
    BY <1>3 DEF domain_specificity
  <2> HIDE DEF n, d
  <2>3. d \in Int /\ (d # NoMatch => d \in SUFFIX_SCORE..SUFFIX_SCORE + 127)
    BY SMT, <2>1, <2>2 DEF NoMatch, SUFFIX_SCORE
  <2> QED BY <1>3, <2>2, <2>3 DEF n, d
<1>4. CASE r.domain.kind = "exact"
  BY SMT, <1>1, <1>4 DEF domain_specificity, NoMatch, EXACT_SCORE, SUFFIX_SCORE
<1> QED BY <1>1, <1>2, <1>3, <1>4

(* On rules that match, the code's numeric order is the documented one.    *)
LEMMA OutranksIsBeats ==
  ASSUME NEW r \in Rules, NEW s \in Rules, NEW raw \in RawNames, NEW c,
         Matches(r, c, normalize_domain(raw)), Matches(s, c, normalize_domain(raw))
  PROVE  Outranks(r, s, normalize_domain(raw)) <=> Beats(r, s)
<1>1. r.domain.kind \in {"any", "suffix", "exact"} /\ s.domain.kind \in {"any", "suffix", "exact"}
  BY DEF Rules
<1>2. /\ Len(normalize_domain(r.domain.raw)) \in 0..127
      /\ Len(normalize_domain(s.domain.raw)) \in 0..127
  BY RawNamesAssumption DEF Rules
<1> DEFINE d == domain_specificity(r.domain, normalize_domain(raw))
           e == domain_specificity(s.domain, normalize_domain(raw))
<1>3. d # NoMatch /\ e # NoMatch
  BY DEF Matches
<1>4. /\ d \in Int /\ e \in Int
      /\ r.domain.kind = "any" => d = 0
      /\ r.domain.kind = "suffix" =>
           d = SUFFIX_SCORE + Len(normalize_domain(r.domain.raw)) /\ d \in SUFFIX_SCORE..SUFFIX_SCORE + 127
      /\ r.domain.kind = "exact" => d = EXACT_SCORE
      /\ s.domain.kind = "any" => e = 0
      /\ s.domain.kind = "suffix" =>
           e = SUFFIX_SCORE + Len(normalize_domain(s.domain.raw)) /\ e \in SUFFIX_SCORE..SUFFIX_SCORE + 127
      /\ s.domain.kind = "exact" => e = EXACT_SCORE
  BY <1>3, ScoreRange
<1>5. /\ d > e <=> MoreSpecificDomain(r.domain, s.domain)
      /\ e > d <=> MoreSpecificDomain(s.domain, r.domain)
  <2> DEFINE m == Len(normalize_domain(r.domain.raw))
             n == Len(normalize_domain(s.domain.raw))
  <2>1. m \in 0..127 /\ n \in 0..127
    BY <1>2
  <2>2. /\ r.domain.kind = "suffix" => d = SUFFIX_SCORE + m
        /\ s.domain.kind = "suffix" => e = SUFFIX_SCORE + n
    BY <1>4
  <2>3. /\ r.domain.kind = "suffix" /\ s.domain.kind = "suffix" =>
             (MoreSpecificDomain(r.domain, s.domain) <=> m > n)
        /\ r.domain.kind = "suffix" /\ s.domain.kind = "suffix" =>
             (MoreSpecificDomain(s.domain, r.domain) <=> n > m)
    BY DEF MoreSpecificDomain
  <2> HIDE DEF d, e, m, n
  <2>4. CASE r.domain.kind = "suffix" /\ s.domain.kind = "suffix"
    BY <2>1, <2>2, <2>3, <2>4 DEF SUFFIX_SCORE
  <2>5. CASE ~(r.domain.kind = "suffix" /\ s.domain.kind = "suffix")
    BY <1>1, <1>4, <2>1, <2>2, <2>5 DEF MoreSpecificDomain, EXACT_SCORE, SUFFIX_SCORE
  <2> QED BY <2>4, <2>5
<1>6. client_specificity(r) > client_specificity(s)
        <=> r.client # WILDCARD /\ s.client = WILDCARD
  BY DEF client_specificity
<1>7. Outranks(r, s, normalize_domain(raw))
        <=> d > e \/ (d = e /\ client_specificity(r) > client_specificity(s))
  BY DEF Outranks
<1>8. d = e <=> ~(d > e) /\ ~(e > d)
  BY <1>4
<1> HIDE DEF d, e
<1> QED BY <1>5, <1>6, <1>7, <1>8 DEF Beats

(* Outranks is a strict weak order on rules.                               *)
LEMMA OutranksOrder ==
  ASSUME NEW r \in Rules, NEW s \in Rules, NEW t \in Rules, NEW raw \in RawNames
  PROVE  LET n == normalize_domain(raw)
         IN  /\ Outranks(r, s, n) => ~Outranks(s, r, n)
             /\ Outranks(r, s, n) /\ ~Outranks(t, s, n) => Outranks(r, t, n)
<1> DEFINE n == normalize_domain(raw)
           D(u) == domain_specificity(u.domain, n)
           C(u) == client_specificity(u)
<1>1. D(r) \in Int /\ D(s) \in Int /\ D(t) \in Int
  BY ScoreRange
<1>2. C(r) \in Int /\ C(s) \in Int /\ C(t) \in Int
  BY DEF client_specificity
<1>3. /\ Outranks(r, s, n) <=> D(r) > D(s) \/ (D(r) = D(s) /\ C(r) > C(s))
      /\ Outranks(s, r, n) <=> D(s) > D(r) \/ (D(s) = D(r) /\ C(s) > C(r))
      /\ Outranks(t, s, n) <=> D(t) > D(s) \/ (D(t) = D(s) /\ C(t) > C(s))
      /\ Outranks(r, t, n) <=> D(r) > D(t) \/ (D(r) = D(t) /\ C(r) > C(t))
  BY DEF Outranks
<1> HIDE DEF n, D, C
<1> QED BY <1>1, <1>2, <1>3 DEF n

-----------------------------------------------------------------------------
(* The loop invariant holds before the first iteration.                    *)
LEMMA LoopInvInit == ScanInit => LoopInv
<1> SUFFICES ASSUME ScanInit PROVE LoopInv
  OBVIOUS
<1>1. ScanTypeOK
  <2>1. Len(rules) \in Nat
    BY RuleListsAssumption DEF ScanInit
  <2> QED BY <2>1 DEF ScanInit, ScanTypeOK, NoRule
<1>2. BestOfSeen
  BY DEF ScanInit, BestOfSeen, Seen, NoRule
<1> QED BY <1>1, <1>2 DEF LoopInv

(* One iteration keeps it: the examined rule becomes best exactly when it  *)
(* strictly outranks the best so far, hence every rule below that one.     *)
LEMMA LoopInvExamine == LoopInv /\ Examine => LoopInv'
<1> SUFFICES ASSUME LoopInv, Examine PROVE LoopInv'
  OBVIOUS
<1> USE DEF LoopInv
<1>1. /\ Len(rules) \in Nat /\ next \in 1..Len(rules) /\ best \in 0..next - 1
      /\ rules' = rules /\ client' = client /\ name' = name /\ next' = next + 1
      /\ best' = best \/ best' = next
  <2>1. Len(rules) \in Nat
    BY RuleListsAssumption DEF ScanTypeOK
  <2> QED BY <2>1 DEF ScanTypeOK, Examine
<1>2. ScanTypeOK'
  BY <1>1 DEF ScanTypeOK
<1>3. PICK raw \in RawNames : name = normalize_domain(raw)
  BY DEF ScanTypeOK
<1>4. \A i \in 1..next : rules[i] \in Rules
  BY <1>1, RuleType
<1>5. Seen' = IF Matches(rules[next], client, name) THEN Seen \cup {next} ELSE Seen
  <2>1. 1..next' - 1 = (1..next - 1) \cup {next}
    BY <1>1
  <2> QED BY <1>1, <2>1 DEF Seen
<1>6. Seen \subseteq 1..next - 1
  BY DEF Seen
<1>7. CASE ~Matches(rules[next], client, name)
  <2>1. best' = best /\ Seen' = Seen
    BY <1>5, <1>7 DEF Examine
  <2> QED BY <1>1, <1>2, <2>1 DEF BestOfSeen
<1>8. CASE Matches(rules[next], client, name) /\ best = NoRule
  <2>1. best' = next /\ Seen' = {next} /\ next # NoRule
    BY <1>1, <1>5, <1>8 DEF Examine, BestOfSeen, NoRule
  <2> QED BY <1>2, <2>1 DEF BestOfSeen
<1>9. CASE Matches(rules[next], client, name) /\ best # NoRule
  <2>1. best \in Seen /\ best < next
    BY <1>1, <1>9 DEF BestOfSeen
  <2>2. CASE Outranks(rules[next], rules[best], name)
    <3>1. best' = next /\ next # NoRule /\ best' \in Seen'
      BY <1>1, <1>5, <1>9, <2>2 DEF Examine, NoRule
    <3>2. ASSUME NEW j \in Seen' \ {best'}
          PROVE  Outranks(rules[next], rules[j], name)
      <4>1. j \in Seen
        BY <1>5, <1>9, <3>1
      <4>2. rules[j] \in Rules /\ rules[best] \in Rules /\ rules[next] \in Rules
        BY <1>1, <1>4, <1>6, <2>1, <4>1
      <4>3. ~Outranks(rules[j], rules[best], name)
        <5>1. CASE j = best
          BY <1>3, <2>2, <4>2, <5>1, OutranksOrder
        <5>2. CASE j # best
          BY <1>3, <1>9, <4>1, <4>2, <5>2, OutranksOrder DEF BestOfSeen
        <5> QED BY <5>1, <5>2
      <4> QED BY <1>3, <2>2, <4>2, <4>3, OutranksOrder
    <3> QED BY <1>1, <1>2, <3>1, <3>2 DEF BestOfSeen
  <2>3. CASE ~Outranks(rules[next], rules[best], name)
    <3>1. best' = best /\ Seen' = Seen \cup {next}
      BY <1>5, <1>9, <2>3 DEF Examine
    <3> QED BY <1>1, <1>2, <1>9, <2>1, <2>3, <3>1 DEF BestOfSeen
  <2> QED BY <2>2, <2>3
<1> QED BY <1>7, <1>8, <1>9

(* The loop invariant and the type invariant hold in every state.          *)
THEOREM LoopInvariant == ScanSpec => []LoopInv
<1>1. LoopInv /\ UNCHANGED scanVars => LoopInv'
  BY DEF LoopInv, ScanTypeOK, BestOfSeen, Seen, scanVars
<1>2. LoopInv /\ [ScanNext]_scanVars => LoopInv'
  BY <1>1, LoopInvExamine DEF ScanNext, Done
<1> QED BY <1>2, LoopInvInit, PTL DEF ScanSpec

(* README, "Match precedence", for every list of rules: when the loop of   *)
(* select_policy ends, best is a match no other match beats.               *)
THEOREM PrecedenceTheorem == ScanSpec => []DocumentedPrecedence
<1>1. LoopInv => DocumentedPrecedence
  <2> SUFFICES ASSUME LoopInv, next > Len(rules) PROVE DocumentedPrecedence
    BY DEF DocumentedPrecedence
  <2> USE DEF LoopInv
  <2>1. Len(rules) \in Nat /\ DOMAIN rules = 1..Len(rules) /\ next = Len(rules) + 1
    BY RuleListsAssumption DEF ScanTypeOK
  <2>2. Seen = {i \in DOMAIN rules : Matches(rules[i], client, name)}
    BY <2>1 DEF Seen
  <2>3. PICK raw \in RawNames : name = normalize_domain(raw)
    BY DEF ScanTypeOK
  <2>4. \A i \in Seen : i \in 1..Len(rules) /\ rules[i] \in Rules
    BY <2>1, <2>2, RuleType
  <2>5. best = NoRule <=> Seen = {}
    BY <2>4 DEF BestOfSeen
  <2>6. ASSUME best # NoRule, NEW i \in Seen
        PROVE  ~Beats(rules[i], rules[best]) /\ (i < best => Beats(rules[best], rules[i]))
    <3>1. best \in Seen
      BY <2>6 DEF BestOfSeen
    <3>2. /\ Outranks(rules[i], rules[best], name) <=> Beats(rules[i], rules[best])
          /\ Outranks(rules[best], rules[i], name) <=> Beats(rules[best], rules[i])
      BY <2>3, <2>4, <3>1, OutranksIsBeats DEF Seen
    <3>3. CASE i = best
      <4>1. ~Outranks(rules[best], rules[best], name)
        BY <2>3, <2>4, <3>1, OutranksOrder
      <4> QED BY <2>4, <3>2, <3>3, <4>1
    <3>4. CASE i # best
      <4>1. \/ Outranks(rules[best], rules[i], name)
            \/ ~Outranks(rules[i], rules[best], name) /\ best < i
        BY <2>6, <3>4 DEF BestOfSeen
      <4>2. Outranks(rules[best], rules[i], name) => ~Outranks(rules[i], rules[best], name)
        BY <2>3, <2>4, <3>1, OutranksOrder
      <4> QED BY <2>4, <3>1, <3>2, <4>1, <4>2
    <3> QED BY <3>3, <3>4
  <2> QED BY <2>2, <2>5, <2>6 DEF DocumentedPrecedence, BestOfSeen
<1> QED BY <1>1, LoopInvariant, PTL

(* The operator select_policy, which module LiveScreening uses, is what    *)
(* the loop computes.                                                      *)
THEOREM SelectionTheorem == ScanSpec => []LoopComputesSelection
<1>1. LoopInv => LoopComputesSelection
  <2> SUFFICES ASSUME LoopInv PROVE best = select_policy(rules, 1..next - 1, client, name)
    BY DEF LoopComputesSelection
  <2> USE DEF LoopInv
  <2> DEFINE First(i) == \A j \in Seen \ {i} :
                           \/ Outranks(rules[i], rules[j], name)
                           \/ ~Outranks(rules[j], rules[i], name) /\ i < j
  <2>1. select_policy(rules, 1..next - 1, client, name)
          = IF Seen = {} THEN NoRule ELSE CHOOSE i \in Seen : First(i)
    BY DEF select_policy, Seen
  <2>2. CASE best = NoRule
    BY <2>1, <2>2 DEF BestOfSeen
  <2>3. CASE best # NoRule
    <3>1. best \in Seen /\ First(best)
      BY <2>3 DEF BestOfSeen
    <3>2. PICK raw \in RawNames : name = normalize_domain(raw)
      BY DEF ScanTypeOK
    <3>3. Seen \subseteq 1..Len(rules)
      <4>1. Len(rules) \in Nat
        BY RuleListsAssumption DEF ScanTypeOK
      <4> QED BY <4>1 DEF Seen, ScanTypeOK
    <3>4. \A i \in Seen : rules[i] \in Rules /\ i \in Int
      BY <3>3, RuleType
    <3>5. ASSUME NEW i \in Seen, First(i), i # best PROVE FALSE
      <4>1. \/ Outranks(rules[i], rules[best], name)
            \/ ~Outranks(rules[best], rules[i], name) /\ i < best
        BY <3>1, <3>5
      <4>2. \/ Outranks(rules[best], rules[i], name)
            \/ ~Outranks(rules[i], rules[best], name) /\ best < i
        BY <3>1, <3>5
      <4>3. ~(Outranks(rules[i], rules[best], name) /\ Outranks(rules[best], rules[i], name))
        BY <3>1, <3>2, <3>4, OutranksOrder
      <4> QED BY <3>1, <3>4, <4>1, <4>2, <4>3
    <3> HIDE DEF First
    <3> QED BY <2>1, <3>1, <3>5
  <2> QED BY <2>2, <2>3
<1> QED BY <1>1, LoopInvariant, PTL

-----------------------------------------------------------------------------
(* Queries beside edits and reloads.                                       *)
Serving(t) == pc[t] \notin {"idle", "done"}

(* What the histories say of the state: the reload thread's part.          *)
ReloadInv ==
  /\ \A c \in Components : /\ snap[c] \in since[c]
                           /\ db[c] \in loading[c]
                           /\ loading[c] \subseteq since[c]
  /\ \A i \in 1..pos : fresh[LoadOrder[i]] \in loading[LoadOrder[i]]

(* The query's part: its window contains every value it can read from now  *)
(* on and every value it has read.                                         *)
WindowInv ==
  \A t \in Threads, c \in Components :
    /\ Serving(t) => since[c] \subseteq window[t][c]
    /\ pc[t] # "idle" => used[t][c] \in window[t][c]

(* What a query that is past a screen knows of the values it read.         *)
PtrPassed(t) ==
  \/ ~PtrDropped(used[t], query[t])
  \/ \E records \in window[t]["local"] : Name(query[t]) \in records

PolicyPassed(t) ==
  /\ ~NoIPv6(used[t]["settings"], query[t])
  /\ ActionFor(used[t]["policies"], used[t]["settings"], query[t])
       \notin {"override", "deny"}

PathOf(t) ==
  /\ pc[t] # "done" => result[t] = "none"
  /\ Serving(t) => /\ query[t] \in Queries
                   /\ is_trusted(used[t]["trusted"], query[t].client)
  /\ pc[t] = "ptr" => query[t].kind = "PRIVATE_PTR" /\ used[t]["settings"].drop_private_ptr
  /\ Serving(t) /\ pc[t] \notin {"settings", "ptr"} => PtrPassed(t)
  /\ pc[t] \in {"excluded", "blocklist", "local", "cache", "upstreams"} => PolicyPassed(t)
  /\ pc[t] = "blocklist" => query[t].client \notin used[t]["excluded"]
  /\ pc[t] \in {"local", "cache", "upstreams"} => ~BlocklistApplies(used[t], query[t])
  /\ pc[t] \in {"cache", "upstreams"} => Name(query[t]) \notin used[t]["local"]

VerdictOf(t) ==
  pc[t] = "done" =>
    \/ result[t] \in Verdict(used[t], query[t])
    \/ /\ \E records \in window[t]["local"] : Name(query[t]) \in records
       /\ is_trusted(used[t]["trusted"], query[t].client)
       /\ result[t] \in Screened(used[t], query[t])

ThreadInv == \A t \in Threads : PathOf(t) /\ VerdictOf(t)

IInv == TypeOK /\ ReloadInv /\ WindowInv /\ ThreadInv

-----------------------------------------------------------------------------
(* Configurations and histories are records over Components.               *)
LEMMA ComponentList ==
  Components = {"settings", "policies", "upstreams", "blocklist",
                "excluded", "trusted", "local"}
BY DEF Components, LoadOrder

LEMMA LoadOrderType == \A i \in 1..7 : LoadOrder[i] \in Components
BY DEF Components

LEMMA ConfigRead ==
  ASSUME NEW f \in Configs, NEW c \in Components
  PROVE  f[c] \in Values[c]
BY ComponentList DEF Configs

Put(f, c, v) == [f EXCEPT ![c] = v]

LEMMA ConfigWrite ==
  ASSUME NEW f \in Configs, NEW c \in Components, NEW v \in Values[c]
  PROVE  /\ Put(f, c, v) \in Configs
         /\ Put(f, c, v)[c] = v
         /\ \A d \in Components \ {c} : Put(f, c, v)[d] = f[d]
BY ComponentList DEF Configs, Put

LEMMA HistoryExtend ==
  ASSUME NEW h \in Histories, NEW c \in Components, NEW v \in Values[c]
  PROVE  /\ Extend(h, c, v) \in Histories
         /\ Extend(h, c, v)[c] = h[c] \cup {v}
         /\ \A d \in Components \ {c} : Extend(h, c, v)[d] = h[d]
BY ComponentList DEF Histories, Extend

LEMMA HistorySingletons ==
  ASSUME NEW f \in Configs
  PROVE  /\ Singletons(f) \in Histories
         /\ \A c \in Components : Singletons(f)[c] = {f[c]}
BY ComponentList DEF Configs, Histories, Singletons

(* A thread none of whose variables change keeps its part of the invariant. *)
LEMMA OtherThread ==
  ASSUME NEW u, PathOf(u), VerdictOf(u),
         pc'[u] = pc[u], used'[u] = used[u], query'[u] = query[u],
         result'[u] = result[u], window'[u] = window[u]
  PROVE  PathOf(u)' /\ VerdictOf(u)'
BY DEF PathOf, VerdictOf, Serving, PtrPassed, PolicyPassed

-----------------------------------------------------------------------------
(* The server starts in a state that satisfies the invariant.              *)
LEMMA InitIInv == Init => IInv
<1> SUFFICES ASSUME Init PROVE IInv
  OBVIOUS
<1> USE DEF Init, InitFrom
<1>1. TypeOK
  BY BoundsAssumption, HistorySingletons DEF TypeOK, Labels, Results
<1>2. ReloadInv
  BY HistorySingletons DEF ReloadInv
<1>3. WindowInv /\ ThreadInv
  BY DEF WindowInv, ThreadInv, PathOf, VerdictOf, Serving
<1> QED BY <1>1, <1>2, <1>3 DEF IInv

(* An edit adds the new value to every history it is later compared with.  *)
LEMMA EditIInv ==
  ASSUME IInv, NEW c \in Components, NEW v \in Values[c], Edit(c, v)
  PROVE  IInv'
<1> USE DEF IInv
<1>1. /\ db' \in Configs
      /\ db'[c] = v /\ \A d \in Components \ {c} : db'[d] = db[d]
  <2>1. db \in Configs /\ db' = Put(db, c, v)
    BY DEF TypeOK, Edit, Put
  <2> QED BY <2>1, ConfigWrite
<1>2. /\ since' \in Histories /\ loading' \in Histories
      /\ since'[c] = since[c] \cup {v} /\ loading'[c] = loading[c] \cup {v}
      /\ \A d \in Components \ {c} : since'[d] = since[d] /\ loading'[d] = loading[d]
  <2>1. /\ since \in Histories /\ since' = Extend(since, c, v)
        /\ loading \in Histories /\ loading' = Extend(loading, c, v)
    BY DEF TypeOK, Edit
  <2> QED BY <2>1, HistoryExtend
<1>3. /\ window' \in [Threads -> Histories]
      /\ \A t \in Threads :
           /\ ~Serving(t) => window'[t] = window[t]
           /\ Serving(t) =>
                /\ window'[t][c] = window[t][c] \cup {v}
                /\ \A d \in Components \ {c} : window'[t][d] = window[t][d]
  <2>1. /\ window \in [Threads -> Histories]
        /\ window' = [t \in Threads |-> IF ~Serving(t) THEN window[t]
                                        ELSE Extend(window[t], c, v)]
    BY DEF TypeOK, Edit, Serving
  <2>2. \A t \in Threads :
          /\ Extend(window[t], c, v) \in Histories
          /\ Extend(window[t], c, v)[c] = window[t][c] \cup {v}
          /\ \A d \in Components \ {c} : Extend(window[t], c, v)[d] = window[t][d]
    BY <2>1, HistoryExtend
  <2> QED BY <2>1, <2>2
<1>4. UNCHANGED <<snap, fresh, pos, pc, query, used, result, cached, failures>>
  BY DEF Edit, reloadVars, queryVars
<1>5. TypeOK'
  BY <1>1, <1>2, <1>3, <1>4, BoundsAssumption DEF TypeOK, Edit
<1>6. ReloadInv'
  <2>1. \A i \in 1..pos : LoadOrder[i] \in Components
    BY LoadOrderType DEF TypeOK
  <2> QED BY <1>1, <1>2, <1>4, <2>1 DEF ReloadInv
<1>7. WindowInv'
  BY <1>2, <1>3, <1>4 DEF WindowInv, Serving
<1>8. ThreadInv'
  <2> SUFFICES ASSUME NEW t \in Threads PROVE PathOf(t)' /\ VerdictOf(t)'
    BY DEF ThreadInv
  <2>1. CASE ~Serving(t)
    BY <1>3, <1>4, <2>1, OtherThread DEF ThreadInv
  <2>2. CASE Serving(t)
    <3>1. window[t]["local"] \subseteq window'[t]["local"]
      BY <1>3, <2>2, ComponentList
    <3> QED BY <1>4, <2>2, <3>1 DEF ThreadInv, PathOf, VerdictOf, Serving, PtrPassed, PolicyPassed
  <2> QED BY <2>1, <2>2
<1> QED BY <1>5, <1>6, <1>7, <1>8

(* A reload step touches no thread; publishing narrows since to values the *)
(* pass saw, all of which the open windows contain.                        *)
LEMMA ReloadIInv ==
  ASSUME IInv, BeginReload \/ LoadNext \/ LoadFails \/ Publish
  PROVE  IInv'
<1> USE DEF IInv
<1>1. UNCHANGED <<db, edits, pc, query, used, result, cached, window>>
  BY DEF BeginReload, LoadNext, LoadFails, Publish, queryVars, history
<1>2. ThreadInv'
  BY <1>1, OtherThread DEF ThreadInv
<1>3. CASE BeginReload
  <2>1. LoadOrder[1] \in Components
    BY LoadOrderType
  <2>2. /\ fresh' \in Configs /\ fresh'[LoadOrder[1]] = db[LoadOrder[1]]
        /\ loading' \in Histories /\ \A c \in Components : loading'[c] = {db[c]}
        /\ pos' = 1 /\ UNCHANGED <<snap, since, failures>>
    <3>1. /\ fresh' = Put(fresh, LoadOrder[1], db[LoadOrder[1]])
          /\ loading' = Singletons(db) /\ fresh \in Configs /\ db \in Configs
          /\ pos' = 1 /\ UNCHANGED <<snap, since, failures>>
      BY <1>3 DEF TypeOK, BeginReload, Put
    <3>2. db[LoadOrder[1]] \in Values[LoadOrder[1]]
      BY Zenon, <2>1, <3>1, ConfigRead
    <3> QED BY <2>1, <3>1, <3>2, ConfigWrite, HistorySingletons
  <2>3. TypeOK'
    BY <1>1, <2>2 DEF TypeOK
  <2>4. ReloadInv'
    BY <1>1, <2>1, <2>2 DEF ReloadInv
  <2>5. WindowInv'
    BY <1>1, <2>2 DEF WindowInv, Serving
  <2> QED BY <1>2, <2>3, <2>4, <2>5
<1>4. CASE LoadNext
  <2>1. pos + 1 \in 1..7 /\ LoadOrder[pos + 1] \in Components
    BY <1>4, LoadOrderType DEF LoadNext
  <2>2. /\ fresh' \in Configs
        /\ \A d \in Components :
             fresh'[d] = IF d = LoadOrder[pos + 1] THEN db[LoadOrder[pos + 1]] ELSE fresh[d]
        /\ pos' = pos + 1 /\ pos \in 1..6 /\ UNCHANGED <<snap, since, loading, failures>>
    <3> DEFINE c == LoadOrder[pos + 1]
    <3>1. /\ fresh' = Put(fresh, c, db[c]) /\ fresh \in Configs /\ db \in Configs
          /\ pos' = pos + 1 /\ pos \in 1..6 /\ UNCHANGED <<snap, since, loading, failures>>
      BY <1>4 DEF TypeOK, LoadNext, history, Put
    <3>2. c \in Components
      BY <2>1
    <3> HIDE DEF c
    <3>3. db[c] \in Values[c]
      BY Zenon, <3>1, <3>2, ConfigRead
    <3>4. /\ fresh' \in Configs
          /\ fresh'[c] = db[c] /\ \A d \in Components \ {c} : fresh'[d] = fresh[d]
      BY <3>1, <3>2, <3>3, ConfigWrite
    <3> QED BY <3>1, <3>4 DEF c
  <2>3. TypeOK'
    BY <1>1, <2>1, <2>2 DEF TypeOK
  <2>4. ReloadInv'
    <3>1. ASSUME NEW i \in 1..pos'
          PROVE  fresh'[LoadOrder[i]] \in loading[LoadOrder[i]]
      <4>1. LoadOrder[i] \in Components /\ (i # pos + 1 => i \in 1..pos)
        BY <2>2, LoadOrderType
      <4> QED BY <2>1, <2>2, <4>1 DEF ReloadInv
    <3> QED BY <1>1, <2>2, <3>1 DEF ReloadInv
  <2>5. WindowInv'
    BY <1>1, <2>2 DEF WindowInv, Serving
  <2> QED BY <1>2, <2>3, <2>4, <2>5
<1>5. CASE LoadFails
  <2>1. TypeOK'
    BY <1>1, <1>5, BoundsAssumption DEF TypeOK, LoadFails, history
  <2>2. ReloadInv' /\ WindowInv'
    BY <1>1, <1>5 DEF LoadFails, history, ReloadInv, WindowInv, Serving
  <2> QED BY <1>2, <2>1, <2>2
<1>6. CASE Publish
  <2>1. snap' = fresh /\ since' = loading /\ pos' = 0 /\ UNCHANGED <<fresh, loading, failures>>
    BY <1>6 DEF Publish
  <2>2. TypeOK'
    BY <1>1, <2>1 DEF TypeOK
  <2>3. \A c \in Components : fresh[c] \in loading[c]
    BY <1>6 DEF Publish, ReloadInv, Components
  <2>4. ReloadInv'
    BY <1>1, <2>1, <2>3 DEF ReloadInv
  <2>5. WindowInv'
    BY <1>1, <2>1 DEF WindowInv, Serving, ReloadInv
  <2> QED BY <1>2, <2>2, <2>4, <2>5
<1> QED BY <1>3, <1>4, <1>5, <1>6

-----------------------------------------------------------------------------
(* What a read of component c by thread t does to the values it has read.  *)
LEMMA ReadFacts ==
  ASSUME IInv, NEW t \in Threads, NEW c \in Components, Read(t, c)
  PROVE  /\ used' \in [Threads -> Configs]
         /\ used'[t][c] = snap[c]
         /\ \A d \in Components \ {c} : used'[t][d] = used[t][d]
         /\ \A u \in Threads \ {t} : used'[u] = used[u]
<1>1. used \in [Threads -> Configs] /\ snap \in Configs
  BY DEF IInv, TypeOK
<1>2. used' = [used EXCEPT ![t] = Put(used[t], c, snap[c])]
  BY <1>1 DEF Read, Put
<1>3. used[t] \in Configs /\ snap[c] \in Values[c]
  BY <1>1, ConfigRead
<1>4. /\ Put(used[t], c, snap[c]) \in Configs
      /\ Put(used[t], c, snap[c])[c] = snap[c]
      /\ \A d \in Components \ {c} : Put(used[t], c, snap[c])[d] = used[t][d]
  BY <1>3, ConfigWrite
<1> QED BY <1>1, <1>2, <1>4

(* A step of a serving thread keeps the invariant when the values it has   *)
(* then read are recent and its own part of the invariant holds after it.  *)
LEMMA ServeStep ==
  ASSUME IInv, NEW t \in Threads, Serving(t), Frame, UNCHANGED <<query, window>>,
         NEW l \in Labels \ {"idle"}, pc' = [pc EXCEPT ![t] = l],
         NEW r \in Results, result' = [result EXCEPT ![t] = r],
         used' \in [Threads -> Configs],
         \A u \in Threads \ {t} : used'[u] = used[u],
         \A d \in Components : used'[t][d] \in {used[t][d], snap[d]},
         cached' \subseteq {CacheKey(q) : q \in Queries},
         PathOf(t)', VerdictOf(t)'
  PROVE  IInv'
<1> USE DEF IInv
<1>1. UNCHANGED <<db, edits, snap, fresh, pos, failures, since, loading>>
  BY DEF Frame, reloadVars
<1>2. /\ pc' \in [Threads -> Labels] /\ result' \in [Threads -> Results]
      /\ \A u \in Threads \ {t} : pc'[u] = pc[u] /\ result'[u] = result[u]
      /\ pc'[t] = l
  BY DEF TypeOK
<1>3. TypeOK'
  BY <1>1, <1>2 DEF TypeOK
<1>4. ReloadInv'
  BY <1>1 DEF ReloadInv
<1>5. WindowInv'
  <2> SUFFICES ASSUME NEW u \in Threads, NEW c \in Components
               PROVE  /\ Serving(u)' => since[c] \subseteq window[u][c]
                      /\ pc'[u] # "idle" => used'[u][c] \in window[u][c]
    BY <1>1 DEF WindowInv
  <2>1. CASE u = t
    <3>1. since[c] \subseteq window[t][c] /\ used[t][c] \in window[t][c]
      BY DEF WindowInv, Serving
    <3>2. snap[c] \in window[t][c]
      BY <3>1 DEF ReloadInv
    <3> QED BY <2>1, <3>1, <3>2
  <2>2. CASE u # t
    BY <1>2, <2>2 DEF WindowInv, Serving
  <2> QED BY <2>1, <2>2
<1>6. ThreadInv'
  <2> SUFFICES ASSUME NEW u \in Threads, u # t PROVE PathOf(u)' /\ VerdictOf(u)'
    BY DEF ThreadInv
  <2> QED BY <1>2, OtherThread DEF ThreadInv
<1> QED BY <1>3, <1>4, <1>5, <1>6

(* The same for the actions that read one component.                       *)
LEMMA ReadStep ==
  ASSUME IInv, NEW t \in Threads, Serving(t), Frame, UNCHANGED <<query, window>>,
         NEW l \in Labels \ {"idle"}, pc' = [pc EXCEPT ![t] = l],
         NEW r \in Results, result' = [result EXCEPT ![t] = r],
         NEW c \in Components, Read(t, c),
         cached' \subseteq {CacheKey(q) : q \in Queries},
         PathOf(t)', VerdictOf(t)'
  PROVE  IInv'
<1>1. \A d \in Components : used'[t][d] \in {used[t][d], snap[d]}
  BY ReadFacts
<1> QED BY <1>1, ReadFacts, ServeStep

-----------------------------------------------------------------------------
LEMMA ArriveIInv ==
  ASSUME IInv, NEW t \in Threads, NEW q \in Queries, Arrive(t, q)
  PROVE  IInv'
<1> USE DEF IInv
<1>1. /\ UNCHANGED <<db, edits, snap, fresh, pos, failures, since, loading, cached>>
      /\ query' = [query EXCEPT ![t] = q]
      /\ used' = [used EXCEPT ![t] = snap]
      /\ window' = [window EXCEPT ![t] = since]
      /\ \/ /\ is_trusted(snap["trusted"], q.client)
            /\ pc' = [pc EXCEPT ![t] = "settings"]
            /\ result' = [result EXCEPT ![t] = "none"]
         \/ /\ ~is_trusted(snap["trusted"], q.client)
            /\ pc' = [pc EXCEPT ![t] = "done"]
            /\ result' = [result EXCEPT ![t] = "foreign"]
  BY DEF Arrive, Frame, reloadVars, Reply
<1>2. TypeOK'
  BY <1>1 DEF TypeOK, Labels, Results
<1>3. ReloadInv'
  BY <1>1 DEF ReloadInv
<1>4. WindowInv'
  BY <1>1 DEF WindowInv, Serving, ReloadInv, TypeOK
<1>5. \A u \in Threads \ {t} : PathOf(u)' /\ VerdictOf(u)'
  <2> TAKE u \in Threads \ {t}
  <2>1. /\ pc'[u] = pc[u] /\ used'[u] = used[u] /\ query'[u] = query[u]
        /\ result'[u] = result[u] /\ window'[u] = window[u]
    BY <1>1 DEF TypeOK
  <2> QED BY <2>1, OtherThread DEF ThreadInv
<1>6. PathOf(t)' /\ VerdictOf(t)'
  <2>1. /\ query'[t] = q /\ used'[t] = snap
        /\ \/ /\ is_trusted(snap["trusted"], q.client)
              /\ pc'[t] = "settings" /\ result'[t] = "none"
           \/ /\ ~is_trusted(snap["trusted"], q.client)
              /\ pc'[t] = "done" /\ result'[t] = "foreign"
    BY <1>1 DEF TypeOK
  <2> QED BY <2>1 DEF PathOf, VerdictOf, Verdict, Serving
<1> QED BY <1>2, <1>3, <1>4, <1>5, <1>6 DEF ThreadInv

LEMMA ReadSettingsIInv ==
  ASSUME IInv, NEW t \in Threads, ReadSettings(t)
  PROVE  IInv'
<1> DEFINE l == IF snap["settings"].drop_private_ptr /\ query[t].kind = "PRIVATE_PTR"
                THEN "ptr" ELSE "policies"
<1>1. /\ pc[t] = "settings" /\ Serving(t) /\ Frame /\ UNCHANGED <<query, window, cached>>
      /\ Read(t, "settings") /\ "settings" \in Components
      /\ pc' = [pc EXCEPT ![t] = l] /\ l \in Labels \ {"idle"}
      /\ result' = [result EXCEPT ![t] = "none"] /\ "none" \in Results
      /\ cached' \subseteq {CacheKey(q) : q \in Queries}
  BY ComponentList DEF ReadSettings, Serving, Goto, IInv, ThreadInv, PathOf, TypeOK, Labels, Results
<1>2. /\ used'[t]["settings"] = snap["settings"]
      /\ \A d \in Components \ {"settings"} : used'[t][d] = used[t][d]
      /\ query'[t] = query[t] /\ pc'[t] = l /\ result'[t] = "none"
  BY <1>1, ReadFacts DEF IInv, TypeOK
<1>3. PathOf(t)' /\ VerdictOf(t)'
  BY <1>1, <1>2, ComponentList
  DEF IInv, ThreadInv, PathOf, VerdictOf, Serving, PtrPassed, PtrDropped
<1> HIDE DEF l
<1> QED BY <1>1, <1>3, ReadStep

LEMMA CheckPrivatePtrIInv ==
  ASSUME IInv, NEW t \in Threads, CheckPrivatePtr(t)
  PROVE  IInv'
<1> DEFINE cond == Name(query[t]) \in snap["local"]
           l == IF cond THEN "policies" ELSE "done"
           r == IF cond THEN "none" ELSE "ptr-nodata"
<1>1. /\ pc[t] = "ptr" /\ Serving(t) /\ Frame /\ UNCHANGED <<query, window, cached>>
      /\ Read(t, "local") /\ "local" \in Components
      /\ pc' = [pc EXCEPT ![t] = l] /\ l \in Labels \ {"idle"}
      /\ result' = [result EXCEPT ![t] = r] /\ r \in Results
      /\ cached' \subseteq {CacheKey(q) : q \in Queries}
  BY ComponentList
  DEF CheckPrivatePtr, Serving, Goto, Reply, IInv, ThreadInv, PathOf, TypeOK, Labels, Results
<1>2. /\ used'[t]["local"] = snap["local"]
      /\ \A d \in Components \ {"local"} : used'[t][d] = used[t][d]
      /\ query'[t] = query[t] /\ pc'[t] = l /\ result'[t] = r /\ window'[t] = window[t]
  BY <1>1, ReadFacts DEF IInv, TypeOK
<1>3. PathOf(t)' /\ VerdictOf(t)'
  BY <1>1, <1>2, ComponentList
  DEF IInv, ThreadInv, PathOf, VerdictOf, Serving, PtrPassed, PtrDropped, Verdict
<1> HIDE DEF cond, l, r
<1> QED BY <1>1, <1>3, ReadStep

LEMMA ReadExcludedIInv ==
  ASSUME IInv, NEW t \in Threads, ReadExcluded(t)
  PROVE  IInv'
<1> DEFINE cond == query[t].client \in snap["excluded"]
           l == IF cond THEN "local" ELSE "blocklist"
           r == IF cond THEN "none" ELSE "none"
<1>1. /\ pc[t] = "excluded" /\ Serving(t) /\ Frame /\ UNCHANGED <<query, window, cached>>
      /\ Read(t, "excluded") /\ "excluded" \in Components
      /\ pc' = [pc EXCEPT ![t] = l] /\ l \in Labels \ {"idle"}
      /\ result' = [result EXCEPT ![t] = r] /\ r \in Results
      /\ cached' \subseteq {CacheKey(q) : q \in Queries}
  BY ComponentList
  DEF ReadExcluded, Serving, Goto, Reply, IInv, ThreadInv, PathOf, TypeOK, Labels, Results
<1>2. /\ used'[t]["excluded"] = snap["excluded"]
      /\ \A d \in Components \ {"excluded"} : used'[t][d] = used[t][d]
      /\ query'[t] = query[t] /\ pc'[t] = l /\ result'[t] = r /\ window'[t] = window[t]
  BY <1>1, ReadFacts DEF IInv, TypeOK
<1>3. PathOf(t)' /\ VerdictOf(t)'
  BY <1>1, <1>2, ComponentList
  DEF IInv, ThreadInv, PathOf, VerdictOf, Serving, PtrPassed, PtrDropped, PolicyPassed, BlocklistApplies
<1> HIDE DEF cond, l, r
<1> QED BY <1>1, <1>3, ReadStep

LEMMA ReadBlocklistIInv ==
  ASSUME IInv, NEW t \in Threads, ReadBlocklist(t)
  PROVE  IInv'
<1> DEFINE cond == is_blocked(snap["blocklist"], Name(query[t]))
           l == IF cond THEN "done" ELSE "local"
           r == IF cond THEN "blocklist" ELSE "none"
<1>1. /\ pc[t] = "blocklist" /\ Serving(t) /\ Frame /\ UNCHANGED <<query, window, cached>>
      /\ Read(t, "blocklist") /\ "blocklist" \in Components
      /\ pc' = [pc EXCEPT ![t] = l] /\ l \in Labels \ {"idle"}
      /\ result' = [result EXCEPT ![t] = r] /\ r \in Results
      /\ cached' \subseteq {CacheKey(q) : q \in Queries}
  BY ComponentList
  DEF ReadBlocklist, Serving, Goto, Reply, IInv, ThreadInv, PathOf, TypeOK, Labels, Results
<1>2. /\ used'[t]["blocklist"] = snap["blocklist"]
      /\ \A d \in Components \ {"blocklist"} : used'[t][d] = used[t][d]
      /\ query'[t] = query[t] /\ pc'[t] = l /\ result'[t] = r /\ window'[t] = window[t]
  BY <1>1, ReadFacts DEF IInv, TypeOK
<1>3. PathOf(t)' /\ VerdictOf(t)'
  BY <1>1, <1>2, ComponentList
  DEF IInv, ThreadInv, PathOf, VerdictOf, Serving, PtrPassed, PtrDropped, PolicyPassed, BlocklistApplies, Verdict, Screened
<1> HIDE DEF cond, l, r
<1> QED BY <1>1, <1>3, ReadStep

LEMMA ReadLocalIInv ==
  ASSUME IInv, NEW t \in Threads, ReadLocal(t)
  PROVE  IInv'
<1> DEFINE cond == Name(query[t]) \in snap["local"]
           l == IF cond THEN "done" ELSE "cache"
           r == IF cond THEN "local" ELSE "none"
<1>1. /\ pc[t] = "local" /\ Serving(t) /\ Frame /\ UNCHANGED <<query, window, cached>>
      /\ Read(t, "local") /\ "local" \in Components
      /\ pc' = [pc EXCEPT ![t] = l] /\ l \in Labels \ {"idle"}
      /\ result' = [result EXCEPT ![t] = r] /\ r \in Results
      /\ cached' \subseteq {CacheKey(q) : q \in Queries}
  BY ComponentList
  DEF ReadLocal, Serving, Goto, Reply, IInv, ThreadInv, PathOf, TypeOK, Labels, Results
<1>2. /\ used'[t]["local"] = snap["local"]
      /\ \A d \in Components \ {"local"} : used'[t][d] = used[t][d]
      /\ query'[t] = query[t] /\ pc'[t] = l /\ result'[t] = r /\ window'[t] = window[t]
  BY <1>1, ReadFacts DEF IInv, TypeOK
<1>3. PtrPassed(t)'
  <2>1. PtrPassed(t) /\ used[t]["local"] \in window[t]["local"]
    BY <1>1, ComponentList DEF IInv, ThreadInv, PathOf, WindowInv
  <2>2. CASE Name(query[t]) \in used[t]["local"]
    BY <1>2, <2>1, <2>2 DEF PtrPassed
  <2>3. CASE Name(query[t]) \notin used[t]["local"]
    BY <1>2, <2>1, <2>3, ComponentList DEF PtrPassed, PtrDropped
  <2> QED BY <2>2, <2>3
<1>4. PathOf(t)'
  BY <1>1, <1>2, <1>3, ComponentList
  DEF IInv, ThreadInv, PathOf, Serving, PolicyPassed, BlocklistApplies
<1>5. VerdictOf(t)'
  <2> SUFFICES ASSUME cond PROVE VerdictOf(t)'
    BY <1>2 DEF VerdictOf
  <2>1. Screened(used'[t], query[t]) = {"local"}
    BY <1>1, <1>2, ComponentList
    DEF IInv, ThreadInv, PathOf, PolicyPassed, BlocklistApplies, Screened
  <2>2. is_trusted(used'[t]["trusted"], query[t].client)
    BY <1>1, <1>2, ComponentList DEF IInv, ThreadInv, PathOf
  <2> QED BY <1>2, <1>3, <2>1, <2>2 DEF VerdictOf, Verdict, PtrPassed
<1> HIDE DEF cond, l, r
<1> QED BY <1>1, <1>4, <1>5, ReadStep

LEMMA ReadPoliciesIInv ==
  ASSUME IInv, NEW t \in Threads, ReadPolicies(t)
  PROVE  IInv'
<1> DEFINE action == ActionFor(snap["policies"], used[t]["settings"], query[t])
           v6 == NoIPv6(used[t]["settings"], query[t])
           l == IF v6 \/ action \in {"override", "deny"} THEN "done" ELSE "excluded"
           r == IF v6 THEN "nodata" ELSE IF action \in {"override", "deny"} THEN action
                ELSE "none"
<1>1. /\ pc[t] = "policies" /\ Serving(t) /\ Frame /\ UNCHANGED <<query, window, cached>>
      /\ Read(t, "policies") /\ "policies" \in Components
      /\ pc' = [pc EXCEPT ![t] = l] /\ l \in Labels \ {"idle"}
      /\ result' = [result EXCEPT ![t] = r] /\ r \in Results
      /\ cached' \subseteq {CacheKey(q) : q \in Queries}
  BY ComponentList
  DEF ReadPolicies, Serving, Goto, Reply, IInv, ThreadInv, PathOf, TypeOK, Labels, Results
<1>2. /\ used'[t]["policies"] = snap["policies"]
      /\ \A d \in Components \ {"policies"} : used'[t][d] = used[t][d]
      /\ query'[t] = query[t] /\ pc'[t] = l /\ result'[t] = r /\ window'[t] = window[t]
  BY <1>1, ReadFacts DEF IInv, TypeOK
<1>3. /\ used'[t]["settings"] = used[t]["settings"] /\ used'[t]["local"] = used[t]["local"]
      /\ used'[t]["trusted"] = used[t]["trusted"]
  BY <1>2, ComponentList
<1>4. PtrPassed(t)' /\ is_trusted(used'[t]["trusted"], query[t].client)
  BY <1>1, <1>2, <1>3 DEF IInv, ThreadInv, PathOf, Serving, PtrPassed, PtrDropped
<1>5. PathOf(t)'
  BY <1>1, <1>2, <1>3, <1>4 DEF IInv, ThreadInv, PathOf, Serving, PolicyPassed
<1>6. VerdictOf(t)'
  <2>1. l = "done" => r \in Screened(used'[t], query[t])
    BY <1>2, <1>3 DEF Screened
  <2> QED BY <1>2, <1>4, <2>1 DEF VerdictOf, Verdict, PtrPassed
<1> HIDE DEF action, v6, l, r
<1> QED BY <1>1, <1>5, <1>6, ReadStep

(* A query past every screen: what it has read allows the last stage.      *)
LEMMA LastStage ==
  ASSUME IInv, NEW t \in Threads, pc[t] \in {"cache", "upstreams"}
  PROVE  /\ PtrPassed(t) /\ PolicyPassed(t) /\ query[t] \in Queries
         /\ is_trusted(used[t]["trusted"], query[t].client)
         /\ Screened(used[t], query[t]) = Outcomes(used[t])
BY DEF IInv, ThreadInv, PathOf, Serving, PolicyPassed, Screened

LEMMA CacheIInv ==
  ASSUME IInv, NEW t \in Threads, CacheHit(t) \/ CacheMiss(t)
  PROVE  IInv'
<1> DEFINE hit == CacheHit(t)
           l == IF hit THEN "done" ELSE "upstreams"
           r == IF hit THEN "forward-cache" ELSE "none"
<1>1. /\ pc[t] = "cache" /\ Serving(t) /\ Frame /\ UNCHANGED <<query, window, used>>
      /\ pc' = [pc EXCEPT ![t] = l] /\ l \in Labels \ {"idle"}
      /\ result' = [result EXCEPT ![t] = r] /\ r \in Results
      /\ cached' \subseteq {CacheKey(q) : q \in Queries}
      /\ hit => used[t]["settings"].cache_enabled
  <2>1. pc[t] = "cache" /\ Serving(t) /\ result[t] = "none"
    BY DEF CacheHit, CacheMiss, Serving, IInv, ThreadInv, PathOf
  <2>2. CASE hit
    BY <2>1, <2>2 DEF CacheHit, Reply, IInv, TypeOK, Labels, Results
  <2>3. CASE ~hit
    <3>1. CacheMiss(t)
      BY <2>3
    <3> HIDE DEF hit
    <3> QED BY <2>1, <2>3, <3>1 DEF CacheMiss, Goto, IInv, TypeOK, Labels, Results
  <2> QED BY <2>2, <2>3
<1>2. pc'[t] = l /\ result'[t] = r
  BY <1>1 DEF IInv, TypeOK
<1> HIDE DEF hit
<1>3. PathOf(t)'
  BY <1>1, <1>2 DEF IInv, ThreadInv, PathOf, Serving, PtrPassed, PolicyPassed
<1>4. VerdictOf(t)'
  <2>1. hit => r \in Screened(used[t], query[t])
    BY <1>1, LastStage DEF Outcomes
  <2> QED BY <1>1, <1>2, <2>1, LastStage DEF VerdictOf, Verdict, PtrPassed
<1>5. used' \in [Threads -> Configs]
  BY <1>1 DEF IInv, TypeOK
<1> HIDE DEF l, r
<1> QED BY <1>1, <1>3, <1>4, <1>5, ServeStep

LEMMA ForwardIInv ==
  ASSUME IInv, NEW t \in Threads, Forward(t) \/ ForwardFails(t)
  PROVE  IInv'
<1> DEFINE r == IF Forward(t) THEN "forward" ELSE "servfail"
<1>1. pc[t] = "upstreams" /\ Serving(t) /\ "upstreams" \in Components
  BY ComponentList DEF Forward, ForwardFails, Serving
<1>2. query[t] \in Queries
  BY <1>1, LastStage
<1>3. /\ Frame /\ UNCHANGED <<query, window>> /\ Read(t, "upstreams")
      /\ pc' = [pc EXCEPT ![t] = "done"] /\ "done" \in Labels \ {"idle"}
      /\ result' = [result EXCEPT ![t] = r] /\ r \in Results
      /\ cached' \subseteq {CacheKey(q) : q \in Queries}
      /\ r = "forward" => snap["upstreams"] # {}
  <2>1. CASE Forward(t)
    BY <1>2, <2>1 DEF Forward, Reply, IInv, TypeOK, Labels, Results
  <2>2. CASE ~Forward(t)
    <3>1. ForwardFails(t) /\ r = "servfail"
      BY <2>2
    <3> HIDE DEF r
    <3> QED BY <3>1 DEF ForwardFails, Reply, IInv, TypeOK, Labels, Results
  <2> QED BY <2>1, <2>2
<1>4. /\ used'[t]["upstreams"] = snap["upstreams"]
      /\ \A d \in Components \ {"upstreams"} : used'[t][d] = used[t][d]
      /\ query'[t] = query[t] /\ pc'[t] = "done" /\ result'[t] = r /\ window'[t] = window[t]
  BY <1>1, <1>3, ReadFacts DEF IInv, TypeOK
<1>5. PathOf(t)'
  BY <1>4 DEF PathOf, Serving
<1>6. VerdictOf(t)'
  <2>1. r \in Outcomes(used'[t])
    BY <1>3, <1>4 DEF Outcomes
  <2>2. Screened(used'[t], query[t]) = Outcomes(used'[t])
    BY <1>1, <1>4, ComponentList
    DEF IInv, ThreadInv, PathOf, PolicyPassed, BlocklistApplies, Screened
  <2>3. is_trusted(used'[t]["trusted"], query[t].client) /\ PtrPassed(t)'
    BY <1>1, <1>4, LastStage, ComponentList DEF PtrPassed, PtrDropped
  <2> HIDE DEF r
  <2> QED BY <1>4, <2>1, <2>2, <2>3 DEF VerdictOf, Verdict, PtrPassed
<1> HIDE DEF r
<1> QED BY <1>1, <1>3, <1>5, <1>6, ReadStep

-----------------------------------------------------------------------------
(* The invariant holds in every state.                                     *)
THEOREM Invariance == Spec => []IInv
<1>1. IInv /\ UNCHANGED vars => IInv'
  BY DEF IInv, vars, reloadVars, queryVars, history, TypeOK, ReloadInv, WindowInv,
         ThreadInv, PathOf, VerdictOf, Serving, PtrPassed, PolicyPassed
<1>2. IInv /\ Next => IInv'
  <2> SUFFICES ASSUME IInv, Next PROVE IInv'
    OBVIOUS
  <2>1. ASSUME NEW t \in Threads, Serve(t) PROVE IInv'
    BY <2>1, ArriveIInv, ReadSettingsIInv, CheckPrivatePtrIInv, ReadPoliciesIInv,
       ReadExcludedIInv, ReadBlocklistIInv, ReadLocalIInv, CacheIInv, ForwardIInv DEF Serve
  <2> QED BY <2>1, EditIInv, ReloadIInv DEF Next, Reload
<1> QED BY <1>1, <1>2, InitIInv, PTL DEF Spec

(* Every variable of the refresher and of the queries keeps its type.      *)
THEOREM TypeTheorem == Spec => []TypeOK
<1>1. IInv => TypeOK
  BY DEF IInv
<1> QED BY <1>1, Invariance, PTL

(* No query is answered from configuration older than the last reload pass *)
(* completed before it arrived.                                            *)
THEOREM RecentReads == Spec => []ReadsAreRecent
<1>1. IInv => ReadsAreRecent
  BY DEF IInv, WindowInv, ReadsAreRecent
<1> QED BY <1>1, Invariance, PTL

(* Every answer is a verdict of the documented screens on the values read. *)
THEOREM VerdictTheorem == Spec => []VerdictOfReads
<1>1. IInv => VerdictOfReads
  BY DEF IInv, ThreadInv, VerdictOf, VerdictOfReads
<1> QED BY <1>1, Invariance, PTL

(* Nothing gets past a screen that was closed during the whole window.     *)
THEOREM EnforcedScreeningTheorem == Spec => []EnforcedScreening
<1>1. IInv => EnforcedScreening
  <2> SUFFICES ASSUME IInv, NEW t \in Threads,
                      result[t] \in {"forward", "forward-cache", "servfail"}
               PROVE  LET w == window[t]  q == query[t]
                      IN  /\ \E nets \in w["trusted"] : is_trusted(nets, q.client)
                          /\ \E p \in w["policies"], s \in w["settings"] :
                               /\ ActionFor(p, s, q) \notin {"deny", "override"}
                               /\ ~NoIPv6(s, q)
                          /\ \/ \E x \in w["excluded"] : q.client \in x
                             \/ \E b \in w["blocklist"] : ~is_blocked(b, Name(q))
                          /\ \E records \in w["local"] : Name(q) \notin records
    BY DEF EnforcedScreening
  <2> DEFINE f == used[t]
             q == query[t]
  <2>1. pc[t] = "done"
    BY DEF IInv, ThreadInv, PathOf
  <2>2. \A c \in Components : f[c] \in window[t][c]
    BY <2>1 DEF IInv, WindowInv
  <2>3. is_trusted(f["trusted"], q.client) /\ result[t] \in Screened(f, q)
    BY <2>1 DEF IInv, ThreadInv, VerdictOf, Verdict
  <2> HIDE DEF f, q
  <2>4. /\ ~NoIPv6(f["settings"], q)
        /\ ActionFor(f["policies"], f["settings"], q) \notin {"deny", "override"}
        /\ ~BlocklistApplies(f, q) /\ Name(q) \notin f["local"]
    BY <2>3 DEF Screened
  <2>5. q.client \in f["excluded"] \/ ~is_blocked(f["blocklist"], Name(q))
    BY <2>4 DEF BlocklistApplies
  <2>6. /\ f["trusted"] \in window[t]["trusted"] /\ f["policies"] \in window[t]["policies"]
        /\ f["settings"] \in window[t]["settings"] /\ f["local"] \in window[t]["local"]
        /\ f["excluded"] \in window[t]["excluded"] /\ f["blocklist"] \in window[t]["blocklist"]
    BY <2>2, ComponentList
  <2> QED BY <2>3, <2>4, <2>5, <2>6 DEF q
<1> QED BY <1>1, Invariance, PTL

(* The published snapshot only ever becomes one pass's loads.              *)
THEOREM PublicationTheorem == Spec => PublishedFromOnePass
<1>1. IInv /\ [Next]_vars => [snap' # snap =>
        \A c \in Components : snap'[c] \in loading[c]]_vars
  <2> SUFFICES ASSUME IInv, Next, snap' # snap
               PROVE  \A c \in Components : snap'[c] \in loading[c]
    BY DEF vars
  <2>1. Publish
    BY DEF Next, Edit, Reload, BeginReload, LoadNext, LoadFails, reloadVars, Serve, Frame,
           Arrive, ReadSettings, CheckPrivatePtr, ReadPolicies, ReadExcluded,
           ReadBlocklist, ReadLocal, CacheHit, CacheMiss, Forward, ForwardFails
  <2> QED BY <2>1 DEF Publish, IInv, ReloadInv, Components
<1> QED BY <1>1, Invariance, PTL DEF Spec, PublishedFromOnePass
=============================================================================
