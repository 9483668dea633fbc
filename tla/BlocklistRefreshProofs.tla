----------------------- MODULE BlocklistRefreshProofs -----------------------
(***************************************************************************)
(* Proofs about BlocklistRefresh, for any number of lists, domains and API *)
(* threads, and any number of requests, elapsed intervals and failures.    *)
(***************************************************************************)
EXTENDS BlocklistRefresh, FiniteSetTheorems, WellFoundedInduction, TLAPS

-----------------------------------------------------------------------------
(* The types, without the counters and the sampled size.                   *)
Places == {"idle", "cycle", "download", "read", "write", "record", "sample"}
Busy == {"download", "read", "write", "record"}

Tables ==
  /\ rows \in [Ids -> Row \cup {NoRow}] /\ overrides \subseteq Domains
  /\ stored \in [Ids -> SUBSET Domains]
  /\ todo \subseteq Ids /\ deleting \in Ids \cup {NoId}
  /\ disturbed \subseteq Ids /\ unapplied \in [Ids -> SUBSET Domains]
  /\ slipped \in [Ids -> SUBSET Domains]

Locals ==
  /\ pc \in [Refreshers -> Places] /\ id \in [Refreshers -> Ids \cup {NoId}]
  /\ exempt \in [Refreshers -> SUBSET Domains]
  /\ desired \in [Refreshers -> SUBSET Domains]
  /\ existing \in [Refreshers -> SUBSET Domains]
  /\ valid \in [Refreshers -> BOOLEAN]
  /\ \A r \in Refreshers : pc[r] \in Busy => id[r] \in Ids

(* The overrides a refresh loaded are out of what it is going to store; a  *)
(* refresh that is valid has left exactly its domains in the table.        *)
Exempted ==
  \A r \in Refreshers : pc[r] \in {"read", "write", "record"} => desired[r] \cap exempt[r] = {}

Faithful ==
  \A r \in Refreshers : pc[r] = "record" /\ valid[r] => stored[id[r]] = desired[r]

ListInv ==
  Tables /\ Locals /\ Exempted /\ Faithful /\ DomainCountSettled /\ OverridesApplied

-----------------------------------------------------------------------------
(* A count of stored domains is a number.                                  *)
LEMMA CountOfDomains ==
  ASSUME NEW S \in SUBSET Domains
  PROVE  Cardinality(S) \in Nat
<1>1. IsFiniteSet(S)
      BY BlocklistAssumption, FS_Subset
<1> QED
    BY <1>1, FS_CardinalityType

(* No list is disturbed, and no row other than those of a request moves.   *)
LEMMA ConfigKeeps ==
  ASSUME ListInv, Tables', UNCHANGED <<stored, localVars, valid, disturbed>>,
         \A i \in Ids : rows'[i] # NoRow =>
           rows[i] # NoRow /\ rows'[i].domain_count = rows[i].domain_count,
         OverridesApplied'
  PROVE  ListInv'
<1>1. UNCHANGED <<pc, id, exempt, desired, existing>>
      BY DEF localVars
<1>2. Locals' /\ Exempted'
      BY <1>1 DEF ListInv, Locals, Exempted
<1>3. Faithful'
      BY <1>1 DEF ListInv, Faithful
<1>4. DomainCountSettled'
      BY DEF ListInv, DomainCountSettled, Existing
<1> QED
    BY <1>2, <1>3, <1>4 DEF ListInv

(* A refresher forgets its locals.                                         *)
LEMMA LeaveKeeps ==
  ASSUME ListInv, NEW r \in Refreshers, NEW next \in {"cycle", "sample"}, Leave(r, next),
         UNCHANGED stored
  PROVE  Locals' /\ Exempted' /\ Faithful'
<1>1. /\ pc' = [pc EXCEPT ![r] = IF r = "worker" THEN next ELSE "idle"]
      /\ id' = [id EXCEPT ![r] = NoId] /\ exempt' = [exempt EXCEPT ![r] = {}]
      /\ desired' = [desired EXCEPT ![r] = {}] /\ existing' = [existing EXCEPT ![r] = {}]
      /\ valid' = [valid EXCEPT ![r] = FALSE]
      BY DEF Leave, Goto
<1>2. /\ pc'[r] \in {"cycle", "sample", "idle"}
      /\ \A s \in Refreshers \ {r} : /\ pc'[s] = pc[s] /\ id'[s] = id[s]
                                     /\ desired'[s] = desired[s] /\ exempt'[s] = exempt[s]
                                     /\ valid'[s] = valid[s]
      BY <1>1 DEF ListInv, Locals
<1>3. Locals'
  <2>1. /\ pc' \in [Refreshers -> Places] /\ id' \in [Refreshers -> Ids \cup {NoId}]
        /\ exempt' \in [Refreshers -> SUBSET Domains]
        /\ desired' \in [Refreshers -> SUBSET Domains]
        /\ existing' \in [Refreshers -> SUBSET Domains]
        /\ valid' \in [Refreshers -> BOOLEAN]
        BY <1>1 DEF ListInv, Locals, Places
  <2>2. \A s \in Refreshers : pc'[s] \in Busy => id'[s] \in Ids
        BY <1>2 DEF ListInv, Locals, Busy
  <2> QED
      BY <2>1, <2>2 DEF Locals
<1>4. Exempted'
      BY <1>2 DEF ListInv, Exempted
<1>5. Faithful'
      BY <1>2 DEF ListInv, Faithful
<1> QED
    BY <1>3, <1>4, <1>5

(* The steps of a refresh.  The overrides leave what is to be stored.      *)
LEMMA DownloadKeeps ==
  ASSUME ListInv, NEW r \in Refreshers, NEW text \in Texts, Download(r, text)
  PROVE  ListInv'
<1>1. /\ pc[r] = "download" /\ pc' = [pc EXCEPT ![r] = "read"]
      /\ exempt' = [exempt EXCEPT ![r] = overrides]
      /\ desired' = [desired EXCEPT ![r] = text \ overrides]
      /\ UNCHANGED <<rows, overrides, stored, id, existing, todo, deleting>>
      /\ UNCHANGED <<valid, disturbed, unapplied, slipped>>
      BY DEF Download, Goto, RefreshFrame, apply_overrides, history
<1>2. text \ overrides \subseteq Domains /\ overrides \subseteq Domains
      BY DEF Texts, ListInv, Tables
<1>3. Tables'
      BY <1>1 DEF ListInv, Tables
<1>4. /\ pc'[r] = "read" /\ desired'[r] = text \ overrides /\ exempt'[r] = overrides
      /\ \A s \in Refreshers \ {r} : /\ pc'[s] = pc[s] /\ desired'[s] = desired[s]
                                     /\ exempt'[s] = exempt[s]
      BY <1>1 DEF ListInv, Locals
<1>5. Locals'
  <2>1. /\ pc' \in [Refreshers -> Places]
        /\ exempt' \in [Refreshers -> SUBSET Domains]
        /\ desired' \in [Refreshers -> SUBSET Domains]
        BY <1>1, <1>2 DEF ListInv, Locals, Places
  <2>2. \A s \in Refreshers : pc'[s] \in Busy => id'[s] \in Ids
        BY <1>1, <1>4 DEF ListInv, Locals, Busy
  <2> QED
      BY <1>1, <2>1, <2>2 DEF ListInv, Locals
<1>6. Exempted'
      BY <1>4 DEF ListInv, Exempted
<1>7. Faithful'
      BY <1>1, <1>4 DEF ListInv, Faithful
<1>8. DomainCountSettled' /\ OverridesApplied'
      BY <1>1 DEF ListInv, DomainCountSettled, Existing, OverridesApplied
<1> QED
    BY <1>3, <1>5, <1>6, <1>7, <1>8 DEF ListInv

LEMMA ReadKeeps ==
  ASSUME ListInv, NEW r \in Refreshers, ReadExisting(r)
  PROVE  ListInv'
<1>1. /\ pc[r] = "read" /\ pc' = [pc EXCEPT ![r] = "write"]
      /\ existing' = [existing EXCEPT ![r] = stored[id[r]]]
      /\ UNCHANGED <<rows, overrides, stored, id, exempt, desired, todo, deleting>>
      /\ UNCHANGED <<valid, disturbed, unapplied, slipped>>
      BY DEF ReadExisting, Goto, RefreshFrame, history
<1>2. stored[id[r]] \subseteq Domains /\ id[r] \in Ids
      BY <1>1 DEF ListInv, Tables, Locals, Busy
<1>3. Tables'
      BY <1>1 DEF ListInv, Tables
<1>4. pc'[r] = "write" /\ \A s \in Refreshers \ {r} : pc'[s] = pc[s]
      BY <1>1 DEF ListInv, Locals
<1>5. Locals'
  <2>1. /\ pc' \in [Refreshers -> Places]
        /\ existing' \in [Refreshers -> SUBSET Domains]
        BY <1>1, <1>2 DEF ListInv, Locals, Places
  <2>2. \A s \in Refreshers : pc'[s] \in Busy => id'[s] \in Ids
        BY <1>1, <1>2, <1>4 DEF ListInv, Locals, Busy
  <2> QED
      BY <1>1, <2>1, <2>2 DEF ListInv, Locals
<1>6. Exempted'
      BY <1>1, <1>4 DEF ListInv, Exempted
<1>7. Faithful'
      BY <1>1, <1>4 DEF ListInv, Faithful
<1>8. DomainCountSettled' /\ OverridesApplied'
      BY <1>1 DEF ListInv, DomainCountSettled, Existing, OverridesApplied
<1> QED
    BY <1>3, <1>5, <1>6, <1>7, <1>8 DEF ListInv

(* A write that finds the table as it read it leaves exactly its domains;  *)
(* one that does not leaves some mixture, and says so.                     *)
LEMMA WriteKeeps ==
  ASSUME ListInv, NEW r \in Refreshers, Write(r)
  PROVE  ListInv'
<1>i. PICK i : i = id[r]
      OBVIOUS
<1>w. PICK new : new = (stored[i] \ (existing[r] \ desired[r])) \cup (desired[r] \ existing[r])
      OBVIOUS
<1>1. /\ pc[r] = "write" /\ pc' = [pc EXCEPT ![r] = "record"]
      /\ stored' = [stored EXCEPT ![i] = new]
      /\ disturbed' = disturbed \cup {i}
      /\ UNCHANGED <<rows, overrides, id, exempt, desired, existing, todo, deleting>>
      BY <1>i, <1>w DEF Write, Goto, RefreshFrame, Replace, Removed, Added
<1>2. /\ valid' = [s \in Refreshers |-> IF s = r THEN stored[i] = existing[r]
                                        ELSE valid[s] /\ s \notin Recording(i)]
      /\ unapplied' = [unapplied EXCEPT ![i] = overrides \ exempt[r]]
      /\ slipped' = [slipped EXCEPT ![i] = stored[i] \ existing[r]]
      BY <1>i DEF Write
<1>3. /\ i \in Ids /\ stored[i] \subseteq Domains /\ desired[r] \subseteq Domains
      /\ existing[r] \subseteq Domains /\ new \subseteq Domains
      /\ overrides \subseteq Domains
      BY <1>1, <1>i, <1>w DEF ListInv, Tables, Locals, Busy
<1>4. stored[i] = existing[r] => new = desired[r]
      BY <1>w
<1>5. /\ pc'[r] = "record" /\ \A s \in Refreshers \ {r} : pc'[s] = pc[s]
      /\ stored'[i] = new /\ \A j \in Ids \ {i} : stored'[j] = stored[j]
      BY <1>1, <1>3 DEF ListInv, Locals, Tables
<1>6. Tables'
  <2>1. stored' \in [Ids -> SUBSET Domains] /\ disturbed' \subseteq Ids
        BY <1>1, <1>3 DEF ListInv, Tables
  <2>2. unapplied' \in [Ids -> SUBSET Domains] /\ slipped' \in [Ids -> SUBSET Domains]
        BY <1>2, <1>3 DEF ListInv, Tables
  <2> QED
      BY <1>1, <2>1, <2>2 DEF ListInv, Tables
<1>7. Locals'
  <2>1. pc' \in [Refreshers -> Places]
        BY <1>1 DEF ListInv, Locals, Places
  <2>2. \A s \in Refreshers : pc'[s] \in Busy => id'[s] \in Ids
        BY <1>1, <1>3, <1>5, <1>i DEF ListInv, Locals, Busy
  <2>3. valid' \in [Refreshers -> BOOLEAN]
    <3>1. \A s \in Refreshers : valid'[s] \in BOOLEAN
          BY <1>2 DEF ListInv, Locals
    <3>2. valid' = [s \in Refreshers |-> valid'[s]]
          BY <1>2
    <3> QED
        BY <3>1, <3>2
  <2> QED
      BY <1>1, <2>1, <2>2, <2>3 DEF ListInv, Locals
<1>8. Exempted'
      BY <1>1, <1>5 DEF ListInv, Exempted
<1>9. Faithful'
  <2> SUFFICES ASSUME NEW s \in Refreshers, pc'[s] = "record", valid'[s]
               PROVE  stored'[id[s]] = desired[s]
      BY <1>1 DEF Faithful
  <2>1. CASE s = r
        BY <1>2, <1>4, <1>5, <1>i, <2>1
  <2>2. CASE s # r
    <3>1. valid[s] /\ s \notin Recording(i) /\ pc[s] = "record"
          BY <1>2, <1>5, <2>2
    <3>2. id[s] # i /\ id[s] \in Ids
          BY <3>1 DEF Recording, ListInv, Locals, Busy
    <3> QED
        BY <1>5, <3>1, <3>2 DEF ListInv, Faithful
  <2> QED
      BY <2>1, <2>2
<1>10. DomainCountSettled'
  <2> SUFFICES ASSUME NEW j \in Ids, rows[j] # NoRow, j \notin disturbed'
               PROVE  rows[j].domain_count = Cardinality(stored'[j])
      BY <1>1 DEF DomainCountSettled, Existing
  <2>1. j # i /\ j \notin disturbed
        BY <1>1
  <2> QED
      BY <1>5, <2>1 DEF ListInv, DomainCountSettled, Existing
<1>11. OverridesApplied'
  <2> SUFFICES ASSUME NEW j \in Ids
               PROVE  stored'[j] \cap overrides \subseteq unapplied'[j] \cup slipped'[j]
      BY <1>1 DEF OverridesApplied
  <2>1. CASE j # i
    <3>1. unapplied'[j] = unapplied[j] /\ slipped'[j] = slipped[j]
          BY <1>2, <2>1 DEF ListInv, Tables
    <3> QED
        BY <1>5, <2>1, <3>1 DEF ListInv, OverridesApplied
  <2>2. CASE j = i
    <3>1. desired[r] \cap exempt[r] = {}
          BY <1>1 DEF ListInv, Exempted
    <3>2. unapplied'[i] = overrides \ exempt[r] /\ slipped'[i] = stored[i] \ existing[r]
          BY <1>2, <1>3 DEF ListInv, Tables
    <3>3. new \subseteq (stored[i] \ existing[r]) \cup desired[r]
          BY <1>w
    <3> QED
        BY <1>5, <2>2, <3>1, <3>2, <3>3
  <2> QED
      BY <2>1, <2>2
<1> QED
    BY <1>6, <1>7, <1>8, <1>9, <1>10, <1>11 DEF ListInv

LEMMA FailsKeeps ==
  ASSUME ListInv, NEW r \in Refreshers, DownloadFails(r)
  PROVE  ListInv'
<1>1. /\ pc[r] = "download" /\ rows' = [rows EXCEPT ![id[r]] = Attempted(rows[id[r]])]
      /\ Leave(r, "cycle") /\ todo' = IF r = "worker" THEN todo \ {id[r]} ELSE todo
      /\ UNCHANGED <<overrides, stored, deleting, disturbed, unapplied, slipped>>
      BY DEF DownloadFails, Done, RefreshFrame
<1>2. id[r] \in Ids /\ rows[id[r]] \in Row \cup {NoRow}
      BY <1>1 DEF ListInv, Tables, Locals, Busy
<1>3. /\ Attempted(rows[id[r]]) \in Row \cup {NoRow}
      /\ Attempted(rows[id[r]]) = NoRow <=> rows[id[r]] = NoRow
      /\ Attempted(rows[id[r]]).domain_count = rows[id[r]].domain_count
      BY <1>2 DEF Attempted, Row, NoRow
<1>4. Tables'
      BY <1>1, <1>2, <1>3 DEF ListInv, Tables
<1>5. Locals' /\ Exempted' /\ Faithful'
      BY <1>1, LeaveKeeps
<1>6. \A i \in Ids : rows'[i] # NoRow =>
        rows[i] # NoRow /\ rows'[i].domain_count = rows[i].domain_count
      BY <1>1, <1>2, <1>3 DEF ListInv, Tables
<1>7. DomainCountSettled'
      BY <1>1, <1>6 DEF ListInv, DomainCountSettled, Existing
<1>8. OverridesApplied'
      BY <1>1 DEF ListInv, OverridesApplied
<1> QED
    BY <1>4, <1>5, <1>7, <1>8 DEF ListInv

LEMMA AbortKeeps ==
  ASSUME ListInv, NEW r \in Refreshers, Abort(r),
         UNCHANGED <<configVars, stored, deleting, disturbed, unapplied, slipped>>
  PROVE  ListInv'
<1>1. /\ Leave(r, "sample") /\ todo' = IF r = "worker" THEN {} ELSE todo
      /\ UNCHANGED <<rows, overrides>>
      BY DEF Abort, configVars
<1>2. Tables'
      BY <1>1 DEF ListInv, Tables
<1>3. Locals' /\ Exempted' /\ Faithful'
      BY <1>1, LeaveKeeps
<1>4. DomainCountSettled' /\ OverridesApplied'
      BY <1>1 DEF ListInv, DomainCountSettled, Existing, OverridesApplied
<1> QED
    BY <1>2, <1>3, <1>4 DEF ListInv

(* The recorded count is right if nobody wrote to the list since.          *)
LEMMA RecordKeeps ==
  ASSUME ListInv, NEW r \in Refreshers, RecordSuccess(r)
  PROVE  ListInv'
<1>i. PICK i : i = id[r]
      OBVIOUS
<1>n. PICK n : n = Cardinality(desired[r])
      OBVIOUS
<1>1. /\ pc[r] = "record" /\ Leave(r, "cycle")
      /\ rows' = [rows EXCEPT ![i] = IF rows[i] = NoRow THEN rows[i] ELSE
                    [rows[i] EXCEPT !.domain_count = n, !.due = FALSE]]
      /\ disturbed' = IF valid[r] THEN disturbed \ {i} ELSE disturbed \cup {i}
      /\ todo' = IF r = "worker" THEN todo \ {i} ELSE todo
      /\ UNCHANGED <<overrides, stored, deleting, unapplied, slipped>>
      BY <1>i, <1>n DEF RecordSuccess, Done, RefreshFrame
<1>2. i \in Ids /\ rows[i] \in Row \cup {NoRow} /\ n \in Nat
      BY <1>1, <1>i, <1>n, CountOfDomains DEF ListInv, Tables, Locals, Busy
<1>3. /\ rows'[i] \in Row \cup {NoRow}
      /\ rows'[i] # NoRow => rows'[i].domain_count = n
      /\ rows' \in [Ids -> Row \cup {NoRow}]
      /\ \A j \in Ids \ {i} : rows'[j] = rows[j]
      BY <1>1, <1>2 DEF ListInv, Tables, Row
<1>4. Tables'
      BY <1>1, <1>2, <1>3 DEF ListInv, Tables
<1>5. Locals' /\ Exempted' /\ Faithful'
      BY <1>1, LeaveKeeps
<1>6. DomainCountSettled'
  <2> SUFFICES ASSUME NEW j \in Ids, rows'[j] # NoRow, j \notin disturbed'
               PROVE  rows'[j].domain_count = Cardinality(stored[j])
      BY <1>1 DEF DomainCountSettled, Existing
  <2>1. CASE j # i
    <3>1. j \notin disturbed
          BY <1>1, <2>1
    <3> QED
        BY <1>3, <2>1, <3>1 DEF ListInv, DomainCountSettled, Existing
  <2>2. CASE j = i
    <3>1. valid[r]
          BY <1>1, <2>2
    <3>2. stored[i] = desired[r]
          BY <1>1, <1>i, <3>1 DEF ListInv, Faithful
    <3> QED
        BY <1>3, <1>n, <2>2, <3>2
  <2> QED
      BY <2>1, <2>2
<1>7. OverridesApplied'
      BY <1>1 DEF ListInv, OverridesApplied
<1> QED
    BY <1>4, <1>5, <1>6, <1>7 DEF ListInv

-----------------------------------------------------------------------------
(* The downloader takes up a list, or an API thread does.                  *)
LEMMA TakeUpKeeps ==
  ASSUME ListInv, NEW r \in Refreshers, NEW l \in Places, NEW i \in Ids \cup {NoId},
         l \notin {"read", "write", "record"}, l = "download" => i \in Ids,
         Goto(r, l), id' = [id EXCEPT ![r] = i], todo' \subseteq Ids,
         UNCHANGED <<configVars, stored, exempt, desired, existing, deleting, history>>
  PROVE  ListInv'
<1>1. /\ pc' = [pc EXCEPT ![r] = l]
      /\ UNCHANGED <<rows, overrides, valid, disturbed, unapplied, slipped>>
      BY DEF Goto, configVars, history
<1>2. /\ pc'[r] = l /\ id'[r] = i
      /\ \A s \in Refreshers \ {r} : pc'[s] = pc[s] /\ id'[s] = id[s]
      BY <1>1 DEF ListInv, Locals
<1>3. Tables'
      BY <1>1 DEF ListInv, Tables
<1>4. Locals'
  <2>1. pc' \in [Refreshers -> Places] /\ id' \in [Refreshers -> Ids \cup {NoId}]
        BY <1>1 DEF ListInv, Locals
  <2>2. \A s \in Refreshers : pc'[s] \in Busy => id'[s] \in Ids
        BY <1>2 DEF ListInv, Locals, Busy
  <2> QED
      BY <1>1, <2>1, <2>2 DEF ListInv, Locals
<1>5. Exempted'
      BY <1>1, <1>2 DEF ListInv, Exempted
<1>6. Faithful'
      BY <1>1, <1>2 DEF ListInv, Faithful
<1>7. DomainCountSettled' /\ OverridesApplied'
      BY <1>1 DEF ListInv, DomainCountSettled, Existing, OverridesApplied
<1> QED
    BY <1>3, <1>4, <1>5, <1>6, <1>7 DEF ListInv

(* A set of numbers has a least one.                                       *)
LEMMA MinOfNats ==
  ASSUME NEW S, S \subseteq Nat, S # {}
  PROVE  Min(S) \in S /\ \A y \in S : Min(S) <= y
<1> DEFINE R == OpToRel(<, Nat)
<1>1. IsWellFoundedOn(R, Nat)
      BY NatLessThanWellFounded
<1>2. \A x, y \in Nat : y < x => <<y, x>> \in R
      BY DEF OpToRel
<1> HIDE DEF R
<1>3. PICK m \in S : \A y \in S : ~(<<y, m>> \in R)
      BY <1>1, WFMin
<1>4. ASSUME NEW y \in S PROVE m <= y
  <2>1. y \in Nat /\ m \in Nat
        OBVIOUS
  <2>2. ~(y < m)
        BY <1>2, <1>3, <2>1
  <2> QED
      BY <2>1, <2>2
<1> QED
    BY <1>3, <1>4 DEF Min

(* The next list is one of those still to do.                              *)
LEMMA NextListKnown ==
  ASSUME Tables, todo # {}
  PROVE  Min(todo) \in Ids
<1>1. todo \subseteq Nat
      BY BlocklistAssumption DEF Tables
<1> QED
    BY <1>1, MinOfNats DEF Tables

(* A new row may have the id, and what is stored under it, of an old one.  *)
LEMMA CreateKeeps ==
  ASSUME ListInv, NEW e \in BOOLEAN, CreateBlocklist(e)
  PROVE  ListInv'
<1>i. PICK i : i = NewId
      OBVIOUS
<1>1. /\ i \in Ids /\ rows' = [rows EXCEPT ![i] = NewRow(e)]
      /\ disturbed' = IF stored[i] = {} /\ Recording(i) = {}
                      THEN disturbed \ {i} ELSE disturbed \cup {i}
      /\ UNCHANGED <<overrides, deleting, valid, unapplied, slipped, stored, todo>>
      /\ UNCHANGED <<pc, id, exempt, desired, existing>>
      BY <1>i DEF CreateBlocklist, ConfigFrame, ApiFrame, localVars
<1>2. NewRow(e) \in Row /\ NewRow(e).domain_count = 0
      BY DEF NewRow, Row
<1>3. rows'[i] = NewRow(e) /\ \A j \in Ids \ {i} : rows'[j] = rows[j]
      BY <1>1 DEF ListInv, Tables
<1>4. Tables'
      BY <1>1, <1>2 DEF ListInv, Tables
<1>5. Locals' /\ Exempted' /\ Faithful'
      BY <1>1 DEF ListInv, Locals, Exempted, Faithful
<1>6. DomainCountSettled'
  <2> SUFFICES ASSUME NEW j \in Ids, rows'[j] # NoRow, j \notin disturbed'
               PROVE  rows'[j].domain_count = Cardinality(stored[j])
      BY <1>1 DEF DomainCountSettled, Existing
  <2>1. CASE j # i
    <3>1. j \notin disturbed
          BY <1>1, <2>1
    <3> QED
        BY <1>3, <2>1, <3>1 DEF ListInv, DomainCountSettled, Existing
  <2>2. CASE j = i
    <3>1. stored[i] = {}
          BY <1>1, <2>2
    <3> QED
        BY <1>2, <1>3, <2>2, <3>1, FS_EmptySet
  <2> QED
      BY <2>1, <2>2
<1>7. OverridesApplied'
      BY <1>1 DEF ListInv, OverridesApplied
<1> QED
    BY <1>4, <1>5, <1>6, <1>7 DEF ListInv

(* Whoever is between its write and its record is now wrong.               *)
LEMMA EmptyKeeps ==
  ASSUME ListInv, DeleteDomains
  PROVE  ListInv'
<1>i. PICK i : i = deleting
      OBVIOUS
<1>1. /\ i \in Ids /\ deleting' = NoId /\ stored' = [stored EXCEPT ![i] = {}]
      /\ valid' = [r \in Refreshers |-> valid[r] /\ r \notin Recording(i)]
      /\ disturbed' = IF rows[i] = NoRow /\ Recording(i) = {}
                      THEN disturbed \ {i} ELSE disturbed \cup {i}
      /\ unapplied' = [unapplied EXCEPT ![i] = {}]
      /\ slipped' = [slipped EXCEPT ![i] = {}]
      /\ UNCHANGED <<rows, overrides, pc, id, exempt, desired, existing, todo>>
      BY <1>i DEF DeleteDomains, configVars, localVars, ApiFrame, ListInv, Tables
<1>2. /\ stored'[i] = {} /\ unapplied'[i] = {}
      /\ \A j \in Ids \ {i} : /\ stored'[j] = stored[j] /\ unapplied'[j] = unapplied[j]
                             /\ slipped'[j] = slipped[j]
      BY <1>1 DEF ListInv, Tables
<1>3. Tables'
      BY <1>1 DEF ListInv, Tables
<1>4. Locals'
  <2>1. \A r \in Refreshers : valid'[r] \in BOOLEAN
        BY <1>1 DEF ListInv, Locals
  <2>2. valid' \in [Refreshers -> BOOLEAN]
        BY <1>1, <2>1
  <2> QED
      BY <1>1, <2>2 DEF ListInv, Locals
<1>5. Exempted'
      BY <1>1 DEF ListInv, Exempted
<1>6. Faithful'
  <2> SUFFICES ASSUME NEW r \in Refreshers, pc[r] = "record", valid'[r]
               PROVE  stored'[id[r]] = desired[r]
      BY <1>1 DEF Faithful
  <2>1. valid[r] /\ id[r] # i /\ id[r] \in Ids
        BY <1>1 DEF Recording, ListInv, Locals, Busy
  <2> QED
      BY <1>2, <2>1 DEF ListInv, Faithful
<1>7. DomainCountSettled'
  <2> SUFFICES ASSUME NEW j \in Ids, rows[j] # NoRow, j \notin disturbed'
               PROVE  rows[j].domain_count = Cardinality(stored'[j])
      BY <1>1 DEF DomainCountSettled, Existing
  <2>1. j # i /\ j \notin disturbed
        BY <1>1
  <2> QED
      BY <1>2, <2>1 DEF ListInv, DomainCountSettled, Existing
<1>8. OverridesApplied'
      BY <1>1, <1>2 DEF ListInv, OverridesApplied
<1> QED
    BY <1>3, <1>4, <1>5, <1>6, <1>7, <1>8 DEF ListInv

LEMMA NextKeeps ==
  ASSUME ListInv, [Next]_vars
  PROVE  ListInv'
<1>0. ASSUME UNCHANGED <<configVars, stored, localVars, todo, deleting, history>>
      PROVE  ListInv'
  <2>1. /\ UNCHANGED <<rows, overrides, stored, pc, id, exempt, desired, existing>>
        /\ UNCHANGED <<todo, deleting, valid, disturbed, unapplied, slipped>>
        BY <1>0 DEF configVars, localVars, history
  <2> QED
      BY <2>1 DEF ListInv, Tables, Locals, Exempted, Faithful, DomainCountSettled,
                  OverridesApplied, Existing
<1>w. "worker" \in Refreshers /\ Threads \subseteq Refreshers
      BY DEF Refreshers
<1>1. ASSUME NEW r \in Refreshers, Refresh(r) PROVE ListInv'
  <2>1. CASE WriteConflicts(r)
        BY <2>1, AbortKeeps DEF WriteConflicts, RefreshFrame, configVars
  <2> QED
      BY <1>1, <2>1, DownloadKeeps, FailsKeeps, ReadKeeps, WriteKeeps, RecordKeeps DEF Refresh
<1>2. ASSUME NEW r \in Refreshers, Escape(r) PROVE ListInv'
      BY <1>2, AbortKeeps DEF Escape, RefreshFrame, configVars
<1>3. ASSUME NEW l \in {"idle", "cycle", "sample"}, Goto("worker", l), UNCHANGED id,
             todo' \subseteq Ids, WorkerFrame
      PROVE  ListInv'
  <2>1. id["worker"] \in Ids \cup {NoId} /\ id' = [id EXCEPT !["worker"] = id["worker"]]
        BY <1>3, <1>w DEF ListInv, Locals
  <2> QED
      BY <1>3, <1>w, <2>1, TakeUpKeeps DEF WorkerFrame, Places
<1>4. CASE StartCycle
      BY <1>3, <1>4 DEF StartCycle, Due, Enabled, Existing
<1>5. CASE NextList
  <2>1. Min(todo) \in Ids /\ todo \subseteq Ids
        BY <1>5, NextListKnown DEF NextList, ListInv, Tables
  <2>2. CASE rows[Min(todo)] = NoRow
    <3>1. todo' = todo \ {Min(todo)} /\ UNCHANGED <<pc, id>> /\ WorkerFrame
          BY <1>5, <2>2 DEF NextList
    <3>2. Goto("worker", pc["worker"]) /\ pc["worker"] = "cycle"
          BY <1>5, <1>w, <3>1 DEF NextList, Goto, ListInv, Locals
    <3> QED
        BY <1>3, <2>1, <3>1, <3>2
  <2>3. CASE rows[Min(todo)] # NoRow
    <3>1. /\ Goto("worker", "download") /\ id' = [id EXCEPT !["worker"] = Min(todo)]
          /\ UNCHANGED todo /\ WorkerFrame
          BY <1>5, <2>3 DEF NextList
    <3> QED
        BY <1>w, <2>1, <3>1, TakeUpKeeps DEF WorkerFrame, Places
  <2> QED
      BY <2>2, <2>3
<1>6. CASE EndCycle \/ Sample \/ SampleFails
  <2>1. todo' \subseteq Ids /\ UNCHANGED id /\ WorkerFrame
        BY <1>6 DEF EndCycle, Sample, SampleFails, ListInv, Tables
  <2> QED
      BY <1>3, <1>6, <2>1 DEF EndCycle, Sample, SampleFails
<1>7. ASSUME NEW i \in Ids, IntervalElapses(i) PROVE ListInv'
  <2>1. /\ rows[i] # NoRow /\ rows' = [rows EXCEPT ![i].due = TRUE]
        /\ UNCHANGED <<overrides, stored, localVars, todo, deleting>>
        /\ UNCHANGED <<valid, disturbed, unapplied, slipped>>
        BY <1>7 DEF IntervalElapses, history
  <2>2. /\ rows' \in [Ids -> Row \cup {NoRow}]
        /\ \A j \in Ids : rows'[j] # NoRow =>
             rows[j] # NoRow /\ rows'[j].domain_count = rows[j].domain_count
        BY <2>1 DEF ListInv, Tables, Row, NoRow
  <2>3. Tables' /\ OverridesApplied'
        BY <2>1, <2>2 DEF ListInv, Tables, OverridesApplied
  <2> QED
      BY <2>1, <2>2, <2>3, ConfigKeeps
<1>8. ASSUME NEW t \in Threads, NEW i \in Ids, RequestRefresh(t, i) PROVE ListInv'
  <2>1. /\ Goto(t, "download") /\ id' = [id EXCEPT ![t] = i] /\ UNCHANGED todo
        /\ UNCHANGED <<configVars, stored, exempt, desired, existing, deleting, history>>
        BY <1>8 DEF RequestRefresh, ApiFrame
  <2>2. todo' \subseteq Ids
        BY <2>1 DEF ListInv, Tables
  <2> QED
      BY <1>w, <2>1, <2>2, TakeUpKeeps DEF Places
<1>9. ASSUME NEW i \in Ids, UpdateBlocklist(i) PROVE ListInv'
  <2>1. /\ rows[i] # NoRow /\ rows' = [rows EXCEPT ![i].enabled = ~rows[i].enabled]
        /\ UNCHANGED <<overrides, stored, localVars, todo, deleting>>
        /\ UNCHANGED <<valid, disturbed, unapplied, slipped>>
        BY <1>9 DEF UpdateBlocklist, ConfigFrame, ApiFrame, history
  <2>2. /\ rows' \in [Ids -> Row \cup {NoRow}]
        /\ \A j \in Ids : rows'[j] # NoRow =>
             rows[j] # NoRow /\ rows'[j].domain_count = rows[j].domain_count
        BY <2>1 DEF ListInv, Tables, Row, NoRow
  <2>3. Tables' /\ OverridesApplied'
        BY <2>1, <2>2 DEF ListInv, Tables, OverridesApplied
  <2> QED
      BY <2>1, <2>2, <2>3, ConfigKeeps
<1>10. ASSUME NEW i \in Ids, DeleteRow(i) PROVE ListInv'
  <2>1. /\ rows' = [rows EXCEPT ![i] = NoRow] /\ deleting' = i
        /\ UNCHANGED <<overrides, stored, localVars, todo>>
        /\ UNCHANGED <<valid, disturbed, unapplied, slipped>>
        BY <1>10 DEF DeleteRow, ConfigFrame, ApiFrame, history
  <2>2. /\ rows' \in [Ids -> Row \cup {NoRow}]
        /\ \A j \in Ids : rows'[j] # NoRow =>
             rows[j] # NoRow /\ rows'[j].domain_count = rows[j].domain_count
        BY <2>1 DEF ListInv, Tables
  <2>3. Tables' /\ OverridesApplied'
        BY <2>1, <2>2 DEF ListInv, Tables, OverridesApplied
  <2> QED
      BY <2>1, <2>2, <2>3, ConfigKeeps
<1>11. ASSUME NEW d \in Domains, CreateOverride(d) \/ DeleteOverride(d) PROVE ListInv'
  <2>1. /\ UNCHANGED <<rows, stored, localVars, todo, deleting, valid, disturbed, slipped>>
        /\ \/ /\ overrides' = overrides \cup {d}
              /\ unapplied' = [i \in Ids |-> unapplied[i] \cup {d}]
           \/ overrides' = overrides \ {d} /\ UNCHANGED unapplied
        BY <1>11 DEF CreateOverride, DeleteOverride, ConfigFrame, ApiFrame, history
  <2>2. Tables'
        BY <2>1 DEF ListInv, Tables
  <2>3. OverridesApplied'
        BY <2>1 DEF ListInv, OverridesApplied
  <2> QED
      BY <2>1, <2>2, <2>3, ConfigKeeps DEF ListInv, Tables
<1>12. CASE DeleteDomainsFails
  <2>1. /\ deleting' = NoId /\ UNCHANGED <<rows, overrides, stored, localVars, todo>>
        /\ UNCHANGED <<valid, disturbed, unapplied, slipped>>
        BY <1>12 DEF DeleteDomainsFails, configVars, ApiFrame, history
  <2>2. Tables' /\ OverridesApplied'
        BY <2>1 DEF ListInv, Tables, OverridesApplied
  <2> QED
      BY <2>1, <2>2, ConfigKeeps
<1>13. CASE Api
       BY <1>8, <1>9, <1>10, <1>11, <1>12, <1>13, CreateKeeps, EmptyKeeps DEF Api
<1>14. CASE Loader
       BY <1>0, <1>14 DEF Loader, LoadEnabled, LoadDomains, LoaderFrame
<1>15. CASE Worker
       BY <1>1, <1>4, <1>5, <1>6, <1>15, <1>w DEF Worker
<1>16. CASE Next
       BY <1>1, <1>2, <1>6, <1>7, <1>13, <1>14, <1>15, <1>16, <1>w DEF Next
<1>17. CASE UNCHANGED vars
       BY <1>0, <1>17 DEF vars
<1> QED
    BY <1>16, <1>17

LEMMA InitKeeps == Init => ListInv
<1> SUFFICES ASSUME Init PROVE ListInv
    OBVIOUS
<1>1. NewRow(TRUE) \in Row /\ NewRow(TRUE).domain_count = 0
      BY DEF NewRow, Row
<1>2. Tables
      BY <1>1 DEF Init, Tables
<1>3. Locals /\ Exempted /\ Faithful
      BY DEF Init, Locals, Exempted, Faithful, Places, Busy
<1>4. DomainCountSettled
  <2>1. \A i \in Ids : rows[i] # NoRow => rows[i].domain_count = 0
        BY <1>1 DEF Init
  <2> QED
      BY <2>1, FS_EmptySet DEF Init, DomainCountSettled, Existing
<1>5. OverridesApplied
      BY DEF Init, OverridesApplied
<1> QED
    BY <1>2, <1>3, <1>4, <1>5 DEF ListInv

(* No step of a refresh, of a request or of the loader breaks the          *)
(* invariant; where two refreshes of a list write over each other, it is   *)
(* the history of the races that says what is still known.                 *)
THEOREM ListInvariant == Spec => []ListInv
<1> QED
    BY InitKeeps, NextKeeps, PTL DEF Spec

(* domain_count is the number of domains stored, for every list whose last *)
(* refresh ran undisturbed from its read to its record, whatever races     *)
(* went before and whoever had the id before.                              *)
THEOREM DomainCountTheorem == Spec => []DomainCountSettled
<1>1. ListInv => DomainCountSettled
      BY DEF ListInv
<1> QED
    BY <1>1, ListInvariant, PTL

(* A stored domain that is an override is one the refresh that wrote its   *)
(* list last did not know of, or one that another refresh stored between   *)
(* the read and the write of that refresh.                                 *)
THEOREM OverridesTheorem == Spec => []OverridesApplied
<1>1. ListInv => OverridesApplied
      BY DEF ListInv
<1> QED
    BY <1>1, ListInvariant, PTL

-----------------------------------------------------------------------------
(* The size that is sampled.  Induction upwards, on a set of numbers.      *)
LEMMA Upwards ==
  ASSUME NEW G, 0 \in G, \A n \in Nat : n \in G => n + 1 \in G
  PROVE  Nat \subseteq G
<1> DEFINE B == Nat \ G
<1> SUFFICES ASSUME B # {} PROVE FALSE
    OBVIOUS
<1>1. Min(B) \in B /\ \A y \in B : Min(B) <= y
      BY MinOfNats
<1>2. PICK m : m \in Nat /\ m \notin G /\ \A y \in B : m <= y
      BY <1>1
<1>3. m - 1 \in Nat /\ m - 1 \notin B /\ (m - 1) + 1 = m
      BY <1>2
<1> QED
    BY <1>2, <1>3

(* The member of s whose count is added first, and what is added to it.    *)
Pick(s) == CHOOSE i \in s : TRUE
Summed(g, s, sum) == IF s = {} THEN 0 ELSE g[Pick(s)].domain_count + sum[s \ {Pick(s)}]

(* Without that member, a finite set is smaller by one.                    *)
LEMMA PickOne ==
  ASSUME NEW S, IsFiniteSet(S), NEW s \in SUBSET S, s # {}
  PROVE  /\ Pick(s) \in S /\ s \ {Pick(s)} \in SUBSET S
         /\ Cardinality(s) \in Nat /\ Cardinality(s \ {Pick(s)}) = Cardinality(s) - 1
<1>1. Pick(s) \in s
      BY DEF Pick
<1>2. IsFiniteSet(s)
      BY FS_Subset
<1> QED
    BY <1>1, <1>2, FS_RemoveElement, FS_CardinalityType

(* The recursion of the sum is well defined on a finite set.               *)
LEMMA SumsExist ==
  ASSUME NEW g, NEW S, IsFiniteSet(S)
  PROVE  \E sum : sum = [s \in SUBSET S |-> Summed(g, s, sum)]
<1> DEFINE Sums(sum, n) == \A s \in SUBSET S :
             Cardinality(s) <= n => sum[s] = Summed(g, s, sum)
           G == {n \in Nat : \E sum : Sums(sum, n)}
<1>c. \A s \in SUBSET S : Cardinality(s) \in Nat
      BY FS_Subset, FS_CardinalityType
<1>p. ASSUME NEW s \in SUBSET S, s # {}
      PROVE  s \ {Pick(s)} \in SUBSET S /\ Cardinality(s \ {Pick(s)}) = Cardinality(s) - 1
      BY <1>p, PickOne
<1>1. 0 \in G
  <2> DEFINE zero == [s \in SUBSET S |-> 0]
  <2>1. ASSUME NEW s \in SUBSET S, Cardinality(s) <= 0 PROVE zero[s] = Summed(g, s, zero)
    <3>1. s = {}
      <4>1. Cardinality(s) = 0 /\ IsFiniteSet(s)
            BY <1>c, <2>1, FS_Subset
      <4> QED
          BY <4>1, FS_EmptySet
    <3> QED
        BY <3>1 DEF Summed
  <2> HIDE DEF zero
  <2>2. Sums(zero, 0)
        BY <2>1
  <2> QED
      BY <2>2
<1>2. ASSUME NEW n \in Nat, n \in G PROVE n + 1 \in G
  <2>1. PICK sum : Sums(sum, n)
        BY <1>2
  <2> DEFINE more == [s \in SUBSET S |-> IF Cardinality(s) <= n THEN sum[s]
                                         ELSE Summed(g, s, sum)]
  <2>2. ASSUME NEW s \in SUBSET S, Cardinality(s) <= n + 1
        PROVE  more[s] = Summed(g, s, more)
    <3>1. more[s] = Summed(g, s, sum)
          BY <2>1
    <3>2. CASE s = {}
          BY <3>1, <3>2 DEF Summed
    <3>3. CASE s # {}
      <4>1. s \ {Pick(s)} \in SUBSET S /\ Cardinality(s \ {Pick(s)}) <= n
            BY <1>c, <1>p, <2>2, <3>3
      <4>2. more[s \ {Pick(s)}] = sum[s \ {Pick(s)}]
            BY <4>1
      <4> HIDE DEF more
      <4> QED
          BY <3>1, <3>3, <4>2 DEF Summed
    <3> QED
        BY <3>2, <3>3
  <2> HIDE DEF more
  <2>3. Sums(more, n + 1)
        BY <2>2
  <2> QED
      BY <2>3
<1>3. Cardinality(S) \in G
  <2> HIDE DEF G
  <2>1. Nat \subseteq G
        BY <1>1, <1>2, Upwards
  <2> QED
      BY <2>1, <1>c
<1>4. PICK sum : Sums(sum, Cardinality(S))
      BY <1>3
<1>5. ASSUME NEW s \in SUBSET S PROVE sum[s] = Summed(g, s, sum)
  <2>1. Cardinality(s) <= Cardinality(S)
        BY FS_Subset
  <2> QED
      BY <1>4, <2>1
<1> DEFINE all == [s \in SUBSET S |-> sum[s]]
<1>6. ASSUME NEW s \in SUBSET S PROVE all[s] = Summed(g, s, all)
  <2>1. all[s] = Summed(g, s, sum)
        BY <1>5
  <2>2. CASE s = {}
        BY <2>1, <2>2 DEF Summed
  <2>3. CASE s # {}
    <3>1. all[s \ {Pick(s)}] = sum[s \ {Pick(s)}]
          BY <1>p, <2>3
    <3> HIDE DEF all
    <3> QED
        BY <2>1, <2>3, <3>1 DEF Summed
  <2> QED
      BY <2>2, <2>3
<1>7. all = [s \in SUBSET S |-> all[s]]
      OBVIOUS
<1> HIDE DEF all
<1>8. all = [s \in SUBSET S |-> Summed(g, s, all)]
      BY <1>6, <1>7
<1> QED
    BY <1>8

(* A sum of counts is a count: what total_enabled_domain_count returns.    *)
LEMMA SumOfCounts ==
  ASSUME IsFiniteSet(Enabled), \A i \in Enabled : rows[i].domain_count \in Nat
  PROVE  total_enabled_domain_count \in Nat
<1> DEFINE E(sum) == sum = [s \in SUBSET Enabled |->
             IF s = {} THEN 0
             ELSE LET x == CHOOSE i \in s : TRUE
                  IN  rows[x].domain_count + sum[s \ {x}]]
           C == CHOOSE sum : E(sum)
<1>1. \E sum : E(sum)
  <2>1. PICK sum : sum = [s \in SUBSET Enabled |-> Summed(rows, s, sum)]
        BY SumsExist
  <2>2. E(sum)
        BY <2>1, Zenon DEF Summed, Pick
  <2> HIDE DEF E
  <2> QED
      BY <2>2
<1>2. E(C)
      BY <1>1, Zenon
<1>3. total_enabled_domain_count = C[Enabled]
      BY Zenon DEF total_enabled_domain_count, MapThenSumSet, MapThenFoldSet
<1>4. C = [s \in SUBSET Enabled |-> Summed(rows, s, C)]
      BY <1>2, Zenon DEF Summed, Pick
<1> HIDE DEF C, E
<1>5. ASSUME NEW s \in SUBSET Enabled PROVE C[s] = Summed(rows, s, C)
  <2>1. PICK b : b = C
        OBVIOUS
  <2>2. C = [r \in SUBSET Enabled |-> Summed(rows, r, b)]
        BY <1>4, <2>1, Zenon
  <2>3. C[s] = Summed(rows, s, b)
        BY <2>2
  <2> QED
      BY <2>1, <2>3
<1> DEFINE G == {n \in Nat : \A s \in SUBSET Enabled : Cardinality(s) <= n => C[s] \in Nat}
<1>c. \A s \in SUBSET Enabled : Cardinality(s) \in Nat
      BY FS_Subset, FS_CardinalityType
<1>6. 0 \in G
  <2>1. ASSUME NEW s \in SUBSET Enabled, Cardinality(s) <= 0 PROVE C[s] \in Nat
    <3>1. Cardinality(s) = 0 /\ IsFiniteSet(s)
          BY <1>c, <2>1, FS_Subset
    <3>2. s = {}
          BY <3>1, FS_EmptySet
    <3>3. Summed(rows, s, C) = 0
          BY <3>2 DEF Summed
    <3> QED
        BY <1>5, <3>3
  <2> QED
      BY <2>1
<1>7. ASSUME NEW n \in Nat, n \in G PROVE n + 1 \in G
  <2>1. ASSUME NEW s \in SUBSET Enabled, Cardinality(s) <= n + 1 PROVE C[s] \in Nat
    <3>1. CASE s = {}
          BY <1>5, <3>1 DEF Summed
    <3>2. CASE s # {}
      <4>1. /\ Pick(s) \in Enabled /\ s \ {Pick(s)} \in SUBSET Enabled
            /\ Cardinality(s) \in Nat /\ Cardinality(s \ {Pick(s)}) = Cardinality(s) - 1
            BY <3>2, PickOne
      <4>2. Cardinality(s \ {Pick(s)}) <= n
            BY <2>1, <4>1
      <4>3. C[s \ {Pick(s)}] \in Nat /\ rows[Pick(s)].domain_count \in Nat
            BY <1>7, <4>1, <4>2
      <4>4. C[s] = rows[Pick(s)].domain_count + C[s \ {Pick(s)}]
            BY <1>5, <3>2 DEF Summed
      <4> QED
          BY <4>3, <4>4
    <3> QED
        BY <3>1, <3>2
  <2> QED
      BY <2>1
<1>8. Cardinality(Enabled) \in G
  <2> HIDE DEF G
  <2>1. Nat \subseteq G
        BY <1>6, <1>7, Upwards
  <2> QED
      BY <1>c, <2>1
<1>9. C[Enabled] \in Nat
      BY <1>8, <1>c
<1> QED
    BY <1>3, <1>9

-----------------------------------------------------------------------------
(* The types that ListInv leaves out.                                      *)
Counters == ops \in Nat /\ elapses \in Nat /\ failures \in Nat
Loading ==
  /\ lpc \in {"idle", "domains"} /\ enabled_ids \subseteq Ids /\ published \subseteq Domains

(* A step counts at most one of each kind.                                 *)
LEMMA CountersStep ==
  ASSUME Counters, [Next]_vars
  PROVE  Counters'
<1> SUFFICES ASSUME ops' \in {ops, ops + 1}, elapses' \in {elapses, elapses + 1},
                    failures' \in {failures, failures + 1}
             PROVE  Counters'
  <2>1. ASSUME NEW r \in Refreshers, Refresh(r) PROVE UNCHANGED bounds
        BY <2>1 DEF Refresh, Download, DownloadFails, ReadExisting, Write, WriteConflicts,
                    RecordSuccess, RefreshFrame, bounds
  <2>2. CASE StartCycle \/ NextList \/ EndCycle \/ Sample
        BY <2>2 DEF StartCycle, NextList, EndCycle, Sample, WorkerFrame
  <2>3. CASE SampleFails
        BY <2>3 DEF SampleFails, WorkerFrame
  <2>4. ASSUME NEW r \in Refreshers, Escape(r)
        PROVE  failures' = failures + 1 /\ UNCHANGED <<ops, elapses>>
        BY <2>4 DEF Escape, RefreshFrame
  <2>5. ASSUME NEW i \in Ids, IntervalElapses(i)
        PROVE  elapses' = elapses + 1 /\ UNCHANGED <<ops, failures>>
        BY <2>5 DEF IntervalElapses
  <2>6. CASE DeleteDomains \/ DeleteDomainsFails
        BY <2>6 DEF DeleteDomains, DeleteDomainsFails, ApiFrame
  <2>7. CASE Api /\ ~(DeleteDomains \/ DeleteDomainsFails)
    <3>1. Request /\ UNCHANGED <<elapses, failures>>
          BY <2>7 DEF Api, RequestRefresh, CreateBlocklist, UpdateBlocklist, DeleteRow,
                      CreateOverride, DeleteOverride, ConfigFrame, ApiFrame
    <3> QED
        BY <3>1 DEF Request
  <2>8. CASE Loader
        BY <2>8 DEF Loader, LoadEnabled, LoadDomains, LoaderFrame, bounds
  <2>9. CASE UNCHANGED vars
        BY <2>9 DEF vars, bounds
  <2>10. "worker" \in Refreshers /\ Threads \subseteq Refreshers
         BY DEF Refreshers
  <2> QED
      BY <2>1, <2>2, <2>3, <2>4, <2>5, <2>6, <2>7, <2>8, <2>9, <2>10 DEF Next, Worker, bounds
<1> QED
    BY DEF Counters

(* The loader reads ids and domains that are there.                        *)
LEMMA LoadingStep ==
  ASSUME ListInv, Loading, [Next]_vars
  PROVE  Loading'
<1>1. CASE LoadEnabled
      BY <1>1 DEF LoadEnabled, Loading, Enabled, Existing
<1>2. CASE LoadDomains
  <2>1. lpc' = "idle" /\ enabled_ids' = {} /\ published' = UNION {stored[i] : i \in enabled_ids}
        BY <1>2 DEF LoadDomains
  <2>2. \A i \in enabled_ids : stored[i] \subseteq Domains
        BY DEF Loading, ListInv, Tables
  <2> QED
      BY <2>1, <2>2 DEF Loading
<1>3. ASSUME UNCHANGED loaderVars PROVE Loading'
      BY <1>3 DEF Loading, loaderVars
<1>4. ASSUME NEW r \in Refreshers, Refresh(r) \/ Escape(r) PROVE UNCHANGED loaderVars
      BY <1>4 DEF Refresh, Download, DownloadFails, ReadExisting, Write, WriteConflicts,
                  RecordSuccess, Escape, RefreshFrame
<1>5. CASE StartCycle \/ NextList \/ EndCycle \/ Sample \/ SampleFails
      BY <1>3, <1>5 DEF StartCycle, NextList, EndCycle, Sample, SampleFails, WorkerFrame
<1>6. ASSUME NEW i \in Ids, IntervalElapses(i) PROVE UNCHANGED loaderVars
      BY <1>6 DEF IntervalElapses
<1>7. CASE Api
  <2>1. UNCHANGED loaderVars
        BY <1>7 DEF Api, RequestRefresh, CreateBlocklist, UpdateBlocklist, DeleteRow, DeleteDomains,
                    DeleteDomainsFails, CreateOverride, DeleteOverride, ApiFrame
  <2> QED
      BY <1>3, <2>1
<1>8. CASE UNCHANGED vars
      BY <1>3, <1>8 DEF vars
<1>9. "worker" \in Refreshers /\ Threads \subseteq Refreshers
      BY DEF Refreshers
<1> QED
    BY <1>1, <1>2, <1>3, <1>4, <1>5, <1>6, <1>7, <1>8, <1>9 DEF Next, Worker, Loader

(* The size of the enabled lists is a number whenever it is sampled.       *)
LEMMA SizeStep ==
  ASSUME ListInv, size \in Nat, [Next]_vars
  PROVE  size' \in Nat
<1>1. CASE Sample
  <2>1. IsFiniteSet(Enabled)
    <3>1. Enabled \subseteq Ids
          BY DEF Enabled, Existing
    <3> QED
        BY <3>1, BlocklistAssumption, FS_Subset
  <2>2. \A i \in Enabled : rows[i].domain_count \in Nat
        BY DEF Enabled, Existing, ListInv, Tables, Row
  <2>3. total_enabled_domain_count \in Nat
        BY <2>1, <2>2, SumOfCounts
  <2> QED
      BY <1>1, <2>3 DEF Sample
<1>2. ASSUME NEW r \in Refreshers, Refresh(r) \/ Escape(r) PROVE UNCHANGED size
      BY <1>2 DEF Refresh, Download, DownloadFails, ReadExisting, Write, WriteConflicts,
                  RecordSuccess, Escape, RefreshFrame
<1>3. CASE StartCycle \/ NextList \/ EndCycle \/ SampleFails
      BY <1>3 DEF StartCycle, NextList, EndCycle, SampleFails
<1>4. ASSUME NEW i \in Ids, IntervalElapses(i) PROVE UNCHANGED size
      BY <1>4 DEF IntervalElapses
<1>5. CASE Api
      BY <1>5 DEF Api, RequestRefresh, CreateBlocklist, UpdateBlocklist, DeleteRow, DeleteDomains,
                  DeleteDomainsFails, CreateOverride, DeleteOverride, ApiFrame
<1>6. CASE Loader
      BY <1>6 DEF Loader, LoadEnabled, LoadDomains, LoaderFrame
<1>7. CASE UNCHANGED vars
      BY <1>7 DEF vars
<1>8. "worker" \in Refreshers /\ Threads \subseteq Refreshers
      BY DEF Refreshers
<1> QED
    BY <1>1, <1>2, <1>3, <1>4, <1>5, <1>6, <1>7, <1>8 DEF Next, Worker

(* TypeOK: whatever mix of refreshes, requests and failures, a refresher   *)
(* at work has a list, the rows' counts are numbers and so is their sum,   *)
(* and the server holds domains that lists carry.                          *)
THEOREM TypeTheorem == Spec => []TypeOK
<1> DEFINE TypeInv == ListInv /\ Counters /\ Loading /\ size \in Nat
<1>1. Init => TypeInv
      BY InitKeeps DEF Init, Counters, Loading
<1>2. TypeInv /\ [Next]_vars => TypeInv'
      BY NextKeeps, CountersStep, LoadingStep, SizeStep
<1>3. TypeInv => TypeOK
      BY DEF ListInv, Tables, Locals, Counters, Loading, Places, Busy, TypeOK
<1> QED
    BY <1>1, <1>2, <1>3, PTL DEF Spec
=============================================================================
