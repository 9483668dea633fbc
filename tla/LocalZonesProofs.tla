-------------------------- MODULE LocalZonesProofs --------------------------
(***************************************************************************)
(* Proofs about LocalZones, for any zones, names, addresses and files, any *)
(* limit on the aliases followed, and any number of requests, intervals    *)
(* and exceptions.                                                         *)
(***************************************************************************)
EXTENDS LocalZones, FiniteSetTheorems, SequenceTheorems, WellFoundedInduction, TLAPS

-----------------------------------------------------------------------------
(* What a file may have been expanded to, or nothing.                      *)
Files == {{}} \cup UNION {{parse_zone(text) : text \in Source[u]} : u \in Urls}

(* Records as the expansion makes them: an alias leads to a name, and an   *)
(* address has its reverse record among them.                              *)
Expanded(rs) ==
  /\ rs \subseteq Record
  /\ \A r \in rs : r.rtype = "CNAME" => r.value \in Names
  /\ \A r \in rs : r.value \in Addresses =>
       [name |-> Reverse[r.value], rtype |-> "PTR", value |-> r.name] \in rs

Stored ==
  /\ zones \in [Ids -> Zone \cup {NoZone}] /\ records \in [Ids -> Files]
  /\ due \subseteq Ids

Places == {"idle", "download", "replace", "count"}

Refreshing ==
  /\ pc \in [Refreshers -> Places] /\ zone \in [Refreshers -> Ids \cup {0}]
  /\ url \in [Refreshers -> Urls \cup {"none"}] /\ parsed \in [Refreshers -> Files]
  /\ \A f \in Refreshers : IF pc[f] = "idle" THEN zone[f] = 0 /\ parsed[f] = {}
                           ELSE zone[f] \in Ids /\ url[f] \in Urls

Loaded ==
  /\ lpc \in {"ids", "records"} /\ enabled_ids \subseteq Ids
  /\ Expanded(published.records) /\ published.alias \in FirstAliases(published.records)

ZoneInv == Stored /\ Refreshing /\ Loaded

-----------------------------------------------------------------------------
(* Files.                                                                  *)
LEMMA LineExpands ==
  ASSUME NEW v, NEW n \in Names
  PROVE  Expanded(expand(v, n)) /\ IsFiniteSet(expand(v, n))
<1>1. CASE v \in Addresses
  <2> DEFINE t == IF v \in V4 THEN "A" ELSE "AAAA"
             a == [name |-> n, rtype |-> t, value |-> v]
             p == [name |-> Reverse[v], rtype |-> "PTR", value |-> n]
  <2>1. expand(v, n) = {a, p}
        BY <1>1 DEF expand
  <2>2. Reverse[v] \in Names /\ n \notin Addresses /\ v \notin Names
        BY <1>1, LocalZonesAssumption
  <2>3. /\ a \in Record /\ p \in Record /\ a.rtype # "CNAME" /\ p.rtype # "CNAME"
        /\ a.value = v /\ a.name = n /\ p.value = n
        BY <1>1, <2>2 DEF Record
  <2>4. p = [name |-> Reverse[a.value], rtype |-> "PTR", value |-> a.name]
        BY <2>3
  <2> HIDE DEF a, p
  <2>5. IsFiniteSet({a, p})
    <3>1. IsFiniteSet({a}) /\ {a, p} = {a} \cup {p}
          BY FS_Singleton
    <3>2. IsFiniteSet({a} \cup {p})
          BY <3>1, FS_AddElement
    <3> QED
        BY <3>1, <3>2
  <2> QED
      BY <2>1, <2>2, <2>3, <2>4, <2>5 DEF Expanded
<1>2. CASE v \notin Addresses /\ v \in Names
  <2> DEFINE c == [name |-> n, rtype |-> "CNAME", value |-> v]
  <2>1. expand(v, n) = {c}
        BY <1>2 DEF expand
  <2>2. c \in Record /\ c.value = v
        BY <1>2 DEF Record
  <2> HIDE DEF c
  <2> QED
      BY <1>2, <2>1, <2>2, FS_Singleton DEF Expanded
<1>3. CASE v \notin Addresses /\ v \notin Names
      BY <1>3, FS_EmptySet DEF expand, Expanded
<1> QED
    BY <1>1, <1>2, <1>3

(* Records stay expanded when they are put together.                       *)
LEMMA UnionExpands ==
  ASSUME NEW S, \A rs \in S : Expanded(rs)
  PROVE  Expanded(UNION S)
<1>1. UNION S \subseteq Record
      BY DEF Expanded
<1>2. ASSUME NEW r \in UNION S
      PROVE  /\ r.rtype = "CNAME" => r.value \in Names
             /\ r.value \in Addresses =>
                  [name |-> Reverse[r.value], rtype |-> "PTR", value |-> r.name] \in UNION S
  <2>1. PICK rs \in S : r \in rs
        OBVIOUS
  <2> QED
      BY <2>1 DEF Expanded
<1> QED
    BY <1>1, <1>2 DEF Expanded

LEMMA ParseExpands ==
  ASSUME NEW text, Len(text) \in Nat
  PROVE  Expanded(parse_zone(text)) /\ IsFiniteSet(parse_zone(text))
<1> DEFINE I == {i \in 1..Len(text) : text[i].name \in Names}
           f == [i \in I |-> expand(text[i].value, text[i].name)]
           S == {expand(text[i].value, text[i].name) : i \in I}
<1>1. parse_zone(text) = UNION S
      BY DEF parse_zone
<1>2. \A rs \in S : Expanded(rs) /\ IsFiniteSet(rs)
      BY LineExpands
<1>3. IsFiniteSet(I)
  <2>1. IsFiniteSet(1..Len(text)) /\ I \subseteq 1..Len(text)
        BY FS_Interval
  <2> QED
      BY <2>1, FS_Subset
<1>4. f \in Surjection(I, S)
      BY DEF Surjection
<1> HIDE DEF I, f, S
<1>5. IsFiniteSet(S)
      BY <1>3, <1>4, FS_Surjection
<1>6. IsFiniteSet(UNION S)
      BY <1>2, <1>5, FS_UNION
<1> QED
    BY <1>1, <1>2, <1>6, UnionExpands

LEMMA FilesExpand ==
  ASSUME NEW rs \in Files
  PROVE  Expanded(rs) /\ IsFiniteSet(rs)
<1>1. CASE rs = {}
      BY <1>1, FS_EmptySet DEF Expanded
<1>2. CASE rs # {}
  <2>1. PICK u \in Urls : \E text \in Source[u] : rs = parse_zone(text)
        BY <1>2 DEF Files
  <2>2. PICK text \in Source[u] : rs = parse_zone(text)
        BY <2>1
  <2>3. Len(text) \in Nat
        BY LocalZonesAssumption
  <2> QED
      BY <2>2, <2>3, ParseExpands
<1> QED
    BY <1>1, <1>2

-----------------------------------------------------------------------------
(* The steps of a refresh.                                                 *)
LEMMA LeaveKeeps ==
  ASSUME Refreshing, NEW f \in Refreshers, Leave(f)
  PROVE  Refreshing'
<1>1. {} \in Files
      BY DEF Files
<1>2. /\ pc' = [pc EXCEPT ![f] = "idle"] /\ zone' = [zone EXCEPT ![f] = 0]
      /\ url' = [url EXCEPT ![f] = "none"] /\ parsed' = [parsed EXCEPT ![f] = {}]
      BY DEF Leave
<1>3. /\ pc' \in [Refreshers -> Places] /\ zone' \in [Refreshers -> Ids \cup {0}]
      /\ url' \in [Refreshers -> Urls \cup {"none"}] /\ parsed' \in [Refreshers -> Files]
      BY <1>1, <1>2 DEF Refreshing, Places
<1>4. /\ pc'[f] = "idle" /\ zone'[f] = 0 /\ parsed'[f] = {}
      /\ \A g \in Refreshers \ {f} : /\ pc'[g] = pc[g] /\ zone'[g] = zone[g]
                                     /\ url'[g] = url[g] /\ parsed'[g] = parsed[g]
      BY <1>2 DEF Refreshing
<1> QED
    BY <1>3, <1>4 DEF Refreshing

(* A row that is there when a download ends stays a row.                   *)
LEMMA AttemptedKeeps ==
  ASSUME Stored, NEW z \in Ids, NEW n \in Nat,
         \/ Attempted(z, [zones[z] EXCEPT !.fresh = TRUE])
         \/ Attempted(z, [zones[z] EXCEPT !.fresh = TRUE, !.count = n])
  PROVE  zones' \in [Ids -> Zone \cup {NoZone}]
<1>1. zones[z] # NoZone => /\ [zones[z] EXCEPT !.fresh = TRUE] \in Zone
                           /\ [zones[z] EXCEPT !.fresh = TRUE, !.count = n] \in Zone
      BY DEF Stored, Zone
<1> QED
    BY <1>1 DEF Stored, Attempted

LEMMA RefreshKeeps ==
  ASSUME ZoneInv, NEW f \in Refreshers, Refresh(f)
  PROVE  ZoneInv'
<1>1. CASE Download(f)
  <2>1. /\ pc[f] = "download" /\ pc' = [pc EXCEPT ![f] = "replace"]
        /\ UNCHANGED <<zones, records, due, zone, url, lpc, enabled_ids, published>>
        BY <1>1 DEF Download, tables, loader
  <2>2. url[f] \in Urls /\ zone[f] \in Ids
        BY <2>1 DEF ZoneInv, Refreshing
  <2>3. PICK text \in Source[url[f]] : parsed' = [parsed EXCEPT ![f] = parse_zone(text)]
        BY <1>1 DEF Download
  <2>4. parse_zone(text) \in Files
        BY <2>2 DEF Files
  <2>5. pc' \in [Refreshers -> Places] /\ parsed' \in [Refreshers -> Files]
        BY <2>1, <2>3, <2>4 DEF ZoneInv, Refreshing, Places
  <2>6. /\ pc'[f] = "replace"
        /\ \A g \in Refreshers \ {f} : pc'[g] = pc[g] /\ parsed'[g] = parsed[g]
        BY <2>1, <2>3 DEF ZoneInv, Refreshing
  <2>7. Refreshing'
        BY <2>1, <2>2, <2>5, <2>6 DEF ZoneInv, Refreshing
  <2> QED
      BY <2>1, <2>7 DEF ZoneInv, Stored, Loaded
<1>2. CASE DownloadFails(f)
  <2>1. /\ pc[f] = "download" /\ Leave(f)
        /\ Attempted(zone[f], [zones[zone[f]] EXCEPT !.fresh = TRUE])
        /\ UNCHANGED <<records, due, lpc, enabled_ids, published>>
        BY <1>2 DEF DownloadFails, loader
  <2>2. zone[f] \in Ids
        BY <2>1 DEF ZoneInv, Refreshing
  <2>3. zones' \in [Ids -> Zone \cup {NoZone}]
        BY <2>1, <2>2, AttemptedKeeps, 0 \in Nat DEF ZoneInv
  <2>4. Refreshing'
        BY <2>1, LeaveKeeps DEF ZoneInv
  <2> QED
      BY <2>1, <2>3, <2>4 DEF ZoneInv, Stored, Loaded
<1>3. CASE Replace(f)
  <2>1. /\ pc[f] = "replace" /\ pc' = [pc EXCEPT ![f] = "count"]
        /\ records' = [records EXCEPT ![zone[f]] = parsed[f]]
        /\ UNCHANGED <<zones, due, zone, url, parsed, lpc, enabled_ids, published>>
        BY <1>3 DEF Replace, loader
  <2>2. records' \in [Ids -> Files]
        BY <2>1 DEF ZoneInv, Stored, Refreshing
  <2>3. Refreshing'
        BY <2>1 DEF ZoneInv, Refreshing, Places
  <2> QED
      BY <2>1, <2>2, <2>3 DEF ZoneInv, Stored, Loaded
<1>4. CASE RecordSuccess(f)
  <2>1. /\ pc[f] = "count" /\ Leave(f)
        /\ Attempted(zone[f], [zones[zone[f]] EXCEPT !.fresh = TRUE,
                                                     !.count = Cardinality(parsed[f])])
        /\ UNCHANGED <<records, due, lpc, enabled_ids, published>>
        BY <1>4 DEF RecordSuccess, loader
  <2>2. zone[f] \in Ids /\ parsed[f] \in Files
        BY <2>1 DEF ZoneInv, Refreshing
  <2>3. Cardinality(parsed[f]) \in Nat
        BY <2>2, FilesExpand, FS_CardinalityType
  <2>4. zones' \in [Ids -> Zone \cup {NoZone}]
        BY <2>1, <2>2, <2>3, AttemptedKeeps DEF ZoneInv
  <2>5. Refreshing'
        BY <2>1, LeaveKeeps DEF ZoneInv
  <2> QED
      BY <2>1, <2>4, <2>5 DEF ZoneInv, Stored, Loaded
<1> QED
    BY <1>1, <1>2, <1>3, <1>4 DEF Refresh

LEMMA ReadKeeps ==
  ASSUME Stored, Refreshing, NEW f \in Refreshers, NEW z \in Ids, Read(f, z)
  PROVE  Refreshing'
<1>1. CASE zones[z] = NoZone
      BY <1>1 DEF Read, refresh, Refreshing
<1>2. CASE zones[z] # NoZone
  <2>1. /\ pc' = [pc EXCEPT ![f] = "download"] /\ zone' = [zone EXCEPT ![f] = z]
        /\ url' = [url EXCEPT ![f] = zones[z].url] /\ UNCHANGED parsed
        BY <1>2 DEF Read
  <2>2. zones[z].url \in Urls
        BY <1>2 DEF Stored, Zone
  <2>3. /\ pc' \in [Refreshers -> Places] /\ zone' \in [Refreshers -> Ids \cup {0}]
        /\ url' \in [Refreshers -> Urls \cup {"none"}]
        BY <2>1, <2>2 DEF Refreshing, Places
  <2>4. /\ pc'[f] = "download" /\ zone'[f] = z /\ url'[f] = zones[z].url
        /\ \A g \in Refreshers \ {f} : /\ pc'[g] = pc[g] /\ zone'[g] = zone[g]
                                       /\ url'[g] = url[g]
        BY <2>1 DEF Refreshing
  <2> QED
      BY <2>1, <2>2, <2>3, <2>4 DEF Refreshing
<1> QED
    BY <1>1, <1>2

-----------------------------------------------------------------------------
(* A set of numbers has a least one.                                       *)
LEMMA MinOfNats ==
  ASSUME NEW S, S \subseteq Nat, S # {}
  PROVE  Min(S) \in S /\ \A y \in S : Min(S) <= y
<1> DEFINE R == OpToRel(<, Nat)
<1>1. IsWellFoundedOn(R, Nat)
      BY NatLessThanWellFounded
<1>2. \A x, y \in Nat : y < x => <<y, x>> \in R
      BY DEF OpToRel
<1> HIDE DEF R
<1>3. PICK m \in S : \A y \in S : ~(<<y, m>> \in R)
      BY <1>1, WFMin
<1>4. ASSUME NEW y \in S PROVE m <= y
  <2>1. y \in Nat /\ m \in Nat
        OBVIOUS
  <2>2. ~(y < m)
        BY <1>2, <1>3, <2>1
  <2> QED
      BY <2>1, <2>2
<1> QED
    BY <1>3, <1>4 DEF Min

(* The operator's requests leave rows and whole files.                     *)
LEMMA EditsKeep ==
  ASSUME ZoneInv, Edits
  PROVE  ZoneInv'
<1>1. UNCHANGED <<due, refresh, loader>>
      BY DEF Edits, create_local_zone, update_local_zone, delete_local_zone, Request
<1>2. Refreshing' /\ Loaded'
      BY <1>1 DEF ZoneInv, Refreshing, Loaded, refresh, loader
<1>3. ASSUME NEW u \in Urls, NEW on \in BOOLEAN, create_local_zone(u, on)
      PROVE  Stored'
  <2>1. [NoZone EXCEPT !.url = u, !.enabled = on] \in Zone
        BY DEF NoZone, Zone
  <2> HIDE DEF NoZone, Zone
  <2> QED
      BY <1>1, <1>3, <2>1 DEF create_local_zone, ZoneInv, Stored
<1>4. ASSUME NEW z \in Ids, NEW u \in Urls, NEW on \in BOOLEAN, update_local_zone(z, u, on)
      PROVE  Stored'
  <2>1. /\ zones[z] # NoZone /\ UNCHANGED records
        /\ zones' = [zones EXCEPT ![z] = [zones[z] EXCEPT !.url = u, !.enabled = on]]
        BY <1>4 DEF update_local_zone, ZoneInv, Stored
  <2>2. [zones[z] EXCEPT !.url = u, !.enabled = on] \in Zone
        BY <2>1 DEF ZoneInv, Stored, Zone
  <2> QED
      BY <1>1, <2>1, <2>2 DEF ZoneInv, Stored
<1>5. ASSUME NEW z \in Ids, delete_local_zone(z)
      PROVE  Stored'
  <2>1. {} \in Files
        BY DEF Files
  <2> QED
      BY <1>1, <1>5, <2>1 DEF delete_local_zone, ZoneInv, Stored
<1> QED
    BY <1>2, <1>3, <1>4, <1>5 DEF Edits, ZoneInv

(* The records a reload publishes are those of whole files.                *)
LEMMA LoadKeeps ==
  ASSUME ZoneInv, LoadRecords
  PROVE  Loaded'
<1> DEFINE rs == UNION {records[z] : z \in enabled_ids}
<1>1. PICK first \in FirstAliases(rs) : published' = Published(rs, first)
      BY DEF LoadRecords
<1>2. \A z \in enabled_ids : Expanded(records[z])
      BY FilesExpand DEF ZoneInv, Loaded, Stored
<1>3. Expanded(rs)
      BY <1>2, UnionExpands
<1>4. published'.records = rs /\ published'.alias = first
      BY <1>1 DEF Published
<1> QED
    BY <1>3, <1>4 DEF LoadRecords, Loaded

LEMMA NextKeeps ==
  ASSUME ZoneInv, [Next]_vars
  PROVE  ZoneInv'
<1>w. "worker" \in Refreshers /\ "api" \in Refreshers
      BY DEF Refreshers
<1>1. CASE StartCycle
  <2>1. due' \subseteq Ids /\ UNCHANGED <<tables, refresh, loader>>
        BY <1>1 DEF StartCycle, Existing
  <2> QED
      BY <2>1 DEF ZoneInv, Stored, Refreshing, Loaded, tables, refresh, loader
<1>2. CASE NextZone
  <2>1. /\ due # {} /\ Read("worker", Min(due)) /\ due' = due \ {Min(due)}
        /\ UNCHANGED <<tables, loader>>
        BY <1>2 DEF NextZone
  <2>2. due \subseteq Ids /\ due \subseteq Nat
        BY LocalZonesAssumption DEF ZoneInv, Stored
  <2>3. Min(due) \in Ids
        BY <2>1, <2>2, MinOfNats
  <2>4. Refreshing'
        BY <1>w, <2>1, <2>3, ReadKeeps DEF ZoneInv
  <2> QED
      BY <2>1, <2>2, <2>4 DEF ZoneInv, Stored, Loaded, tables, loader
<1>3. ASSUME NEW z \in Ids, RequestRefresh(z) PROVE ZoneInv'
  <2>1. Read("api", z) /\ UNCHANGED <<tables, due, loader>>
        BY <1>3 DEF RequestRefresh
  <2>2. Refreshing'
        BY <1>w, <2>1, ReadKeeps DEF ZoneInv
  <2> QED
      BY <2>1, <2>2 DEF ZoneInv, Stored, Loaded, tables, loader
<1>4. ASSUME NEW f \in Refreshers, Escape(f) PROVE ZoneInv'
  <2>1. /\ Leave(f) /\ due' \subseteq Ids /\ UNCHANGED <<tables, loader>>
        BY <1>4 DEF Escape, ZoneInv, Stored
  <2>2. Refreshing'
        BY <2>1, LeaveKeeps DEF ZoneInv
  <2> QED
      BY <2>1, <2>2 DEF ZoneInv, Stored, Loaded, tables, loader
<1>5. ASSUME NEW z \in Ids, IntervalElapses(z) PROVE ZoneInv'
  <2>1. /\ zones[z].fresh /\ zones' = [zones EXCEPT ![z] = [zones[z] EXCEPT !.fresh = FALSE]]
        /\ UNCHANGED <<records, due, refresh, loader>>
        BY <1>5 DEF IntervalElapses, ZoneInv, Stored
  <2>2. zones[z] # NoZone
        BY <2>1 DEF NoZone
  <2>3. [zones[z] EXCEPT !.fresh = FALSE] \in Zone
        BY <2>2 DEF ZoneInv, Stored, Zone
  <2>4. Stored'
        BY <2>1, <2>3 DEF ZoneInv, Stored
  <2> QED
      BY <2>1, <2>4 DEF ZoneInv, Refreshing, Loaded, refresh, loader
<1>6. CASE LoadIds
  <2>1. /\ lpc' = "records" /\ enabled_ids' \subseteq Ids
        /\ UNCHANGED <<tables, due, refresh, published>>
        BY <1>6 DEF LoadIds
  <2> QED
      BY <2>1 DEF ZoneInv, Stored, Refreshing, Loaded, tables, refresh
<1>7. CASE LoadRecords
  <2>1. UNCHANGED <<tables, due, refresh>>
        BY <1>7 DEF LoadRecords
  <2>2. Loaded'
        BY <1>7, LoadKeeps
  <2> QED
      BY <2>1, <2>2 DEF ZoneInv, Stored, Refreshing, tables, refresh
<1>8. CASE UNCHANGED vars
      BY <1>8 DEF ZoneInv, Stored, Refreshing, Loaded, vars, tables, refresh, loader
<1> QED
    BY <1>w, <1>1, <1>2, <1>3, <1>4, <1>5, <1>6, <1>7, <1>8, RefreshKeeps, EditsKeep
    DEF Next, Worker

LEMMA InitKeeps == Init => ZoneInv
<1> SUFFICES ASSUME Init PROVE ZoneInv
    OBVIOUS
<1>1. {} \in Files
      BY DEF Files
<1>2. Stored
      BY <1>1, LocalZonesAssumption DEF Init, Stored
<1>3. Refreshing
      BY <1>1 DEF Init, Refreshing, Places
<1>4. published.records = {} /\ published.alias = <<>>
      BY DEF Init, Published
<1>5. Aliased({}) = {}
      BY DEF Aliased
<1>6. <<>> \in FirstAliases({})
      BY <1>5 DEF FirstAliases
<1>7. Loaded
      BY <1>4, <1>6 DEF Init, Loaded, Expanded
<1> QED
    BY <1>2, <1>3, <1>7 DEF ZoneInv

(* Every step of a refresh, a request or the loader keeps the invariant.   *)
THEOREM ZoneInvariant == Spec => []ZoneInv
<1> QED
    BY InitKeeps, NextKeeps, PTL DEF Spec

(* TypeOK: rows, records, places and the published index keep their types, *)
(* and a refresh that is under way has a zone, also when its row is gone.  *)
THEOREM TypeTheorem == Spec => []TypeOK
<1>1. ASSUME ZoneInv PROVE TypeOK
  <2>1. \A rs \in Files : rs \subseteq Record
        BY FilesExpand DEF Expanded
  <2>2. DOMAIN published.alias = Aliased(published.records)
        BY <1>1 DEF ZoneInv, Loaded, FirstAliases
  <2>3. \A z \in Ids : zones[z] \in Zone \cup {NoZone} /\ records[z] \subseteq Record
        BY <1>1, <2>1 DEF ZoneInv, Stored
  <2>4. \A f \in Refreshers : IF pc[f] = "idle" THEN zone[f] = 0 /\ parsed[f] = {}
                              ELSE zone[f] \in Ids /\ parsed[f] \subseteq Record
        BY <1>1, <2>1 DEF ZoneInv, Refreshing
  <2> QED
      BY <1>1, <2>2, <2>3, <2>4 DEF ZoneInv, Stored, Refreshing, Loaded, Expanded, Places, TypeOK
<1> QED
    BY <1>1, ZoneInvariant, PTL

(* WholeFiles: what is stored for a zone is one version of one file, or    *)
(* nothing, however the downloader's refreshes, those of the API,          *)
(* deletions and the reuse of an id overlap.                               *)
THEOREM WholeFilesTheorem == Spec => []WholeFiles
<1>1. ZoneInv => WholeFiles
      BY DEF ZoneInv, Stored, WholeFiles, Files
<1> QED
    BY <1>1, ZoneInvariant, PTL

(* ForwardAndReverse: an address the server answers with has its reverse   *)
(* lookup answered with the name, because records come and go by the file. *)
THEOREM ForwardReverseTheorem == Spec => []ForwardAndReverse
<1>1. ASSUME ZoneInv PROVE ForwardAndReverse
  <2> SUFFICES ASSUME NEW r \in published.records, r.value \in Addresses
               PROVE  \E p \in local(Reverse[r.value], "PTR").records : p.value = r.name
      BY DEF ForwardAndReverse
  <2> DEFINE p == [name |-> Reverse[r.value], rtype |-> "PTR", value |-> r.name]
  <2>1. p \in published.records
        BY <1>1 DEF ZoneInv, Loaded, Expanded
  <2>2. p \in get(Reverse[r.value], "PTR")
        BY <2>1 DEF get
  <2>3. local(Reverse[r.value], "PTR").records = get(Reverse[r.value], "PTR")
        BY DEF local, NoAnswer
  <2> QED
      BY <2>2, <2>3
<1> QED
    BY <1>1, ZoneInvariant, PTL

-----------------------------------------------------------------------------
(* Aliases.  What the published index says of a name's alias.              *)
Indexed ==
  /\ \A n \in DOMAIN published.alias : n \in Names /\ published.alias[n] \in Names
  /\ \A n : n \in DOMAIN published.alias => owns(n)
  /\ published.records \subseteq Record

LEMMA LoadedIndexed == Loaded => Indexed
<1> SUFFICES ASSUME Loaded PROVE Indexed
    OBVIOUS
<1> DEFINE rs == published.records
           first == published.alias
<1>1. Expanded(rs) /\ first \in FirstAliases(rs)
      BY DEF Loaded
<1>2. /\ DOMAIN first = Aliased(rs)
      /\ \A n \in Aliased(rs) : [name |-> n, rtype |-> "CNAME", value |-> first[n]] \in rs
      BY <1>1 DEF FirstAliases
<1>3. ASSUME NEW n \in Aliased(rs)
      PROVE  n \in Names /\ first[n] \in Names /\ owns(n)
  <2> DEFINE r == [name |-> n, rtype |-> "CNAME", value |-> first[n]]
  <2>1. r \in rs /\ r.rtype = "CNAME" /\ r.name = n /\ r.value = first[n]
        BY <1>2
  <2> HIDE DEF r
  <2> QED
      BY <1>1, <2>1 DEF Expanded, Record, owns
<1> QED
    BY <1>1, <1>2, <1>3 DEF Indexed, Expanded

(* Induction downwards: a set of numbers that has D, and m with m + 1, has *)
(* all numbers up to D.                                                    *)
LEMMA Downwards ==
  ASSUME NEW D \in Nat, NEW G, D \in G, \A m \in 0..D : m + 1 \in G /\ m < D => m \in G
  PROVE  0..D \subseteq G
<1> DEFINE B == {i \in 0..D : D - i \notin G}
<1> SUFFICES ASSUME B # {} PROVE FALSE
  <2>1. ASSUME NEW m \in 0..D, m \notin G PROVE B # {}
    <3>1. D - m \in 0..D /\ D - (D - m) = m
          OBVIOUS
    <3> QED
        BY <2>1, <3>1
  <2> QED
      BY <2>1
<1>1. Min(B) \in B /\ \A y \in B : Min(B) <= y
      BY MinOfNats
<1>2. PICK i : i \in 0..D /\ D - i \notin G /\ \A y \in B : i <= y
      BY <1>1
<1>3. i # 0
      BY <1>2
<1>4. i - 1 \in 0..D /\ i - 1 \notin B
      BY <1>2, <1>3
<1>5. D - (i - 1) \in G /\ D - (i - 1) = (D - i) + 1 /\ D - i < D /\ D - i \in 0..D
      BY <1>2, <1>3, <1>4
<1> QED
    BY <1>2, <1>5

-----------------------------------------------------------------------------
(* The body of add_address_chain at depth d, next being the answers of the *)
(* next depth.                                                             *)
Link(t, d, n, next) ==
  IF get(n, t) # {} THEN [aliases |-> <<>>, records |-> get(n, t)]
  ELSE IF d >= MaxCnameDepth \/ n \notin DOMAIN published.alias THEN NoAnswer
  ELSE LET rest == IF owns(published.alias[n]) THEN next[published.alias[n]] ELSE NoAnswer
       IN  [rest EXCEPT !.aliases = <<<<n, published.alias[n]>>>> \o @]

(* The answers at each depth from m on, each made from the next.           *)
Chains(c, t, m) ==
  \A d \in m..MaxCnameDepth : c[d] = [n \in Names |-> Link(t, d, n, c[d + 1])]

(* The recursion of add_address_chain is well defined.                     *)
LEMMA ChainsExist ==
  ASSUME NEW t
  PROVE  \E c : c = [d \in 0..MaxCnameDepth |-> [n \in Names |-> Link(t, d, n, c[d + 1])]]
<1> DEFINE D == MaxCnameDepth
           G == {m \in 0..D : \E c : Chains(c, t, m)}
<1>0. D \in Nat
      BY LocalZonesAssumption
<1>1. D \in G
  <2> DEFINE last == [n \in Names |-> Link(t, D, n, <<>>)]
             c == [d \in {D} |-> last]
  <2>1. c[D] = last /\ D..D = {D}
        BY <1>0
  <2> HIDE DEF c
  <2>2. \A n \in Names : Link(t, D, n, <<>>) = Link(t, D, n, c[D + 1])
        BY <1>0 DEF Link
  <2>3. c[D] = [n \in Names |-> Link(t, D, n, c[D + 1])]
        BY <2>1, <2>2
  <2> HIDE DEF last
  <2>4. Chains(c, t, D)
        BY <2>1, <2>3 DEF Chains
  <2> QED
      BY <1>0, <2>4
<1>2. ASSUME NEW m \in 0..D, m + 1 \in G, m < D PROVE m \in G
  <2>1. PICK c : Chains(c, t, m + 1)
        BY <1>2
  <2> DEFINE this == [n \in Names |-> Link(t, m, n, c[m + 1])]
             b == [d \in m..D |-> IF d = m THEN this ELSE c[d]]
  <2>2. /\ b[m] = this /\ \A d \in m + 1..D : b[d] = c[d]
        /\ m + 1 \in m + 1..D /\ m..D = {m} \cup m + 1..D
        BY <1>0, <1>2
  <2>3. b[m] = [n \in Names |-> Link(t, m, n, b[m + 1])]
        BY <2>2
  <2> HIDE DEF b, this
  <2>4. ASSUME NEW d \in m + 1..D
        PROVE  b[d] = [n \in Names |-> Link(t, d, n, b[d + 1])]
    <3>1. c[d] = [n \in Names |-> Link(t, d, n, c[d + 1])]
          BY <2>1 DEF Chains
    <3>2. CASE d = D
      <4>1. \A n \in Names : Link(t, d, n, c[d + 1]) = Link(t, d, n, b[d + 1])
            BY <1>0, <3>2 DEF Link
      <4> QED
          BY <2>2, <3>1, <4>1
    <3>3. CASE d # D
      <4>1. d + 1 \in m + 1..D
            BY <1>0, <1>2, <3>3
      <4> QED
          BY <2>2, <3>1, <4>1
    <3> QED
        BY <3>2, <3>3
  <2>5. Chains(b, t, m)
        BY <2>2, <2>3, <2>4 DEF Chains
  <2> QED
      BY <2>5
<1> HIDE DEF G
<1>3. 0 \in G
  <2>1. 0..D \subseteq G
        BY <1>0, <1>1, <1>2, Downwards
  <2> QED
      BY <1>0, <2>1
<1>4. PICK c : Chains(c, t, 0)
      BY <1>3 DEF G
<1> DEFINE b == [d \in 0..D |-> c[d]]
<1>5. ASSUME NEW d \in 0..D
      PROVE  b[d] = [n \in Names |-> Link(t, d, n, b[d + 1])]
  <2>1. b[d] = [n \in Names |-> Link(t, d, n, c[d + 1])]
        BY <1>4 DEF Chains
  <2>2. \A n \in Names : Link(t, d, n, c[d + 1]) = Link(t, d, n, b[d + 1])
    <3>1. CASE d = D
          BY <1>0, <3>1 DEF Link
    <3>2. CASE d # D
      <4>1. d + 1 \in 0..D
            BY <1>0, <3>2
      <4>2. b[d + 1] = c[d + 1]
            BY <4>1
      <4> QED
          BY <4>2
    <3> QED
        BY <3>1, <3>2
  <2> HIDE DEF b
  <2> QED
      BY <2>1, <2>2
<1>6. b = [d \in 0..D |-> b[d]]
      OBVIOUS
<1> HIDE DEF b
<1>7. b = [d \in 0..D |-> [n \in Names |-> Link(t, d, n, b[d + 1])]]
      BY <1>5, <1>6
<1> QED
    BY <1>7

(* So its answer is that of depth 0.                                       *)
LEMMA ChainAnswers ==
  ASSUME NEW t
  PROVE  \E c : /\ \A d \in 0..MaxCnameDepth, n \in Names : c[d][n] = Link(t, d, n, c[d + 1])
                /\ \A n : add_address_chain(n, t) = c[0][n]
<1> DEFINE E(c) == c = [d \in 0..MaxCnameDepth |-> [n \in Names |->
             IF get(n, t) # {} THEN [aliases |-> <<>>, records |-> get(n, t)]
             ELSE IF d >= MaxCnameDepth \/ n \notin DOMAIN published.alias THEN NoAnswer
             ELSE LET rest == IF owns(published.alias[n]) THEN c[d + 1][published.alias[n]]
                              ELSE NoAnswer
                  IN  [rest EXCEPT !.aliases = <<<<n, published.alias[n]>>>> \o @]]]
           C == CHOOSE c : E(c)
<1>1. \E c : E(c)
      BY ChainsExist DEF Link
<1>2. E(C)
      BY <1>1, Zenon
<1>3. \A n : add_address_chain(n, t) = C[0][n]
      BY Zenon DEF add_address_chain
<1>4. C = [d \in 0..MaxCnameDepth |-> [n \in Names |-> Link(t, d, n, C[d + 1])]]
      BY <1>2, Zenon DEF Link
<1> HIDE DEF C, E
<1>5. ASSUME NEW d \in 0..MaxCnameDepth, NEW n \in Names
      PROVE  C[d][n] = Link(t, d, n, C[d + 1])
  <2>1. PICK b : b = C
        OBVIOUS
  <2>2. C = [e \in 0..MaxCnameDepth |-> [m \in Names |-> Link(t, e, m, b[e + 1])]]
        BY <1>4, <2>1, Zenon
  <2>3. C[d][n] = Link(t, d, n, b[d + 1])
        BY <2>2
  <2> QED
      BY <2>1, <2>3
<1> QED
    BY <1>3, <1>5

-----------------------------------------------------------------------------
(* The names that at most j aliases lead to.                               *)
Ends(n, t, j) == UNION {{p[k] : p \in Walks(n, t, k)} : k \in 0..j}

LEMMA WalkZero ==
  ASSUME NEW n, NEW t
  PROVE  {p[0] : p \in Walks(n, t, 0)} = {n}
<1> DEFINE p0 == [i \in 0..0 |-> n]
<1>1. p0 \in Walks(n, t, 0) /\ p0[0] = n
      BY DEF Walks
<1>2. \A p \in Walks(n, t, 0) : p[0] = n
      BY DEF Walks
<1> HIDE DEF p0
<1> QED
    BY <1>1, <1>2

(* A walk ends at a name with an address, or without an alias.             *)
LEMMA EndsStop ==
  ASSUME NEW n, NEW t, NEW j \in Nat,
         j = 0 \/ get(n, t) # {} \/ n \notin DOMAIN published.alias
  PROVE  Ends(n, t, j) = {n}
<1>1. ASSUME NEW k \in 0..j, k # 0 PROVE Walks(n, t, k) = {}
  <2> SUFFICES ASSUME NEW p \in Walks(n, t, k) PROVE FALSE
      OBVIOUS
  <2>1. 0 \in 0..k-1
        BY <1>1
  <2> QED
      BY <1>1, <2>1 DEF Walks
<1>2. 0 \in 0..j
      OBVIOUS
<1>3. \A k \in 0..j : {p[k] : p \in Walks(n, t, k)} = IF k = 0 THEN {n} ELSE {}
  <2>1. ASSUME NEW k \in 0..j, k = 0 PROVE {p[k] : p \in Walks(n, t, k)} = {n}
    <3>1. {p[0] : p \in Walks(n, t, 0)} = {n}
          BY WalkZero
    <3> QED
        BY <2>1, <3>1
  <2>2. ASSUME NEW k \in 0..j, k # 0 PROVE {p[k] : p \in Walks(n, t, k)} = {}
        BY <1>1, <2>2
  <2> QED
      BY <2>1, <2>2
<1> QED
    BY <1>2, <1>3 DEF Ends

(* And else it goes on from the alias.                                     *)
LEMMA WalkOn ==
  ASSUME NEW n, NEW t, NEW k \in Nat, get(n, t) = {}, n \in DOMAIN published.alias
  PROVE  {p[k + 1] : p \in Walks(n, t, k + 1)} = {p[k] : p \in Walks(published.alias[n], t, k)}
<1> DEFINE a == published.alias
           m == a[n]
<1>r. m \in Range(a)
      BY DEF Range
<1>1. ASSUME NEW p \in Walks(n, t, k + 1)
      PROVE  \E q \in Walks(m, t, k) : q[k] = p[k + 1]
  <2>1. /\ p \in [0..k + 1 -> {n} \cup Range(a)] /\ p[0] = n
        /\ \A i \in 0..k : get(p[i], t) = {} /\ p[i] \in DOMAIN a /\ p[i + 1] = a[p[i]]
    <3>1. (k + 1) - 1 = k
          OBVIOUS
    <3> QED
        BY <3>1 DEF Walks
  <2> DEFINE q == [i \in 0..k |-> p[i + 1]]
  <2>2. \A i \in 0..k : q[i] = p[i + 1] /\ q[i] \in Range(a)
        BY <2>1 DEF Range
  <2>3. q \in [0..k -> {m} \cup Range(a)]
        BY <2>2
  <2>4. q[0] = m
        BY <2>1, <2>2
  <2>5. ASSUME NEW i \in 0..k-1
        PROVE  get(q[i], t) = {} /\ q[i] \in DOMAIN a /\ q[i + 1] = a[q[i]]
    <3>1. i \in 0..k /\ i + 1 \in 0..k
          OBVIOUS
    <3>2. q[i] = p[i + 1] /\ q[i + 1] = p[i + 1 + 1]
          BY <2>2, <3>1
    <3> QED
        BY <2>1, <3>1, <3>2
  <2> HIDE DEF q
  <2>6. q \in Walks(m, t, k)
        BY <2>3, <2>4, <2>5 DEF Walks
  <2> QED
      BY <2>2, <2>6
<1>2. ASSUME NEW q \in Walks(m, t, k)
      PROVE  \E p \in Walks(n, t, k + 1) : q[k] = p[k + 1]
  <2>1. /\ q \in [0..k -> {m} \cup Range(a)] /\ q[0] = m
        /\ \A i \in 0..k-1 : get(q[i], t) = {} /\ q[i] \in DOMAIN a /\ q[i + 1] = a[q[i]]
        BY DEF Walks
  <2> DEFINE p == [i \in 0..k + 1 |-> IF i = 0 THEN n ELSE q[i - 1]]
  <2>2. p[0] = n /\ \A i \in 0..k : p[i + 1] = q[i]
        OBVIOUS
  <2>3. p \in [0..k + 1 -> {n} \cup Range(a)]
    <3>1. \A i \in 0..k + 1 : i = 0 \/ i - 1 \in 0..k
          OBVIOUS
    <3> QED
        BY <1>r, <2>1, <3>1
  <2> HIDE DEF p
  <2>4. ASSUME NEW i \in 0..(k + 1) - 1
        PROVE  get(p[i], t) = {} /\ p[i] \in DOMAIN a /\ p[i + 1] = a[p[i]]
    <3>1. CASE i = 0
          BY <2>1, <2>2, <3>1
    <3>2. CASE i # 0
      <4>1. i - 1 \in 0..k-1 /\ i - 1 \in 0..k /\ i \in 0..k /\ (i - 1) + 1 = i
            BY <3>2
      <4>2. p[i] = q[i - 1] /\ p[i + 1] = q[i]
            BY <2>2, <4>1
      <4> QED
          BY <2>1, <4>1, <4>2
    <3> QED
        BY <3>1, <3>2
  <2>5. p \in Walks(n, t, k + 1)
        BY <2>2, <2>3, <2>4 DEF Walks
  <2> QED
      BY <2>2, <2>5
<1> QED
    BY <1>1, <1>2

LEMMA EndsOn ==
  ASSUME NEW n, NEW t, NEW j \in Nat, get(n, t) = {}, n \in DOMAIN published.alias
  PROVE  Ends(n, t, j + 1) = {n} \cup Ends(published.alias[n], t, j)
<1> DEFINE W(x, k) == {p[k] : p \in Walks(x, t, k)}
           m == published.alias[n]
<1>1. W(n, 0) = {n}
      BY WalkZero
<1>2. ASSUME NEW k \in 0..j PROVE W(n, k + 1) = W(m, k)
  <2>1. k \in Nat
        OBVIOUS
  <2> QED
      BY <2>1, WalkOn
<1>3. Ends(n, t, j + 1) = UNION {W(n, k) : k \in 0..j + 1} /\ Ends(m, t, j) = UNION {W(m, k) : k \in 0..j}
      BY DEF Ends
<1> HIDE DEF W
<1>4. \A k \in 0..j + 1 : k = 0 \/ (k - 1 \in 0..j /\ (k - 1) + 1 = k)
      OBVIOUS
<1>5. \A k \in 0..j : k + 1 \in 0..j + 1
      OBVIOUS
<1>6. UNION {W(n, k) : k \in 0..j + 1} = {n} \cup UNION {W(m, k) : k \in 0..j}
  <2>1. ASSUME NEW x \in UNION {W(n, k) : k \in 0..j + 1}
        PROVE  x \in {n} \cup UNION {W(m, k) : k \in 0..j}
    <3>1. PICK k \in 0..j + 1 : x \in W(n, k)
          OBVIOUS
    <3>2. CASE k = 0
          BY <1>1, <3>1, <3>2
    <3>3. CASE k # 0
      <4>1. k - 1 \in 0..j /\ W(n, k) = W(m, k - 1)
            BY <1>2, <1>4, <3>3
      <4> QED
          BY <3>1, <4>1
    <3> QED
        BY <3>2, <3>3
  <2>2. ASSUME NEW k \in 0..j, NEW x \in W(m, k)
        PROVE  x \in UNION {W(n, i) : i \in 0..j + 1}
        BY <1>2, <1>5, <2>2
  <2>3. n \in UNION {W(n, i) : i \in 0..j + 1}
    <3>1. 0 \in 0..j + 1
          OBVIOUS
    <3> QED
        BY <1>1, <3>1
  <2> QED
      BY <2>1, <2>2, <2>3
<1> QED
    BY <1>3, <1>6

-----------------------------------------------------------------------------
(* What an answer is at depth d: at most as many aliases as are left, one  *)
(* after the other, and the addresses of the names they can lead to.       *)
Chased(ans, t, d, n) ==
  /\ ans \in [aliases : Seq(Names \X Names), records : SUBSET Record]
  /\ Len(ans.aliases) <= MaxCnameDepth - d
  /\ \A i \in 1..Len(ans.aliases) :
       ans.aliases[i][1] = IF i = 1 THEN n ELSE ans.aliases[i - 1][2]
  /\ ans.records = UNION {get(m, t) : m \in Ends(n, t, MaxCnameDepth - d)}

(* An answer without aliases.                                              *)
LEMMA ChasedStop ==
  ASSUME Indexed, NEW t, NEW d \in 0..MaxCnameDepth, NEW n, NEW ans,
         ans = [aliases |-> <<>>, records |-> get(n, t)],
         d = MaxCnameDepth \/ get(n, t) # {} \/ n \notin DOMAIN published.alias
  PROVE  Chased(ans, t, d, n)
<1>1. MaxCnameDepth \in Nat /\ MaxCnameDepth - d \in Nat
      BY LocalZonesAssumption
<1>2. Ends(n, t, MaxCnameDepth - d) = {n}
      BY <1>1, EndsStop
<1>3. UNION {get(m, t) : m \in {n}} = get(n, t)
      OBVIOUS
<1>4. get(n, t) \subseteq Record
      BY DEF get, Indexed
<1>5. <<>> \in Seq(Names \X Names) /\ Len(<<>>) = 0
      OBVIOUS
<1>6. ans.aliases = <<>> /\ ans.records = get(n, t)
      OBVIOUS
<1>7. ans \in [aliases : Seq(Names \X Names), records : SUBSET Record]
      BY <1>4, <1>5
<1> QED
    BY <1>1, <1>2, <1>3, <1>5, <1>6, <1>7 DEF Chased

(* One element more at the front of a sequence.                            *)
LEMMA Prepend ==
  ASSUME NEW S, NEW e \in S, NEW tl \in Seq(S)
  PROVE  \E k \in Nat : /\ Len(tl) = k /\ Len(<<e>> \o tl) = k + 1
                        /\ <<e>> \o tl \in Seq(S) /\ (<<e>> \o tl)[1] = e
                        /\ \A i \in 2..k + 1 : (<<e>> \o tl)[i] = tl[i - 1]
<1>1. PICK s : s = <<e>>
      OBVIOUS
<1>2. s \in Seq(S) /\ Len(s) = 1 /\ s[1] = e
      BY <1>1
<1>3. Len(tl) \in Nat
      OBVIOUS
<1>4. PICK k \in Nat : k = Len(tl)
      BY <1>3
<1>5. PICK new : new = s \o tl
      OBVIOUS
<1>6. /\ new \in Seq(S) /\ Len(new) = 1 + k
      /\ \A i \in 1..1 + k : new[i] = IF i <= 1 THEN s[i] ELSE tl[i - 1]
  <2>1. /\ s \o tl \in Seq(S) /\ Len(s \o tl) = Len(s) + Len(tl)
        /\ \A i \in 1..Len(s) + Len(tl) :
             (s \o tl)[i] = IF i <= Len(s) THEN s[i] ELSE tl[i - Len(s)]
        BY <1>2, ConcatProperties, Zenon
  <2>2. Len(s) = 1 /\ Len(tl) = k
        BY <1>2, <1>4
  <2> QED
      BY <1>5, <2>1, <2>2, Zenon
<1>7. new[1] = e /\ \A i \in 2..k + 1 : new[i] = tl[i - 1]
  <2>1. \A i \in 1..1 + k : new[i] = IF i <= 1 THEN s[i] ELSE tl[i - 1]
        BY <1>6
  <2>2. s[1] = e
        BY <1>2
  <2> QED
      BY <1>4, <2>1, <2>2
<1>8. k + 1 = 1 + k
      BY <1>4
<1> QED
    BY <1>1, <1>4, <1>5, <1>6, <1>7, <1>8

(* An alias before the answer of what it leads to.                         *)
LEMMA ChasedOn ==
  ASSUME Indexed, NEW t, NEW d \in 0..MaxCnameDepth - 1, NEW n \in DOMAIN published.alias,
         get(n, t) = {}, NEW rest, Chased(rest, t, d + 1, published.alias[n]), NEW ans,
         ans = [rest EXCEPT !.aliases = <<<<n, published.alias[n]>>>> \o @]
  PROVE  Chased(ans, t, d, n)
<1>m. PICK m : m = published.alias[n]
      OBVIOUS
<1>e. PICK e : e = <<n, m>>
      OBVIOUS
<1>a. PICK tl : tl = rest.aliases
      OBVIOUS
<1>n. PICK new : new = <<e>> \o tl
      OBVIOUS
<1>l. PICK left : left = MaxCnameDepth - (d + 1)
      OBVIOUS
<1>1. MaxCnameDepth \in Nat /\ left \in Nat /\ MaxCnameDepth - d = left + 1
      BY <1>l, LocalZonesAssumption
<1>2. n \in Names /\ m \in Names
      BY <1>m DEF Indexed
<1>3. /\ rest \in [aliases : Seq(Names \X Names), records : SUBSET Record]
      /\ Len(tl) <= left
      /\ \A i \in 1..Len(tl) : tl[i][1] = IF i = 1 THEN m ELSE tl[i - 1][2]
      /\ rest.records = UNION {get(x, t) : x \in Ends(m, t, left)}
      BY <1>m, <1>a, <1>l DEF Chased
<1>4. tl \in Seq(Names \X Names) /\ rest.records \in SUBSET Record
      BY <1>3, <1>a
<1>5. e \in Names \X Names /\ e[1] = n /\ e[2] = m
      BY <1>2, <1>e
<1>6. ans = [aliases |-> new, records |-> rest.records]
  <2>1. ans = [rest EXCEPT !.aliases = new]
        BY <1>m, <1>e, <1>a, <1>n
  <2>2. rest = [aliases |-> tl, records |-> rest.records]
        BY <1>3, <1>a
  <2> QED
      BY <2>1, <2>2
<1>7. PICK k \in Nat :
           /\ Len(tl) = k /\ Len(new) = k + 1 /\ new \in Seq(Names \X Names) /\ new[1] = e
           /\ \A i \in 2..k + 1 : new[i] = tl[i - 1]
  <2>1. PICK S : S = Names \X Names
        OBVIOUS
  <2>2. e \in S /\ tl \in Seq(S)
        BY <1>4, <1>5, <2>1, Zenon
  <2>3. \E k \in Nat : /\ Len(tl) = k /\ Len(<<e>> \o tl) = k + 1
                       /\ <<e>> \o tl \in Seq(S) /\ (<<e>> \o tl)[1] = e
                       /\ \A i \in 2..k + 1 : (<<e>> \o tl)[i] = tl[i - 1]
        BY <2>2, Prepend
  <2> QED
      BY <1>n, <2>1, <2>3, Zenon
<1>8. new[1] = e /\ \A i \in 2..k + 1 : new[i] = tl[i - 1]
      BY <1>7
<1>9. \A i \in 1..k : tl[i][1] = IF i = 1 THEN m ELSE tl[i - 1][2]
      BY <1>3, <1>7
<1>10. ASSUME NEW i \in 1..k + 1
       PROVE  new[i][1] = IF i = 1 THEN n ELSE new[i - 1][2]
  <2>1. CASE i = 1
        BY <1>5, <1>8, <2>1
  <2>2. CASE i # 1
    <3>1. i \in 2..k + 1 /\ i - 1 \in 1..k
          BY <2>2
    <3>2. new[i][1] = IF i - 1 = 1 THEN m ELSE tl[(i - 1) - 1][2]
          BY <1>8, <1>9, <3>1
    <3>3. CASE i = 2
          BY <1>5, <1>8, <3>2, <3>3
    <3>4. CASE i # 2
      <4>1. i - 1 \in 2..k + 1 /\ i - 1 # 1
            BY <3>1, <3>4
      <4> QED
          BY <1>8, <2>2, <3>2, <4>1
    <3> QED
        BY <3>3, <3>4
  <2> QED
      BY <2>1, <2>2
<1>11. UNION {get(x, t) : x \in Ends(n, t, left + 1)} = rest.records
  <2>1. Ends(n, t, left + 1) = {n} \cup Ends(m, t, left)
        BY <1>1, <1>m, EndsOn
  <2> QED
      BY <1>3, <2>1
<1>12. ans \in [aliases : Seq(Names \X Names), records : SUBSET Record]
  <2>1. PICK Q : Q = Seq(Names \X Names)
        OBVIOUS
  <2>2. PICK rs : rs = rest.records
        OBVIOUS
  <2>3. new \in Q /\ rs \in SUBSET Record /\ ans = [aliases |-> new, records |-> rs]
        BY <1>4, <1>6, <1>7, <2>1, <2>2, Zenon
  <2>4. ans \in [aliases : Q, records : SUBSET Record]
    <3>1. \A a \in Q, b \in SUBSET Record :
            [aliases |-> a, records |-> b] \in [aliases : Q, records : SUBSET Record]
          OBVIOUS
    <3> QED
        BY <2>3, <3>1, Zenon
  <2> QED
      BY <2>1, <2>4, Zenon
<1>13. ans.aliases = new /\ ans.records = rest.records
       BY <1>6
<1>14. Len(new) = k + 1 /\ k + 1 <= MaxCnameDepth - d
       BY <1>1, <1>3, <1>7
<1> QED
    BY <1>1, <1>10, <1>11, <1>12, <1>13, <1>14 DEF Chased

(* The answer at each depth is what the aliases lead to.                   *)
LEMMA LinkChased ==
  ASSUME Indexed, NEW t, NEW c,
         \A d \in 0..MaxCnameDepth, n \in Names : c[d][n] = Link(t, d, n, c[d + 1])
  PROVE  \A n \in Names : Chased(c[0][n], t, 0, n)
<1> DEFINE D == MaxCnameDepth
           G == {d \in 0..D : \A n \in Names : Chased(c[d][n], t, d, n)}
<1>0. D \in Nat
      BY LocalZonesAssumption
<1>1. ASSUME NEW d \in 0..D, NEW n \in Names,
             d = D \/ get(n, t) # {} \/ n \notin DOMAIN published.alias
      PROVE  Chased(c[d][n], t, d, n) /\ (get(n, t) = {} => c[d][n] = NoAnswer)
  <2>1. c[d][n] = Link(t, d, n, c[d + 1])
        OBVIOUS
  <2>2. PICK next : next = c[d + 1]
        OBVIOUS
  <2>3. Link(t, d, n, next) = [aliases |-> <<>>, records |-> get(n, t)]
    <3>1. CASE get(n, t) # {}
          BY <3>1 DEF Link
    <3>2. CASE get(n, t) = {}
      <4>1. d >= D \/ n \notin DOMAIN published.alias
            BY <1>0, <1>1, <3>2
      <4>2. Link(t, d, n, next) = NoAnswer
            BY <3>2, <4>1 DEF Link
      <4> QED
          BY <3>2, <4>2 DEF NoAnswer
    <3> QED
        BY <3>1, <3>2
  <2>4. c[d][n] = [aliases |-> <<>>, records |-> get(n, t)]
        BY <2>1, <2>2, <2>3
  <2> QED
      BY <1>1, <2>4, ChasedStop DEF NoAnswer
<1>2. D \in G
      BY <1>0, <1>1
<1>3. ASSUME NEW d \in 0..D, d + 1 \in G, d < D PROVE d \in G
  <2> SUFFICES ASSUME NEW n \in Names PROVE Chased(c[d][n], t, d, n)
      OBVIOUS
  <2>1. CASE get(n, t) # {} \/ n \notin DOMAIN published.alias
        BY <1>1, <2>1
  <2>2. CASE get(n, t) = {} /\ n \in DOMAIN published.alias
    <3> DEFINE m == published.alias[n]
               rest == c[d + 1][m]
    <3>1. m \in Names /\ d + 1 \in 0..D /\ d \in 0..D - 1
          BY <1>0, <1>3, <2>2 DEF Indexed
    <3>2. ~owns(m) => rest = NoAnswer
      <4>1. ~owns(m) => get(m, t) = {} /\ m \notin DOMAIN published.alias
            BY DEF Indexed, owns, get
      <4> QED
          BY <1>1, <3>1, <4>1
    <3>3. Chased(rest, t, d + 1, m)
          BY <1>3, <3>1
    <3>4. c[d][n] = [rest EXCEPT !.aliases = <<<<n, m>>>> \o @]
      <4>1. c[d][n] = [(IF owns(m) THEN rest ELSE NoAnswer) EXCEPT !.aliases = <<<<n, m>>>> \o @]
        <5>1. c[d][n] = Link(t, d, n, c[d + 1])
              OBVIOUS
        <5>2. ~(d >= D)
              BY <1>0, <1>3
        <5> QED
            BY <2>2, <5>1, <5>2 DEF Link
      <4> QED
          BY <3>2, <4>1
    <3> QED
        BY <2>2, <3>1, <3>3, <3>4, ChasedOn
  <2> QED
      BY <2>1, <2>2
<1> HIDE DEF G
<1>4. 0..D \subseteq G
      BY <1>0, <1>2, <1>3, Downwards
<1>5. 0 \in G
      BY <1>0, <1>4
<1> QED
    BY <1>5 DEF G

(* AliasesChased: the answer to an A or AAAA question has the addresses of *)
(* the name that the aliases lead to within the limit, and the aliases on  *)
(* the way, for every index the loader can have published, loops included. *)
THEOREM AliasesTheorem == Spec => []AliasesChased
<1>1. ASSUME Loaded PROVE AliasesChased
  <2> SUFFICES ASSUME NEW n \in {r.name : r \in published.records}, NEW t \in {"A", "AAAA"}
               PROVE  /\ Len(local(n, t).aliases) <= MaxCnameDepth
                      /\ \A i \in 1..Len(local(n, t).aliases) :
                           local(n, t).aliases[i][1] =
                             IF i = 1 THEN n ELSE local(n, t).aliases[i - 1][2]
                      /\ local(n, t).records = UNION {get(m, t) : m \in Ends(n, t, MaxCnameDepth)}
      BY DEF AliasesChased, Ends
  <2>1. Indexed
        BY <1>1, LoadedIndexed
  <2>2. n \in Names
        BY <2>1 DEF Indexed, Record
  <2>3. PICK c : /\ \A d \in 0..MaxCnameDepth, x \in Names : c[d][x] = Link(t, d, x, c[d + 1])
                 /\ \A x : add_address_chain(x, t) = c[0][x]
        BY ChainAnswers
  <2>4. Chased(c[0][n], t, 0, n)
        BY <2>1, <2>2, <2>3, LinkChased
  <2>5. local(n, t) = c[0][n]
        BY <2>3 DEF local
  <2>6. MaxCnameDepth - 0 = MaxCnameDepth
        BY LocalZonesAssumption
  <2> QED
      BY <2>4, <2>5, <2>6 DEF Chased
<1>2. ZoneInv => AliasesChased
      BY <1>1 DEF ZoneInv
<1> QED
    BY <1>2, ZoneInvariant, PTL
=============================================================================
