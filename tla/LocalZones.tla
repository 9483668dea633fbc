----------------------------- MODULE LocalZones -----------------------------
(***************************************************************************)
(* Local zones from end to end: files that are downloaded, expanded into   *)
(* records, stored per zone, loaded by the DNS server and used to answer.  *)
(*                                                                         *)
(* The downloader and the API's refresh route run the same refresh at the  *)
(* same time; operators create, change and delete zones meanwhile; the     *)
(* loader reads the enabled ids and the records in two statements.  The    *)
(* TTL of a record and the text of last_status are left out.               *)
(***************************************************************************)
EXTENDS Integers, Sequences, FiniteSets, FiniteSetsExt, Functions

CONSTANTS
  Ids,           \* zone ids, positive numbers
  Names,         \* valid names, reverse names among them
  V4, V6,        \* addresses
  Reverse,       \* reverse_pointer of an address
  Source,        \* the files that a URL may serve: sequences of lines
  Initial,       \* the zones to begin with
  MaxCnameDepth, \* _MAX_CNAME_DEPTH
  MaxOps,        \* bound: requests that change a zone
  MaxApi,        \* bound: refreshes through the API
  MaxElapses,    \* bound: update intervals that elapse
  MaxEscapes     \* bound: exceptions that are not download errors

Urls == DOMAIN Source
Addresses == V4 \cup V6
NoZone == [url |-> "none", enabled |-> FALSE, count |-> 0, fresh |-> FALSE]
Zone == [url : Urls, enabled : BOOLEAN, count : Nat, fresh : BOOLEAN]
Record == [name : Names, rtype : {"A", "AAAA", "CNAME", "PTR"},
           value : Names \cup Addresses]

ASSUME LocalZonesAssumption ==
  /\ Ids \subseteq Nat \ {0} /\ IsFiniteSet(Ids)
  /\ V4 \cap V6 = {} /\ Reverse \in [Addresses -> Names]
  /\ Names \cap Addresses = {}
  /\ Initial \in [Ids -> Zone \cup {NoZone}]
  /\ \A u \in Urls : \A text \in Source[u] : DOMAIN text = 1..Len(text) /\ Len(text) \in Nat
  /\ {MaxCnameDepth, MaxOps, MaxApi, MaxElapses, MaxEscapes} \subseteq Nat

Refreshers == {"worker", "api"}

VARIABLES
  zones, records,        \* config.db: rows, and the records of each id
  due,                   \* the worker: rows of its cycle still to come
  pc, zone, url, parsed, \* per refresher: place, zone id, its URL, the records
  lpc, enabled_ids,      \* the loader: place, ids read
  published,             \* LocalRecords: the records, and the first CNAME
                         \* of each name
  ops, apis, elapses, escapes  \* counters for the bounds

tables == <<zones, records>>
refresh == <<pc, zone, url, parsed>>
loader == <<lpc, enabled_ids, published>>
bounds == <<ops, apis, elapses, escapes>>
vars == <<tables, due, refresh, loader, bounds>>

-----------------------------------------------------------------------------
(* A file: lines [value, name].                                            *)

(* Mutant: an IPv6 address gets no reverse record.                         *)
Mutant_expand(value, name) ==
  IF value \in V4
  THEN {[name |-> name, rtype |-> "A", value |-> value],
        [name |-> Reverse[value], rtype |-> "PTR", value |-> name]}
  ELSE IF value \in V6 THEN {[name |-> name, rtype |-> "AAAA", value |-> value]}
  ELSE IF value \in Names THEN {[name |-> name, rtype |-> "CNAME", value |-> value]}
  ELSE {}

(* An address makes a forward and a reverse record, a name an alias.       *)
expand(value, name) ==
  IF value \in Addresses
  THEN {[name |-> name, rtype |-> IF value \in V4 THEN "A" ELSE "AAAA",
         value |-> value],
        [name |-> Reverse[value], rtype |-> "PTR", value |-> name]}
  ELSE IF value \in Names THEN {[name |-> name, rtype |-> "CNAME", value |-> value]}
  ELSE {}

(* Lines with an invalid name are skipped, repeated records kept once.     *)
parse_zone(text) ==
  UNION {expand(text[i].value, text[i].name) :
           i \in {i \in 1..Len(text) : text[i].name \in Names}}

-----------------------------------------------------------------------------
(* LocalRecords, and the answers the resolver makes of it.                 *)
Published(rs, first) == [records |-> rs, alias |-> first]

owns(name) == \E r \in published.records : r.name = name
get(name, rtype) ==
  {r \in published.records : r.name = name /\ r.rtype = rtype}

(* The first CNAME of each name, whatever order the rows came in.          *)
Aliased(rs) == {r.name : r \in {r \in rs : r.rtype = "CNAME"}}
FirstAliases(rs) ==
  {f \in [Aliased(rs) -> {r.value : r \in rs}] :
     \A n \in Aliased(rs) : [name |-> n, rtype |-> "CNAME", value |-> f[n]] \in rs}

NoAnswer == [aliases |-> <<>>, records |-> {}]

(* Mutant: the depth is checked before the address is looked up.           *)
Mutant_add_address_chain(name, rtype) ==
  LET alias == published.alias
      chain[d \in 0..MaxCnameDepth] == [n \in Names |->
        IF d >= MaxCnameDepth THEN NoAnswer
        ELSE IF get(n, rtype) # {} THEN [aliases |-> <<>>, records |-> get(n, rtype)]
        ELSE IF n \notin DOMAIN alias THEN NoAnswer
        ELSE LET rest == IF owns(alias[n]) THEN chain[d + 1][alias[n]] ELSE NoAnswer
             IN  [rest EXCEPT !.aliases = <<<<n, alias[n]>>>> \o @]]
  IN  chain[0][name]

(* The aliases followed, as <<owner, target>>, and the addresses found.    *)
add_address_chain(name, rtype) ==
  LET alias == published.alias
      chain[d \in 0..MaxCnameDepth] == [n \in Names |->
        IF get(n, rtype) # {} THEN [aliases |-> <<>>, records |-> get(n, rtype)]
        ELSE IF d >= MaxCnameDepth \/ n \notin DOMAIN alias THEN NoAnswer
        ELSE LET rest == IF owns(alias[n]) THEN chain[d + 1][alias[n]] ELSE NoAnswer
             IN  [rest EXCEPT !.aliases = <<<<n, alias[n]>>>> \o @]]
  IN  chain[0][name]

(* The answer to an owned name; no records, for a type without any.        *)
local(name, qtype) ==
  IF qtype \in {"A", "AAAA"} THEN add_address_chain(name, qtype)
  ELSE IF qtype \in {"CNAME", "PTR"} THEN [NoAnswer EXCEPT !.records = get(name, qtype)]
  ELSE NoAnswer

-----------------------------------------------------------------------------
Init ==
  /\ zones = Initial /\ records = [z \in Ids |-> {}]
  /\ due = {} /\ pc = [f \in Refreshers |-> "idle"]
  /\ zone = [f \in Refreshers |-> 0] /\ url = [f \in Refreshers |-> "none"]
  /\ parsed = [f \in Refreshers |-> {}]
  /\ lpc = "ids" /\ enabled_ids = {} /\ published = Published({}, <<>>)
  /\ ops = 0 /\ apis = 0 /\ elapses = 0 /\ escapes = 0

Existing == {z \in Ids : zones[z] # NoZone}
Due(z) == zones[z].enabled /\ ~zones[z].fresh

(* run_due_downloads: the rows are read and judged by one clock reading.   *)
StartCycle ==
  /\ due = {} /\ pc["worker"] = "idle"
  /\ due' = {z \in Existing : Due(z)} /\ due' # {}
  /\ UNCHANGED <<tables, refresh, loader, bounds>>

(* refresh_local_zone reads the row; one deleted meanwhile is an error     *)
(* that the cycle logs.                                                    *)
Read(f, z) ==
  IF zones[z] = NoZone THEN UNCHANGED refresh
  ELSE /\ pc' = [pc EXCEPT ![f] = "download"]
       /\ zone' = [zone EXCEPT ![f] = z]
       /\ url' = [url EXCEPT ![f] = zones[z].url]
       /\ UNCHANGED parsed

NextZone ==
  /\ pc["worker"] = "idle" /\ due # {}
  /\ Read("worker", Min(due)) /\ due' = due \ {Min(due)}
  /\ UNCHANGED <<tables, loader, bounds>>

RequestRefresh(z) ==
  /\ pc["api"] = "idle" /\ zones[z] # NoZone /\ Read("api", z)
  /\ apis < MaxApi /\ apis' = apis + 1
  /\ UNCHANGED <<tables, due, loader, ops, elapses, escapes>>

Leave(f) ==
  /\ pc' = [pc EXCEPT ![f] = "idle"] /\ zone' = [zone EXCEPT ![f] = 0]
  /\ url' = [url EXCEPT ![f] = "none"] /\ parsed' = [parsed EXCEPT ![f] = {}]

Download(f) ==
  /\ pc[f] = "download" /\ pc' = [pc EXCEPT ![f] = "replace"]
  /\ \E text \in Source[url[f]] : parsed' = [parsed EXCEPT ![f] = parse_zone(text)]
  /\ UNCHANGED <<tables, due, zone, url, loader, bounds>>

(* record_failure and record_success do nothing for a row that is gone.    *)
Attempted(z, row) ==
  zones' = IF zones[z] = NoZone THEN zones ELSE [zones EXCEPT ![z] = row]

DownloadFails(f) ==
  /\ pc[f] = "download" /\ Leave(f)
  /\ Attempted(zone[f], [zones[zone[f]] EXCEPT !.fresh = TRUE])
  /\ UNCHANGED <<records, due, loader, bounds>>

(* Mutant: the previous records are not deleted.                           *)
Mutant_Replace(f) ==
  /\ pc[f] = "replace" /\ pc' = [pc EXCEPT ![f] = "count"]
  /\ records' = [records EXCEPT ![zone[f]] = @ \cup parsed[f]]
  /\ UNCHANGED <<zones, due, zone, url, parsed, loader, bounds>>

(* replace_records: one transaction, which does not look at the row.       *)
Replace(f) ==
  /\ pc[f] = "replace" /\ pc' = [pc EXCEPT ![f] = "count"]
  /\ records' = [records EXCEPT ![zone[f]] = parsed[f]]
  /\ UNCHANGED <<zones, due, zone, url, parsed, loader, bounds>>

RecordSuccess(f) ==
  /\ pc[f] = "count" /\ Leave(f)
  /\ Attempted(zone[f], [zones[zone[f]] EXCEPT !.fresh = TRUE,
                                               !.count = Cardinality(parsed[f])])
  /\ UNCHANGED <<records, due, loader, bounds>>

(* An exception of the HTTP library or of the database at any of these     *)
(* places ends the request, and the whole cycle of the worker.             *)
Escape(f) ==
  /\ pc[f] # "idle" /\ Leave(f)
  /\ escapes < MaxEscapes /\ escapes' = escapes + 1
  /\ due' = IF f = "worker" THEN {} ELSE due
  /\ UNCHANGED <<tables, loader, ops, apis, elapses>>

Refresh(f) == Download(f) \/ DownloadFails(f) \/ Replace(f) \/ RecordSuccess(f)

IntervalElapses(z) ==
  /\ zones[z].fresh /\ zones' = [zones EXCEPT ![z].fresh = FALSE]
  /\ elapses < MaxElapses /\ elapses' = elapses + 1
  /\ UNCHANGED <<records, due, refresh, loader, ops, apis, escapes>>

-----------------------------------------------------------------------------
(* The operator's requests.                                                *)
Request ==
  /\ ops < MaxOps /\ ops' = ops + 1
  /\ UNCHANGED <<due, refresh, loader, apis, elapses, escapes>>

NewId == IF Existing = {} THEN 1 ELSE Max(Existing) + 1

create_local_zone(u, on) ==
  /\ NewId \in Ids /\ Request
  /\ zones' = [zones EXCEPT ![NewId] = [NoZone EXCEPT !.url = u, !.enabled = on]]
  /\ UNCHANGED records

update_local_zone(z, u, on) ==
  /\ zones[z] # NoZone /\ Request
  /\ zones' = [zones EXCEPT ![z].url = u, ![z].enabled = on] /\ zones' # zones
  /\ UNCHANGED records

(* The row and its records, in one transaction.                            *)
delete_local_zone(z) ==
  /\ zones[z] # NoZone /\ Request
  /\ zones' = [zones EXCEPT ![z] = NoZone]
  /\ records' = [records EXCEPT ![z] = {}]

Edits ==
  \E u \in Urls, on \in BOOLEAN :
    \/ create_local_zone(u, on)
    \/ \E z \in Ids : update_local_zone(z, u, on) \/ delete_local_zone(z)

-----------------------------------------------------------------------------
(* load_local_records, and the index that the reload publishes.            *)
LoadIds ==
  /\ lpc = "ids" /\ lpc' = "records"
  /\ enabled_ids' = {z \in Ids : zones[z].enabled}
  /\ UNCHANGED <<tables, due, refresh, published, bounds>>

(* Mutant: a reload only adds to the records it has.                       *)
Mutant_LoadRecords ==
  LET rs == published.records \cup UNION {records[z] : z \in enabled_ids}
  IN  /\ lpc = "records" /\ lpc' = "ids" /\ enabled_ids' = {}
      /\ \E first \in FirstAliases(rs) : published' = Published(rs, first)
      /\ UNCHANGED <<tables, due, refresh, bounds>>

LoadRecords ==
  LET rs == UNION {records[z] : z \in enabled_ids}
  IN  /\ lpc = "records" /\ lpc' = "ids" /\ enabled_ids' = {}
      /\ \E first \in FirstAliases(rs) : published' = Published(rs, first)
      /\ UNCHANGED <<tables, due, refresh, bounds>>

Worker == StartCycle \/ NextZone \/ Refresh("worker")

Next ==
  \/ Worker \/ Refresh("api") \/ Escape("worker") \/ Escape("api")
  \/ \E z \in Ids : RequestRefresh(z) \/ IntervalElapses(z)
  \/ Edits \/ LoadIds \/ LoadRecords

Spec == Init /\ [][Next]_vars

(* The worker's loop survives every exception and polls again; downloads   *)
(* have a timeout; the refresh timer keeps reloading.  A request may hang. *)
FairSpec == Spec /\ WF_vars(Worker) /\ WF_vars(LoadIds \/ LoadRecords)
-----------------------------------------------------------------------------
TypeOK ==
  /\ \A z \in Ids : zones[z] \in Zone \cup {NoZone} /\ records[z] \subseteq Record
  /\ due \subseteq Ids
  /\ pc \in [Refreshers -> {"idle", "download", "replace", "count"}]
  /\ \A f \in Refreshers : IF pc[f] = "idle" THEN zone[f] = 0 /\ parsed[f] = {}
                           ELSE zone[f] \in Ids /\ parsed[f] \subseteq Record
  /\ lpc \in {"ids", "records"} /\ enabled_ids \subseteq Ids
  /\ published.records \subseteq Record
  /\ DOMAIN published.alias = Aliased(published.records)

(* docs/frontend-integration.md, local zones: an address "yields a forward *)
(* A/AAAA record and the matching PTR record".  Whatever refreshes,        *)
(* deletions and reloads overlap, each address the server answers with has *)
(* its reverse lookup answered with the same name.                         *)
ForwardAndReverse ==
  \A r \in published.records :
    r.value \in Addresses =>
      \E p \in local(Reverse[r.value], "PTR").records : p.value = r.name

(* replace_records: "Atomically swap the stored records".  What is stored  *)
(* for an id is one version of one file, never a mixture of two, also when *)
(* the downloader and a request refresh the zone at the same time.         *)
WholeFiles ==
  \A z \in Ids : records[z] = {} \/ \E u \in Urls : \E text \in Source[u] :
                                      records[z] = parse_zone(text)

(* The walks along aliases from a name, through names without an address   *)
(* of the type.                                                            *)
Walks(name, rtype, k) ==
  {p \in [0..k -> {name} \cup Range(published.alias)] :
     /\ p[0] = name
     /\ \A i \in 0..k-1 : /\ get(p[i], rtype) = {}
                          /\ p[i] \in DOMAIN published.alias
                          /\ p[i + 1] = published.alias[p[i]]}

(* docs/frontend-integration.md, local zones: an alias is "chased to its   *)
(* address within the local set".  The addresses of an answer are those of *)
(* the name that at most MaxCnameDepth aliases lead to, and none if there  *)
(* is no such name; the aliases of an answer follow one another, and a     *)
(* loop among them ends.                                                   *)
AliasesChased ==
  \A n \in {r.name : r \in published.records}, t \in {"A", "AAAA"} :
    LET ans == local(n, t)
        ends(k) == {p[k] : p \in Walks(n, t, k)}
    IN  /\ Len(ans.aliases) <= MaxCnameDepth
        /\ \A i \in 1..Len(ans.aliases) :
             ans.aliases[i][1] = IF i = 1 THEN n ELSE ans.aliases[i - 1][2]
        /\ ans.records = UNION {get(m, t) : m \in UNION {ends(k) : k \in 0..MaxCnameDepth}}

(* docs/frontend-integration.md, local zones: "only enabled zones are      *)
(* served".  Once requests and intervals have ended, every enabled zone    *)
(* has been tried, after any exception, and the server answers from        *)
(* exactly what is stored for the enabled zones.                           *)
ZonesSettle ==
  <>[](/\ \A z \in Existing : ~Due(z)
       /\ published.records = UNION {records[z] : z \in {z \in Ids : zones[z].enabled}})
=============================================================================
