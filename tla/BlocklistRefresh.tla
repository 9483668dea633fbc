-------------------------- MODULE BlocklistRefresh --------------------------
(***************************************************************************)
(* Blocklists: their rows are in config.db, the domains they carry in      *)
(* blocklist.db, and no transaction covers both.  The downloader process   *)
(* refreshes the lists that are due, one after the other; API threads      *)
(* refresh, create, change and delete lists and overrides at the same      *)
(* time; the DNS server loads the domains of the enabled lists.            *)
(*                                                                         *)
(* The text of a list is the set of domains parse_blocklist finds in it,   *)
(* any set at each download.  Of the clock only this is kept: whether the  *)
(* update interval of a list has elapsed since last_downloaded_at (due).   *)
(***************************************************************************)
EXTENDS Integers, FiniteSets, FiniteSetsExt

CONSTANTS
  Ids,         \* row ids, a set of positive numbers
  Initial,     \* the lists configured when the downloader first starts
  Domains,     \* domains the lists may carry
  Threads,     \* API threads that refresh lists
  MaxOps,      \* bound: requests that change something
  MaxElapses,  \* bound: update intervals that elapse
  MaxFailures  \* bound: exceptions other than BlocklistDownloadError

ASSUME BlocklistAssumption ==
  /\ Ids \subseteq Nat \ {0} /\ IsFiniteSet(Ids) /\ IsFiniteSet(Domains)
  /\ Initial \subseteq Ids
  /\ "worker" \notin Threads
  /\ {MaxOps, MaxElapses, MaxFailures} \subseteq Nat

Refreshers == {"worker"} \cup Threads
NoId == 0

VARIABLES
  rows, overrides,   \* config.db: blocklists by id, override domains
  stored,            \* blocklist.db: the domains stored for each id
  pc, id, exempt, desired, existing,  \* per refresher: place and locals
  todo,              \* the worker: due lists of this cycle still to do
  size,              \* the last sample of the blocklist size
  deleting,          \* the list a DELETE request has yet to empty
  lpc, enabled_ids, published,  \* the DNS server's loader and its result
  ops, elapses, failures,       \* counters for the bounds
  valid,      \* history: the refresher's write left exactly its domains
  disturbed,  \* history: lists whose last refresh was disturbed
  unapplied,  \* history: overrides the last write of a list knew not of
  slipped     \* history: domains that another refresh stored between the
              \* read and the write of the refresh that wrote the list last

configVars == <<rows, overrides>>
localVars == <<pc, id, exempt, desired, existing>>
loaderVars == <<lpc, enabled_ids, published>>
bounds == <<ops, elapses, failures>>
history == <<valid, disturbed, unapplied, slipped>>
vars == <<configVars, stored, localVars, todo, size, deleting, loaderVars,
          bounds, history>>

Row == [enabled : BOOLEAN, domain_count : Nat, due : BOOLEAN]
NoRow == [enabled |-> FALSE, domain_count |-> -1, due |-> TRUE]
NewRow(e) == [enabled |-> e, domain_count |-> 0, due |-> TRUE]

Existing == {i \in Ids : rows[i] # NoRow}
Enabled == {i \in Existing : rows[i].enabled}
Due == {i \in Enabled : rows[i].due}

(* Lists an operator has configured, none of them downloaded yet.          *)
Init ==
  /\ rows = [i \in Ids |-> IF i \in Initial THEN NewRow(TRUE) ELSE NoRow]
  /\ overrides = {} /\ stored = [i \in Ids |-> {}]
  /\ pc = [r \in Refreshers |-> "idle"] /\ id = [r \in Refreshers |-> NoId]
  /\ exempt = [r \in Refreshers |-> {}] /\ desired = [r \in Refreshers |-> {}]
  /\ existing = [r \in Refreshers |-> {}]
  /\ todo = {} /\ size = 0 /\ deleting = NoId
  /\ lpc = "idle" /\ enabled_ids = {} /\ published = {}
  /\ ops = 0 /\ elapses = 0 /\ failures = 0
  /\ valid = [r \in Refreshers |-> FALSE] /\ disturbed = {}
  /\ unapplied = [i \in Ids |-> {}] /\ slipped = [i \in Ids |-> {}]

-----------------------------------------------------------------------------
(* refresh_blocklist, on behalf of a refresher r for the list id[r].       *)
Goto(r, l) == pc' = [pc EXCEPT ![r] = l]
RefreshFrame == UNCHANGED <<overrides, size, deleting, loaderVars, ops, elapses>>

(* The refresher's locals are gone; the worker goes on with its next list, *)
(* or, when the exception is not a BlocklistDownloadError, ends its cycle. *)
Leave(r, next) ==
  /\ Goto(r, IF r = "worker" THEN next ELSE "idle")
  /\ id' = [id EXCEPT ![r] = NoId]
  /\ exempt' = [exempt EXCEPT ![r] = {}]
  /\ desired' = [desired EXCEPT ![r] = {}]
  /\ existing' = [existing EXCEPT ![r] = {}]
  /\ valid' = [valid EXCEPT ![r] = FALSE]

Done(r) ==
  /\ Leave(r, "cycle")
  /\ todo' = IF r = "worker" THEN todo \ {id[r]} ELSE todo

Abort(r) ==
  /\ Leave(r, "sample")
  /\ todo' = IF r = "worker" THEN {} ELSE todo

(* What parse_blocklist may find in the text of a list.                    *)
Texts == SUBSET Domains

(* Mutant: the overrides are not taken out.                                *)
Mutant_apply_overrides(domains, exempted) == domains

apply_overrides(domains, exempted) == domains \ exempted

(* The text arrives, is parsed, and the overrides are loaded and applied.  *)
Download(r, text) ==
  /\ pc[r] = "download"
  /\ exempt' = [exempt EXCEPT ![r] = overrides]
  /\ desired' = [desired EXCEPT ![r] = apply_overrides(text, overrides)]
  /\ Goto(r, "read")
  /\ UNCHANGED <<rows, stored, id, existing, todo, failures, history>>
  /\ RefreshFrame

(* Mutant: the row is taken to be there.                                   *)
Mutant_Attempted(row) == [row EXCEPT !.due = FALSE]

Attempted(row) == IF row = NoRow THEN NoRow ELSE [row EXCEPT !.due = FALSE]

(* Mutant: a failed attempt is not recorded.                               *)
Mutant_DownloadFails(r) ==
  /\ pc[r] = "download"
  /\ Done(r)
  /\ UNCHANGED <<rows, stored, failures, disturbed, unapplied, slipped>> /\ RefreshFrame

(* A BlocklistDownloadError: record_failure stores the time of the attempt *)
(* on the row, if there still is one.                                      *)
DownloadFails(r) ==
  /\ pc[r] = "download"
  /\ rows' = [rows EXCEPT ![id[r]] = Attempted(@)]
  /\ Done(r)
  /\ UNCHANGED <<stored, failures, disturbed, unapplied, slipped>> /\ RefreshFrame

(* replace_domains reads what is stored: SQLite begins the transaction     *)
(* only with the first write ...                                           *)
ReadExisting(r) ==
  /\ pc[r] = "read"
  /\ existing' = [existing EXCEPT ![r] = stored[id[r]]]
  /\ Goto(r, "write")
  /\ UNCHANGED <<rows, stored, id, exempt, desired, todo, failures, history>>
  /\ RefreshFrame

Added(r) == desired[r] \ existing[r]
Removed(r) == existing[r] \ desired[r]

(* The other refreshers of i that have still to record their count.        *)
Recording(i) == {r \in Refreshers : pc[r] = "record" /\ id[r] = i}

(* Mutant: domains that left the list are not deleted.                     *)
Mutant_Replace(r) == stored[id[r]] \cup Added(r)

Replace(r) == (stored[id[r]] \ Removed(r)) \cup Added(r)

(* ... and then deletes and inserts the difference.                        *)
Write(r) ==
  LET i == id[r]
  IN  /\ pc[r] = "write"
      /\ Added(r) \cap stored[i] = {}
      /\ stored' = [stored EXCEPT ![i] = Replace(r)]
      /\ Goto(r, "record")
      /\ valid' = [s \in Refreshers |-> IF s = r THEN stored[i] = existing[r]
                                        ELSE valid[s] /\ s \notin Recording(i)]
      /\ disturbed' = disturbed \cup {i}
      /\ unapplied' = [unapplied EXCEPT ![i] = overrides \ exempt[r]]
      /\ slipped' = [slipped EXCEPT ![i] = stored[i] \ existing[r]]
      /\ UNCHANGED <<rows, id, exempt, desired, existing, todo, failures>>
      /\ RefreshFrame

(* uq_blocklist_domain refuses a domain another refresh has inserted since *)
(* the read: everything is rolled back and the IntegrityError escapes.     *)
WriteConflicts(r) ==
  /\ pc[r] = "write"
  /\ Added(r) \cap stored[id[r]] # {}
  /\ Abort(r)
  /\ UNCHANGED <<rows, stored, failures, disturbed, unapplied, slipped>> /\ RefreshFrame

(* record_success; it leaves a row that is gone alone.                     *)
RecordSuccess(r) ==
  /\ pc[r] = "record"
  /\ rows' = [rows EXCEPT ![id[r]] = IF @ = NoRow THEN @ ELSE
       [@ EXCEPT !.domain_count = Cardinality(desired[r]), !.due = FALSE]]
  /\ disturbed' = IF valid[r] THEN disturbed \ {id[r]} ELSE disturbed \cup {id[r]}
  /\ Done(r)
  /\ UNCHANGED <<stored, failures, unapplied, slipped>> /\ RefreshFrame

(* Any other exception: a URL the client refuses (InvalidURL), a protocol  *)
(* error, a locked database.                                               *)
Escape(r) ==
  /\ pc[r] \in {"download", "read", "write", "record"}
  /\ failures < MaxFailures /\ failures' = failures + 1
  /\ Abort(r)
  /\ UNCHANGED <<rows, stored, disturbed, unapplied, slipped>> /\ RefreshFrame

Refresh(r) ==
  \/ \E text \in Texts : Download(r, text)
  \/ DownloadFails(r) \/ ReadExisting(r) \/ Write(r) \/ WriteConflicts(r)
  \/ RecordSuccess(r)

-----------------------------------------------------------------------------
(* The downloader's loop.                                                  *)
WorkerFrame == UNCHANGED <<configVars, stored, exempt, desired, existing,
                           deleting, loaderVars, ops, elapses, history>>

(* list_blocklists and _is_due; the due lists are taken in order of id.    *)
StartCycle ==
  /\ pc["worker"] = "idle"
  /\ todo' = Due /\ Goto("worker", "cycle")
  /\ UNCHANGED <<id, size, failures>> /\ WorkerFrame

(* get_blocklist finds the row, or the list was deleted meanwhile.         *)
NextList ==
  /\ pc["worker"] = "cycle" /\ todo # {}
  /\ IF rows[Min(todo)] = NoRow
     THEN todo' = todo \ {Min(todo)} /\ UNCHANGED <<pc, id>>
     ELSE /\ Goto("worker", "download")
          /\ id' = [id EXCEPT !["worker"] = Min(todo)]
          /\ UNCHANGED todo
  /\ UNCHANGED <<size, failures>> /\ WorkerFrame

EndCycle ==
  /\ pc["worker"] = "cycle" /\ todo = {}
  /\ Goto("worker", "sample")
  /\ UNCHANGED <<id, todo, size, failures>> /\ WorkerFrame

total_enabled_domain_count == MapThenSumSet(LAMBDA i : rows[i].domain_count, Enabled)

Sample ==
  /\ pc["worker"] = "sample"
  /\ size' = total_enabled_domain_count
  /\ Goto("worker", "idle")
  /\ UNCHANGED <<id, todo, failures>> /\ WorkerFrame

SampleFails ==
  /\ pc["worker"] = "sample"
  /\ failures < MaxFailures /\ failures' = failures + 1
  /\ Goto("worker", "idle")
  /\ UNCHANGED <<id, todo, size>> /\ WorkerFrame

Worker == StartCycle \/ NextList \/ EndCycle \/ Sample \/ Refresh("worker")

(* The update interval of a downloaded list elapses.                       *)
IntervalElapses(i) ==
  /\ rows[i] # NoRow /\ ~rows[i].due
  /\ elapses < MaxElapses /\ elapses' = elapses + 1
  /\ rows' = [rows EXCEPT ![i].due = TRUE]
  /\ UNCHANGED <<overrides, stored, localVars, todo, size, deleting, loaderVars>>
  /\ UNCHANGED <<ops, failures, history>>

-----------------------------------------------------------------------------
(* The API.                                                                *)
Request == ops < MaxOps /\ ops' = ops + 1
ApiFrame == UNCHANGED <<todo, size, loaderVars, elapses>>
ConfigFrame == UNCHANGED <<stored, localVars, failures>>

(* POST /blocklists/<id>/refresh; 404 without a row.                       *)
RequestRefresh(t, i) ==
  /\ Request /\ pc[t] = "idle" /\ rows[i] # NoRow
  /\ Goto(t, "download")
  /\ id' = [id EXCEPT ![t] = i]
  /\ UNCHANGED <<configVars, stored, exempt, desired, existing, deleting>>
  /\ UNCHANGED <<failures, history>> /\ ApiFrame

(* SQLite gives the new row the id after the greatest one in use, which    *)
(* may be the id of a list that was deleted.                               *)
NewId == IF Existing = {} THEN 1 ELSE Max(Existing) + 1

CreateBlocklist(e) ==
  /\ Request /\ NewId \in Ids
  /\ rows' = [rows EXCEPT ![NewId] = NewRow(e)]
  /\ disturbed' = IF stored[NewId] = {} /\ Recording(NewId) = {}
                  THEN disturbed \ {NewId} ELSE disturbed \cup {NewId}
  /\ UNCHANGED <<overrides, deleting, valid, unapplied, slipped>> /\ ConfigFrame /\ ApiFrame

UpdateBlocklist(i) ==
  /\ Request /\ rows[i] # NoRow
  /\ rows' = [rows EXCEPT ![i].enabled = ~@]
  /\ UNCHANGED <<overrides, deleting, history>> /\ ConfigFrame /\ ApiFrame

(* DELETE /blocklists/<id>: the row goes first ...                         *)
DeleteRow(i) ==
  /\ Request /\ deleting = NoId /\ rows[i] # NoRow
  /\ rows' = [rows EXCEPT ![i] = NoRow]
  /\ deleting' = i
  /\ UNCHANGED <<overrides, history>> /\ ConfigFrame /\ ApiFrame

(* ... then its domains, unless that fails.                                *)
DeleteDomains ==
  /\ deleting # NoId /\ deleting' = NoId
  /\ stored' = [stored EXCEPT ![deleting] = {}]
  /\ valid' = [r \in Refreshers |-> valid[r] /\ r \notin Recording(deleting)]
  /\ disturbed' = IF rows[deleting] = NoRow /\ Recording(deleting) = {}
                  THEN disturbed \ {deleting} ELSE disturbed \cup {deleting}
  /\ unapplied' = [unapplied EXCEPT ![deleting] = {}]
  /\ slipped' = [slipped EXCEPT ![deleting] = {}]
  /\ UNCHANGED <<configVars, localVars, ops, failures>> /\ ApiFrame

DeleteDomainsFails ==
  /\ deleting # NoId /\ deleting' = NoId
  /\ failures < MaxFailures /\ failures' = failures + 1
  /\ UNCHANGED <<configVars, stored, localVars, ops, history>> /\ ApiFrame

(* An override takes effect on a list's next refresh.                      *)
CreateOverride(d) ==
  /\ Request /\ d \notin overrides
  /\ overrides' = overrides \cup {d}
  /\ unapplied' = [i \in Ids |-> unapplied[i] \cup {d}]
  /\ UNCHANGED <<rows, deleting, valid, disturbed, slipped>> /\ ConfigFrame /\ ApiFrame

DeleteOverride(d) ==
  /\ Request /\ d \in overrides
  /\ overrides' = overrides \ {d}
  /\ UNCHANGED <<rows, deleting, history>> /\ ConfigFrame /\ ApiFrame

Api ==
  \/ \E t \in Threads, i \in Ids : RequestRefresh(t, i)
  \/ \E e \in BOOLEAN : CreateBlocklist(e)
  \/ \E i \in Ids : UpdateBlocklist(i) \/ DeleteRow(i)
  \/ DeleteDomains \/ DeleteDomainsFails
  \/ \E d \in Domains : CreateOverride(d) \/ DeleteOverride(d)

-----------------------------------------------------------------------------
(* load_blocklist_domains: the enabled ids from config.db (none: nothing   *)
(* is blocked), then their domains from blocklist.db.                      *)
LoaderFrame == UNCHANGED <<configVars, stored, localVars, todo, size, deleting,
                           bounds, history>>

LoadEnabled ==
  /\ lpc = "idle"
  /\ enabled_ids' = Enabled
  /\ IF Enabled = {} THEN published' = {} /\ UNCHANGED lpc
     ELSE lpc' = "domains" /\ UNCHANGED published
  /\ LoaderFrame

(* Mutant: what is loaded is added to what was there.                      *)
Mutant_LoadDomains ==
  /\ lpc = "domains"
  /\ published' = published \cup UNION {stored[i] : i \in enabled_ids}
  /\ lpc' = "idle" /\ enabled_ids' = {}
  /\ LoaderFrame

LoadDomains ==
  /\ lpc = "domains"
  /\ published' = UNION {stored[i] : i \in enabled_ids}
  /\ lpc' = "idle" /\ enabled_ids' = {}
  /\ LoaderFrame

Loader == LoadEnabled \/ LoadDomains

-----------------------------------------------------------------------------
Next ==
  \/ Worker \/ SampleFails
  \/ \E t \in Threads : Refresh(t)
  \/ \E r \in Refreshers : Escape(r)
  \/ \E i \in Ids : IntervalElapses(i)
  \/ Api \/ Loader

Spec == Init /\ [][Next]_vars

(* The downloader polls for ever, every exception is caught in its loop,   *)
(* and the DNS server's refresh timer keeps loading.                       *)
FairSpec == Spec /\ WF_vars(Worker) /\ WF_vars(Loader)
-----------------------------------------------------------------------------
(* The types of the two databases, of the refreshers' locals and of the    *)
(* loader; the size sample of a cycle is a number.                         *)
TypeOK ==
  /\ rows \in [Ids -> Row \cup {NoRow}] /\ overrides \subseteq Domains
  /\ stored \in [Ids -> SUBSET Domains]
  /\ pc \in [Refreshers -> {"idle", "cycle", "download", "read", "write",
                            "record", "sample"}]
  /\ id \in [Refreshers -> Ids \cup {NoId}]
  /\ {exempt, desired, existing} \subseteq [Refreshers -> SUBSET Domains]
  /\ \A r \in Refreshers :
       pc[r] \in {"download", "read", "write", "record"} => id[r] \in Ids
  /\ todo \subseteq Ids /\ size \in Nat /\ deleting \in Ids \cup {NoId}
  /\ lpc \in {"idle", "domains"} /\ enabled_ids \subseteq Ids
  /\ published \subseteq Domains
  /\ {ops, elapses, failures} \subseteq Nat
  /\ valid \in [Refreshers -> BOOLEAN] /\ disturbed \subseteq Ids
  /\ {unapplied, slipped} \subseteq [Ids -> SUBSET Domains]

(* docs/frontend-integration.md, domain_count: "number of domains stored". *)
(* It is, as soon as a refresh is over that no other refresh or deletion   *)
(* of the list disturbed between its read and its record: whatever mix of  *)
(* downloads earlier races left behind, the next quiet refresh heals it,   *)
(* and a deleted list whose id is used again starts out right.             *)
DomainCountSettled ==
  \A i \in Existing \ disturbed : rows[i].domain_count = Cardinality(stored[i])

(* docs/frontend-integration.md, overrides: "Adding or removing an         *)
(* override takes effect on a list's next refresh": a stored domain that   *)
(* is an override is one the refresh that wrote last did not know of.  One *)
(* exception, which the sentence does not make: replace_domains deletes    *)
(* only what it read, so an override it did know of stays if another       *)
(* refresh of the list stored it between that read and the write.  The     *)
(* next refresh that no other one interrupts takes it out.                 *)
OverridesApplied ==
  \A i \in Ids : stored[i] \cap overrides \subseteq unapplied[i] \cup slipped[i]

(* README, Blocklist downloader: "fetches each enabled blocklist when its  *)
(* interval elapses": every due list is eventually tried (or disabled or   *)
(* deleted), also when other lists or the whole cycle fail some times.     *)
EveryDueListTried == \A i \in Ids : i \in Due ~> i \notin Due

(* Once the requests, intervals and failures are over, the DNS server      *)
(* blocks exactly what is stored for the enabled lists, and the sampled    *)
(* size is the sum of their counts.                                        *)
BlocklistsConverge ==
  <>[](/\ published = UNION {stored[i] : i \in Enabled}
       /\ size = total_enabled_domain_count)
=============================================================================
