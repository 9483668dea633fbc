----------------------------- MODULE ConfigStore -----------------------------
(***************************************************************************)
(* The databases from the container's start on: the initdb process, which  *)
(* creates the tables, moves the rows of the old single database over,     *)
(* adds missing columns and plants defaults; the API, whose requests edit  *)
(* the configuration; and the DNS worker, which tries to load it until the *)
(* schema is there, then writes its statistics and gives a client it       *)
(* discovers a policy.  supervisord starts all of them together.           *)
(*                                                                         *)
(* A transaction begins at its first write, so that what initdb and an     *)
(* update read may be out of date when they write.                         *)
(***************************************************************************)
EXTENDS ApiSchemas, Sequences, FiniteSetsExt, Functions

CONSTANTS
  TableOrder,          \* sorted_tables of the split databases
  LegacyFiles,         \* what an old file may hold, per table
  Creates, Updates,    \* request bodies, per table
  Puts,                \* bodies of PUT /settings
  Modes,               \* bodies of PUT /clients/<ip>/mode
  Replies,             \* what Sando may say about a device
  MaxOps,              \* bound: edits and discoveries in a behaviour
  MaxRestarts,         \* bound: stops (or crashes) of the container
  MaxFailures          \* bound: writes of initdb that meet a locked database

Split == Range(TableOrder)
Tables == Split \cup {"hosts"}

ASSUME StoreAssumption ==
  /\ TableOrder \in Seq(STRING)
  /\ {"app_settings", "blocklists", "blocklist_overrides", "local_zones", "policies",
      "query_log", "trusted_networks", "upstreams"} \subseteq Split
  /\ "hosts" \notin Split
  /\ \A l \in LegacyFiles :
       /\ DOMAIN l = Tables
       /\ \A t \in Tables \ {"app_settings"} :
            DOMAIN l[t] \subseteq Nat \ {0} /\ IsFiniteSet(DOMAIN l[t])
  /\ MaxOps \in Nat /\ MaxRestarts \in Nat /\ MaxFailures \in Nat

VARIABLES
  rows,         \* per table: its rows by primary key
  legacy, file, \* mirenai.db: its rows, and "present" until it is renamed
  unusable,     \* its tables that lack a required column
  created,      \* create_all has been run
  columns,      \* the late columns that localhosts.db's hosts table has
  first_seen,   \* blocklist_domains.first_seen: "absent", "null", "filled"
  ipc, next,    \* initdb: its place, and its position in a loop
  dns,          \* the DNS worker: "starting" or "serving"
  default_action,  \* its copy of the setting (RuntimeState.settings)
  upd,          \* the update request between its SELECT and its UPDATE
  ops, restarts, failures,         \* counters for the bounds
  copied, claimed, emptied, put, cut, nulled, revised
    \* history: the tables copied; those that others wrote to before; those
    \* emptied by deletions while the old file was there; per settings key
    \* the last value put; whether a stop or failure cut the backfill off;
    \* whether default_action was ever put as null; the policies whose action
    \* or answer an update has changed

initVars == <<ipc, next, columns, first_seen, file, created, copied, cut, failures>>
apiVars == <<upd, ops, put, emptied, nulled, revised>>
dnsVars == <<dns, default_action>>
vars == <<rows, legacy, unusable, initVars, apiVars, dnsVars, restarts, claimed>>

NoUpdate == [table |-> "none"]
Merge(f, g) == [k \in DOMAIN f \cup DOMAIN g |-> IF k \in DOMAIN f THEN f[k] ELSE g[k]]
NextId(f) == Max(DOMAIN f \cup {0}) + 1      \* INTEGER PRIMARY KEY
Add(f, row) == Merge(f, [k \in {NextId(f)} |-> row])
Stored(t, f) == rows' = [rows EXCEPT ![t] = f]

HostColumns == <<"icon", "mac_address", "excluded_from_blocklist", "flag_new_domains">>

Schema == [policies |-> Policy, upstreams |-> Upstream, blocklists |-> Blocklist,
           local_zones |-> LocalZone, trusted_networks |-> TrustedNetwork,
           blocklist_overrides |-> BlocklistOverride, hosts |-> Host,
           app_settings |-> AppSetting, query_log |-> QueryLog]

(* IntegrityError: a NULL where none may be, or a duplicate.               *)
Clash(t, id, row) ==
  \/ \E c \in Schema[t].not_null : row[c] = Null
  \/ /\ Schema[t].unique # {}
     /\ \E i \in DOMAIN rows[t] \ {id} :
          \A c \in Schema[t].unique : rows[t][i][c] = row[c]

(* An old installation without the late columns, or a new one; with or     *)
(* without an old file.                                                    *)
Init ==
  /\ \/ /\ file = "present" /\ legacy \in LegacyFiles
        /\ unusable \in SUBSET {t \in {"policies"} : DOMAIN legacy[t] # {}}
     \/ file = "absent" /\ legacy = [t \in Tables |-> <<>>] /\ unusable = {}
  /\ rows = [t \in Tables |-> IF t = "hosts" THEN <<Host.default>> ELSE <<>>]
  /\ created = FALSE
  /\ \/ columns = {} /\ first_seen = "absent"
     \/ columns = Range(HostColumns) /\ first_seen = "filled"
  /\ ipc = "create" /\ next = 1
  /\ dns = "starting" /\ default_action = RuntimeSettings.default_action
  /\ upd = NoUpdate /\ ops = 0 /\ restarts = 0 /\ failures = 0
  /\ copied = {} /\ claimed = {} /\ emptied = {} /\ put = <<>> /\ cut = FALSE
  /\ nulled = FALSE /\ revised = {}

-----------------------------------------------------------------------------
(* init_db, one step per statement that others can see or disturb.         *)
InitFrame == UNCHANGED <<legacy, unusable, apiVars, dnsVars, restarts, claimed>>

CreateAll ==
  /\ ipc = "create"
  /\ created' = TRUE
  /\ ipc' = IF file = "present" THEN "copy" ELSE "columns"
  /\ UNCHANGED <<rows, next, columns, first_seen, file, copied, cut, failures>>
  /\ InitFrame

(* The loop over the tables comes to the next one with rows in the old     *)
(* file, if there is one.                                                  *)
NoOldRows(m, n) == \A k \in m..n : DOMAIN legacy[TableOrder[k]] = {}
IsNext(n) == NoOldRows(next, n - 1) /\ DOMAIN legacy[TableOrder[n]] # {}

(* Mutant: the rows of the target are not counted.                         *)
Mutant_CountTarget ==
  /\ ipc = "copy"
  /\ \/ NoOldRows(next, Len(TableOrder)) /\ ipc' = "rename" /\ next' = 1
     \/ \E n \in next..Len(TableOrder) :
          /\ IsNext(n)
          /\ IF TableOrder[n] \in unusable
             THEN ipc' = "copy" /\ next' = n + 1
             ELSE ipc' = "insert" /\ next' = n
  /\ UNCHANGED <<rows, columns, first_seen, file, created, copied, cut, failures>>
  /\ InitFrame

(* _copy_legacy_table up to the insert: nothing is copied if the target    *)
(* has rows or a required column is missing.                               *)
CountTarget ==
  /\ ipc = "copy"
  /\ \/ NoOldRows(next, Len(TableOrder)) /\ ipc' = "rename" /\ next' = 1
     \/ \E n \in next..Len(TableOrder) :
          /\ IsNext(n)
          /\ IF DOMAIN rows[TableOrder[n]] # {} \/ TableOrder[n] \in unusable
             THEN ipc' = "copy" /\ next' = n + 1
             ELSE ipc' = "insert" /\ next' = n
  /\ UNCHANGED <<rows, columns, first_seen, file, created, copied, cut, failures>>
  /\ InitFrame

(* Mutant: INSERT OR REPLACE.                                              *)
Mutant_InsertRows ==
  LET t == TableOrder[next]
  IN  /\ ipc = "insert"
      /\ Stored(t, Merge(legacy[t], rows[t]))
      /\ copied' = copied \cup {t}
      /\ ipc' = "copy" /\ next' = next + 1
      /\ UNCHANGED <<columns, first_seen, file, created, cut, failures>>
      /\ InitFrame

(* The rows are inserted in one transaction; if a key has been taken since *)
(* the count, the exception ends the process, which is not restarted.      *)
InsertRows ==
  LET t == TableOrder[next]
      taken == \/ DOMAIN rows[t] \cap DOMAIN legacy[t] # {}
               \/ \E i \in DOMAIN legacy[t] : Clash(t, i, legacy[t][i])
  IN  /\ ipc = "insert"
      /\ IF taken
         THEN ipc' = "failed" /\ UNCHANGED <<rows, next, copied>>
         ELSE /\ Stored(t, Merge(legacy[t], rows[t]))
              /\ copied' = copied \cup {t}
              /\ ipc' = "copy" /\ next' = next + 1
      /\ UNCHANGED <<columns, first_seen, file, created, cut, failures>>
      /\ InitFrame

(* os.rename, whose failure is only logged.                                *)
RenameLegacy ==
  /\ ipc = "rename"
  /\ file' \in {"present", "absent"}
  /\ ipc' = "columns"
  /\ UNCHANGED <<rows, next, columns, first_seen, created, copied, cut, failures>>
  /\ InitFrame

(* Mutant: create_all is relied on for the columns of an existing table.   *)
Mutant_EnsureColumn ==
  /\ ipc = "columns"
  /\ ipc' = "alter"
  /\ UNCHANGED <<rows, next, columns, first_seen, file, created, copied, cut, failures>>
  /\ InitFrame

(* _ensure_hosts_..._column, each in its own transaction.                  *)
EnsureColumn ==
  LET missing == SelectSeq(HostColumns, LAMBDA c : c \notin columns) IN
  /\ ipc = "columns"
  /\ IF missing = <<>> THEN ipc' = "alter" /\ UNCHANGED columns
                       ELSE columns' = columns \cup {Head(missing)} /\ UNCHANGED ipc
  /\ UNCHANGED <<rows, next, first_seen, file, created, copied, cut, failures>>
  /\ InitFrame

(* Mutant: the new column is not filled.                                   *)
Mutant_AlterFirstSeen ==
  /\ ipc = "alter"
  /\ first_seen' = IF first_seen = "absent" THEN "null" ELSE first_seen
  /\ ipc' = "seed"
  /\ UNCHANGED <<rows, next, columns, file, created, copied, cut, failures>>
  /\ InitFrame

(* _ensure_blocklist_domain_first_seen_column: ALTER TABLE is committed at *)
(* once, the UPDATE that fills the new column with the transaction.        *)
AlterFirstSeen ==
  /\ ipc = "alter"
  /\ IF first_seen = "absent" THEN first_seen' = "null" /\ ipc' = "backfill"
                              ELSE ipc' = "seed" /\ UNCHANGED first_seen
  /\ UNCHANGED <<rows, next, columns, file, created, copied, cut, failures>>
  /\ InitFrame

Backfill ==
  /\ ipc = "backfill"
  /\ first_seen' = "filled" /\ ipc' = "seed"
  /\ UNCHANGED <<rows, next, columns, file, created, copied, cut, failures>>
  /\ InitFrame

(* ensure_default_blocklist, then ensure_default_upstream.                 *)
Defaults ==
  <<[table |-> "blocklists",
     row |-> Merge([name |-> "HaGeZi", url |-> "https", enabled |-> FALSE], Blocklist.default)],
    [table |-> "upstreams",
     row |-> Merge([name |-> "google", address |-> "ip"], Upstream.default)]>>

LookForRows ==
  /\ ipc = "seed"
  /\ IF next > Len(Defaults) THEN ipc' = "done" /\ UNCHANGED next
     ELSE IF DOMAIN rows[Defaults[next].table] # {} THEN ipc' = "seed" /\ next' = next + 1
     ELSE ipc' = "plant" /\ UNCHANGED next
  /\ UNCHANGED <<rows, columns, first_seen, file, created, copied, cut, failures>>
  /\ InitFrame

PlantDefault ==
  LET d == Defaults[next] IN
  /\ ipc = "plant"
  /\ IF Clash(d.table, 0, d.row)
     THEN ipc' = "failed" /\ UNCHANGED <<rows, next>>
     ELSE /\ Stored(d.table, Add(rows[d.table], d.row))
          /\ ipc' = "seed" /\ next' = next + 1
  /\ UNCHANGED <<columns, first_seen, file, created, copied, cut, failures>>
  /\ InitFrame

InitDb == \/ CreateAll \/ CountTarget \/ InsertRows \/ RenameLegacy \/ EnsureColumn
          \/ AlterFirstSeen \/ Backfill \/ LookForRows \/ PlantDefault

(* A write that finds the database locked raises, and initdb ends.         *)
InitDbFails ==
  /\ ipc \in {"create", "insert", "columns", "alter", "backfill", "plant"}
  /\ failures < MaxFailures /\ failures' = failures + 1
  /\ ipc' = "failed" /\ cut' = (cut \/ ipc = "backfill")
  /\ UNCHANGED <<rows, next, columns, first_seen, file, created, copied>>
  /\ InitFrame

-----------------------------------------------------------------------------
(* API requests; one that is refused changes nothing.                      *)
ApiFrame == UNCHANGED <<legacy, unusable, initVars, dnsVars, restarts>>

(* History: somebody has written to a table before initdb came to it.      *)
Claim(t) == claimed' = IF t \in copied THEN claimed ELSE claimed \cup {t}

Request == created /\ ops < MaxOps /\ ops' = ops + 1

CreateModel == [policies |-> PolicyCreate, upstreams |-> UpstreamCreate,
                blocklists |-> BlocklistCreate, local_zones |-> LocalZoneCreate,
                trusted_networks |-> TrustedNetworkCreate,
                blocklist_overrides |-> BlocklistOverrideCreate]

(* model_dump of a valid body: the fields given and the defaults.          *)
NewRow(t, b) ==
  Merge([f \in DOMAIN b |-> Validated(t, f, b[f])], Schema[t].default)

AcceptsCreate(t, b) ==
  /\ Validates(CreateModel[t], b)
  /\ DOMAIN NewRow(t, b) = DOMAIN CreateModel[t]
  /\ (t = "policies" /\ b["action"] = "override")
       => NewRow(t, b)["override_response"] \notin {Null, "blank"}

Create(t, b) ==
  /\ Request
  /\ AcceptsCreate(t, b)
  /\ ~Clash(t, 0, NewRow(t, b))
  /\ Stored(t, Add(rows[t], NewRow(t, b)))
  /\ Claim(t)
  /\ UNCHANGED <<upd, put, emptied, nulled, revised>> /\ ApiFrame

UpdateModel == [policies |-> PolicyUpdate, upstreams |-> UpstreamUpdate,
                blocklists |-> BlocklistUpdate, local_zones |-> LocalZoneUpdate,
                hosts |-> HostUpdate]

ASSUME RequestAssumption ==
  /\ DOMAIN Creates \subseteq DOMAIN CreateModel \cap Tables
  /\ DOMAIN Updates \subseteq DOMAIN UpdateModel \cap Tables
  /\ \A b \in Modes : DOMAIN b = {"mode"}
  /\ \A r \in Replies : /\ DOMAIN r \subseteq {"device_name", "icon", "mac_address"}
                        /\ \A f \in DOMAIN r : r[f] \in Optional(Text)

(* session.get loads the row ...                                           *)
Load(t, i, b) ==
  /\ upd = NoUpdate
  /\ Request
  /\ t = "hosts" => columns = Range(HostColumns)
  /\ upd' = [table |-> t, id |-> i, loaded |-> rows[t][i], body |-> b]
  /\ UNCHANGED <<rows, claimed, put, emptied, nulled, revised>> /\ ApiFrame

(* ... for a PUT request, or, after Sando has replied, to put down what it *)
(* says about the host.  No record and no reply change nothing.            *)
BeginUpdate(t, i, b) == Validates(UpdateModel[t], b) /\ Load(t, i, b)

SyncHost(i, reply) == Load("hosts", i, fetch_device(reply))

(* ... and the fields of the body are set; the session writes those that   *)
(* differ from what it loaded.  update_host leaves a flag alone if null.   *)
Changed ==
  LET new(f) == Validated(upd.table, f, upd.body[f])
  IN  [f \in {f \in DOMAIN upd.body :
                /\ new(f) # upd.loaded[f]
                /\ upd.table = "hosts" /\ f \in Host.not_null => new(f) # Null}
         |-> new(f)]

FinishUpdate ==
  LET t == upd.table
      i == upd.id
      row == Merge(Changed, rows[t][i])
  IN  /\ upd # NoUpdate
      /\ upd' = NoUpdate
      /\ IF DOMAIN Changed # {} /\ i \in DOMAIN rows[t] /\ ~Clash(t, i, row)
         THEN /\ Stored(t, [rows[t] EXCEPT ![i] = row]) /\ Claim(t)
              /\ revised' = IF /\ t = "policies"
                               /\ DOMAIN Changed \cap {"action", "override_response"} # {}
                            THEN revised \cup {i} ELSE revised
         ELSE UNCHANGED <<rows, claimed, revised>>
      /\ UNCHANGED <<ops, put, emptied, nulled>> /\ ApiFrame

(* set_client_mode sets the action of the client's policy for all domains, *)
(* which an update may meanwhile delete, or adds the policy.  The worker   *)
(* adds it too, and a duplicate is refused.                                *)
Wildcard(c) ==
  {i \in DOMAIN rows["policies"] :
     rows["policies"][i].client = c /\ rows["policies"][i].domain = "*"}

ClientPolicy(c, action) ==
  Merge([client |-> c, domain |-> "*", action |-> action], Policy.default)

AddWildcard(c, action) ==
  /\ Wildcard(c) = {} /\ ~Clash("policies", 0, ClientPolicy(c, action))
  /\ Stored("policies", Add(rows["policies"], ClientPolicy(c, action)))
  /\ Claim("policies")

SetClientMode(c, b) ==
  /\ Validates(ClientModeUpdate, b)
  /\ \/ \E i \in Wildcard(c) : Load("policies", i, [action |-> b.mode])
     \/ /\ Request
        /\ AddWildcard(c, b.mode)
        /\ UNCHANGED <<upd, put, emptied, nulled, revised>> /\ ApiFrame

(* DELETE of a row, and of the query log as a whole.                       *)
Remove(t, ids) ==
  /\ Request
  /\ ids # {}
  /\ Stored(t, [k \in DOMAIN rows[t] \ ids |-> rows[t][k]])
  /\ emptied' = IF ids = DOMAIN rows[t] /\ file = "present"
                THEN emptied \cup {t} ELSE emptied
  /\ revised' = IF t = "policies" THEN revised \ ids ELSE revised
  /\ Claim(t)
  /\ UNCHANGED <<upd, put, nulled>> /\ ApiFrame

Delete(t, i) == Remove(t, {i})
ResetQueryLog == Remove("query_log", DOMAIN rows["query_log"])

(* PUT /settings upserts each key given, in one transaction.  An empty     *)
(* body changes nothing.                                                   *)
UpdateSettings(b) ==
  /\ Request
  /\ DOMAIN b # {}
  /\ Validates(SettingsUpdate, b)
  /\ Stored("app_settings",
            Merge([k \in DOMAIN b |-> [value |-> serialize(k, b[k])]], rows["app_settings"]))
  /\ put' = Merge(b, put)
  /\ nulled' = (nulled \/ \E k \in DOMAIN b \cap {"default_action"} : b[k] = Null)
  /\ Claim("app_settings")
  /\ UNCHANGED <<upd, emptied, revised>> /\ ApiFrame

(* request_cache_flush keeps its time stamp in the same table.             *)
RequestFlush ==
  /\ Request
  /\ Stored("app_settings",
            Merge([cache_flush_requested_at |-> [value |-> Word("time")]],
                  rows["app_settings"]))
  /\ Claim("app_settings")
  /\ UNCHANGED <<upd, put, emptied, nulled, revised>> /\ ApiFrame

Api ==
  \/ \E t \in DOMAIN Creates : \E b \in Creates[t] : Create(t, b)
  \/ \E t \in DOMAIN Updates : \E i \in DOMAIN rows[t], b \in Updates[t] :
       BeginUpdate(t, i, b)
  \/ \E i \in DOMAIN rows["hosts"], reply \in Replies : SyncHost(i, reply)
  \/ FinishUpdate
  \/ \E c \in check_client \ {"*"}, b \in Modes : SetClientMode(c, b)
  \/ \E t \in DOMAIN Creates : \E i \in DOMAIN rows[t] : Delete(t, i)
  \/ ResetQueryLog
  \/ \E b \in Puts : UpdateSettings(b)
  \/ RequestFlush

-----------------------------------------------------------------------------
(* load_runtime_settings                                                   *)
load_runtime_settings ==
  [k \in KNOWN_KEYS |-> IF k \in DOMAIN rows["app_settings"]
                        THEN coerce(k, rows["app_settings"][k].value)
                        ELSE RuntimeSettings[k]]

DnsFrame == UNCHANGED <<legacy, unusable, initVars, apiVars, restarts>>

(* _build_state tries until the loaders find their tables and columns.     *)
BuildState ==
  /\ dns = "starting"
  /\ IF created /\ "excluded_from_blocklist" \in columns
     THEN /\ dns' = "serving"
          /\ default_action' = load_runtime_settings["default_action"]
     ELSE UNCHANGED dnsVars
  /\ UNCHANGED <<rows, claimed>> /\ DnsFrame

(* RuntimeState's refresher reads the settings again.                      *)
Reload ==
  /\ dns = "serving"
  /\ default_action' = load_runtime_settings["default_action"]
  /\ UNCHANGED <<rows, claimed, dns>> /\ DnsFrame

(* ensure_client_policy, for a client of which the worker has no host row: *)
(* the site's default as the worker knows it becomes the client's policy.  *)
(* An edit, too, for the bound.                                            *)
Discover(c) ==
  /\ dns = "serving"
  /\ Request
  /\ AddWildcard(c, default_action)
  /\ UNCHANGED <<upd, put, emptied, nulled, revised>> /\ ApiFrame

(* The query log's first flush inserts a row, later ones count it.         *)
FlushQueryLog ==
  LET row == [question |-> "asked"] IN
  /\ dns = "serving"
  /\ IF Clash("query_log", 0, row) THEN UNCHANGED <<rows, claimed>>
     ELSE Stored("query_log", Add(rows["query_log"], row)) /\ Claim("query_log")
  /\ UNCHANGED dnsVars /\ DnsFrame

(* The container stops at any moment and is started again.                 *)
Restart ==
  /\ restarts < MaxRestarts /\ restarts' = restarts + 1
  /\ ipc' = "create" /\ next' = 1 /\ upd' = NoUpdate
  /\ dns' = "starting" /\ default_action' = RuntimeSettings.default_action
  /\ cut' = (cut \/ ipc = "backfill")
  /\ UNCHANGED <<rows, legacy, unusable, columns, first_seen, file, created, copied,
                 failures, ops, put, emptied, nulled, revised, claimed>>

Dns == BuildState \/ Reload \/ FlushQueryLog
         \/ \E c \in check_client \ {"*"} : Discover(c)

Next == InitDb \/ InitDbFails \/ Api \/ Dns \/ Restart

Spec == Init /\ [][Next]_vars

(* supervisord runs initdb; the worker's retry loop never ends.            *)
FairSpec == Spec /\ WF_vars(InitDb) /\ WF_vars(BuildState)

-----------------------------------------------------------------------------
(* The old rows of a table are dealt with when they have been copied, when *)
(* somebody else came first, or when there is nothing initdb would copy.   *)
Settled ==
  IF file = "absent" THEN Tables
  ELSE copied \cup claimed \cup unusable \cup (Tables \ Split)
         \cup {t \in Split : DOMAIN legacy[t] = {}}

(* What initdb's steps, its failures and restarts change and nobody else.  *)
Mover == <<ipc, next, columns, first_seen, created, copied, cut, failures>>

Migration == INSTANCE LegacyMigration WITH settled <- Settled, mover <- Mover

(* init_db, with its restarts and failures and in the midst of the other   *)
(* processes, implements the move as LegacyMigration describes it: initdb  *)
(* changes the tables only by copying the old rows of one, all of them and *)
(* never over a row that is there, or by adding a default where no old     *)
(* rows are still to come; and mirenai.db is set aside only when no table  *)
(* waits for its rows.                                                     *)
MigrationPromise == Migration!Spec

(* A row that was copied and then deleted through the API does not come    *)
(* back at a restart that finds mirenai.db still there (its rename had     *)
(* failed, or initdb had stopped before) - unless its table had become     *)
(* empty, which _copy_legacy_table takes for one never copied.             *)
DeletedStaysDeleted ==
  [][\A t \in copied \ emptied : InsertRows => rows'[t] = rows[t]]_vars

(* What the workers that read a row need of its columns.                   *)
PolicyNeeds == [client |-> {"*", "ip"}, override_ttl |-> Int, enabled |-> BOOLEAN]
UpstreamNeeds == [address |-> {"ip"}, port |-> 1..65535, protocol |-> {"udp", "tcp"},
                  enabled |-> BOOLEAN, priority |-> Int]
BlocklistNeeds == [url |-> {"http", "https"}, update_interval_hours |-> {n \in Int : n > 0},
                   enabled |-> BOOLEAN]
LocalZoneNeeds == [url |-> {"http", "https"}, update_interval_seconds |-> {n \in Int : n > 0},
                   enabled |-> BOOLEAN]
HostNeeds == [device_name |-> {Null} \cup NonBlank,
              excluded_from_blocklist |-> BOOLEAN, flag_new_domains |-> BOOLEAN]

Needs == [policies |-> PolicyNeeds, upstreams |-> UpstreamNeeds,
          blocklists |-> BlocklistNeeds, local_zones |-> LocalZoneNeeds,
          trusted_networks |-> [cidr |-> {"network"}],
          blocklist_overrides |-> [domain |-> {"domain"}], hosts |-> HostNeeds]

Answers(p) == p.override_response \notin {Null, "blank"}

(* The old database was written through the same API: its columns hold     *)
(* what the workers need, or NULL, it has the same unique constraint, and  *)
(* neither of the two gaps that RowsUsable names had been used there.      *)
ASSUME LegacyAssumption ==
  \A l \in LegacyFiles :
    /\ \A t \in DOMAIN Needs \ {"hosts"} : \A i \in DOMAIN l[t] :
         /\ DOMAIN Needs[t] \subseteq DOMAIN l[t][i]
         /\ \A c \in DOMAIN Needs[t] : l[t][i][c] \in Optional(Needs[t][c])
    /\ \A i \in DOMAIN l["policies"] :
         LET p == l["policies"][i]
         IN  /\ {"action", "override_response"} \subseteq DOMAIN p
             /\ p.action \in Optional(VALID_ACTIONS)
             /\ p.action = "override" => Answers(p)
    /\ \A i, j \in DOMAIN l["policies"] :
         LET p == l["policies"][i]
             q == l["policies"][j]
         IN  (p.client = q.client /\ p.domain = q.domain) => i = j
    /\ "default_action" \in DOMAIN l["app_settings"] =>
         \E a \in {"deny", "forward"} :
           l["app_settings"]["default_action"] = [value |-> Word(a)]

(* Whatever sequence of requests, copies, defaults and discoveries made    *)
(* it, and though a PUT may name any column with null: no stored row lacks *)
(* a value the DNS worker and the downloaders rely on (an upstream with no *)
(* port, a list with no interval, a host named by blanks), no client has   *)
(* two policies for one domain, every policy has one of the four actions   *)
(* and an override has an answer.  Two gaps are named: once default_action *)
(* has been put as null a discovery may store the action "None", and an    *)
(* update, unlike a new policy, may leave an override without its answer.  *)
RowsUsable ==
  /\ \A t \in DOMAIN Needs : \A i \in DOMAIN rows[t] :
       \A c \in DOMAIN Needs[t] : rows[t][i][c] \in Needs[t][c]
  /\ \A i \in DOMAIN rows["policies"] :
       LET p == rows["policies"][i]
       IN  /\ p.action \in VALID_ACTIONS \/ (p.action = "None" /\ nulled)
           /\ p.action = "override" => (Answers(p) \/ i \in revised)
  /\ \A i, j \in DOMAIN rows["policies"] :
       LET p == rows["policies"][i]
           q == rows["policies"][j]
       IN  (p.client = q.client /\ p.domain = q.domain) => i = j

(* load_runtime_settings gives for every key the value last put there, for *)
(* a key put as null at least a value of its documented kind, for a key    *)
(* never put what the old database says, if initdb copied it, else the     *)
(* default: the text in between, the copy, failed copies and flush         *)
(* requests, which share the table, never change a setting the user made.  *)
(* default_action put as null is the exception: it reads as "None", which  *)
(* is neither of its two documented values.                                *)
SettingsEffective ==
  \A k \in KNOWN_KEYS :
    LET v == load_runtime_settings[k]
        old == legacy["app_settings"]
    IN  IF k \in DOMAIN put
        THEN /\ put[k] # Null => v = put[k]
             /\ put[k] = Null /\ k # "default_action" => v \in SettingsUpdate[k] \ {Null}
        ELSE IF "app_settings" \in copied /\ k \in DOMAIN old
        THEN v = coerce(k, old[k].value)
        ELSE v = RuntimeSettings[k]

(* When initdb is done no stored blocklist domain lacks its first_seen,    *)
(* unless a stop or a failure came between ALTER TABLE and the UPDATE: the *)
(* next start finds the column and leaves the rows without a value.        *)
FirstSeenFilled == ipc = "done" => (first_seen = "filled" \/ cut)

(* The worker's retries come to an end: on an installation of any age it   *)
(* serves, unless initdb itself failed.                                    *)
ServesAfterSetUp == <>[](dns = "serving" \/ ipc = "failed")
=============================================================================
