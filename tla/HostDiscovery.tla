--------------------------- MODULE HostDiscovery ---------------------------
(***************************************************************************)
(* How a device that sends queries becomes a host with a policy of its     *)
(* own: HostTracker counts queries in memory; its flush writes the counts  *)
(* to localhosts.db and then seeds a wildcard policy in config.db for each *)
(* address it had not known; its refresh replaces what it knows by what    *)
(* localhosts.db holds.  Meanwhile the API sets client modes, edits        *)
(* policies and deletes hosts, the DNS worker may crash or be stopped, and *)
(* a database write may fail.                                              *)
(*                                                                         *)
(* A flush runs on the timer thread and, at shutdown, also on the main     *)
(* thread (stop).  A policy row here is the row (client, "*").             *)
(***************************************************************************)
EXTENDS Integers, FiniteSets

CONSTANTS
  Ips,         \* client addresses
  Modes,       \* actions of a wildcard row
  MaxQueries,  \* bound: queries in a behaviour
  MaxFailures, \* bound: failed database writes
  MaxCrashes,  \* bound: crashes and shutdowns of the DNS worker
  MaxDeletes,  \* bound: DELETE /hosts requests
  MaxOps       \* bound: policy, mode and settings requests

ASSUME HostBoundsAssumption ==
  {MaxQueries, MaxFailures, MaxCrashes, MaxDeletes, MaxOps} \subseteq Nat

Flushers == {"timer", "main"}
NoIp == "no ip"
Absent == -1
NoPolicy == [action |-> "none", enabled |-> FALSE]
Rows == [action : Modes, enabled : BOOLEAN]

ASSUME HostNamesAssumption == NoIp \notin Ips /\ Modes # {} /\ "none" \notin Modes

VARIABLES
  hosts, policy,               \* per address: query_count or Absent; its row
  default_action,              \* as published in RuntimeState.settings
  up,                          \* the DNS worker runs
  pending, pending_new, known, \* HostTracker's fields
  fpc, counts, fresh, target, action,  \* per flusher: its place and locals
  rpc, loaded,                 \* the refresh thread's place and local
  put, deleting,               \* PUT mode and DELETE host requests under way
  queries, failures, crashes, deletes, ops,  \* counters for the bounds
  lost,      \* history: queries of an address dropped from its count
  asked,     \* history: queries of an address
  excuses,   \* history: why an address may be without its seeded row
  gone,      \* history: asked of an address when its host was last deleted
  chosen     \* history: the action an operator last gave the row, or "none"

dbVars == <<hosts, policy>>
memVars == <<pending, pending_new, known>>
flushVars == <<fpc, counts, fresh, target, action>>
refreshVars == <<rpc, loaded>>
apiVars == <<put, deleting>>
bounds == <<queries, failures, crashes, deletes, ops>>
history == <<lost, asked, excuses, gone, chosen>>
vars == <<dbVars, default_action, up, memVars, flushVars, refreshVars, apiVars,
          bounds, history>>

Zero == [ip \in Ips |-> 0]
IdlePut == [ip |-> NoIp, mode |-> "none", row |-> NoPolicy]

Each(v) == [f \in Flushers |-> v]

(* The places of the flushers when a HostTracker is made.                  *)
NewPlaces == [f \in Flushers |-> IF f = "timer" THEN "idle" ELSE "off"]

(* First start of an installation.                                         *)
Init ==
  /\ hosts = [ip \in Ips |-> Absent] /\ policy = [ip \in Ips |-> NoPolicy]
  /\ default_action \in Modes /\ up = TRUE
  /\ pending = Zero /\ pending_new = {} /\ known = {}
  /\ fpc = NewPlaces /\ counts = Each(Zero) /\ fresh = Each({})
  /\ target = Each(NoIp) /\ action = Each("none") /\ rpc = "idle" /\ loaded = {}
  /\ put = IdlePut /\ deleting = NoIp
  /\ queries = 0 /\ failures = 0 /\ crashes = 0 /\ deletes = 0 /\ ops = 0
  /\ lost = Zero /\ asked = Zero /\ gone = Zero /\ excuses = [ip \in Ips |-> {}]
  /\ chosen = [ip \in Ips |-> "none"]

Excuse(S, why) ==
  [ip \in Ips |-> IF ip \in S THEN excuses[ip] \cup {why} ELSE excuses[ip]]
Plus(f, g) == [ip \in Ips |-> f[ip] + g[ip]]
Counted(ip) == IF hosts[ip] = Absent THEN 0 ELSE hosts[ip]
Listed == {ip \in Ips : hosts[ip] # Absent}
Pending == {ip \in Ips : pending[ip] > 0}

-----------------------------------------------------------------------------
(* ScreeningResolver.resolve calls record() for every trusted query.       *)
Record(ip) ==
  /\ up /\ queries < MaxQueries
  /\ queries' = queries + 1
  /\ pending' = [pending EXCEPT ![ip] = @ + 1]
  /\ known' = known \cup {ip}
  /\ pending_new' = IF ip \in known THEN pending_new ELSE pending_new \cup {ip}
  /\ asked' = [asked EXCEPT ![ip] = @ + 1]
  /\ UNCHANGED <<dbVars, default_action, up, flushVars, refreshVars, apiVars>>
  /\ UNCHANGED <<failures, crashes, deletes, ops>>
  /\ UNCHANGED <<lost, excuses, gone, chosen>>

-----------------------------------------------------------------------------
(* The flush.                                                              *)
Ended(f) == IF f = "timer" THEN "idle" ELSE "exit"
Goto(f, l) == fpc' = [fpc EXCEPT ![f] = l]
FlushFrame == UNCHANGED <<up, default_action, refreshVars, apiVars, queries,
                          crashes, deletes, ops, asked, gone, chosen>>

(* Mutant: the counts are copied out and not reset.                        *)
Mutant_BeginFlush(f) ==
  /\ up /\ fpc[f] \in {"idle", "off"} /\ Pending # {}
  /\ counts' = [counts EXCEPT ![f] = pending]
  /\ fresh' = [fresh EXCEPT ![f] = pending_new]
  /\ pending_new' = {}
  /\ Goto(f, "record")
  /\ UNCHANGED <<dbVars, pending, known, target, action, failures, lost, excuses>>
  /\ FlushFrame

(* Mutant: a single address is not worth a flush.                          *)
Mutant_Batching(f) ==
  /\ up /\ fpc[f] \in {"idle", "off"} /\ Cardinality(Pending) > 1
  /\ f = "main" => crashes < MaxCrashes
  /\ counts' = [counts EXCEPT ![f] = pending]
  /\ fresh' = [fresh EXCEPT ![f] = pending_new]
  /\ pending' = Zero /\ pending_new' = {}
  /\ Goto(f, "record")
  /\ UNCHANGED <<dbVars, known, target, action, failures, lost, excuses>>
  /\ FlushFrame

(* Counts and new addresses are swapped out under the lock; with no counts *)
(* there is nothing to write.                                              *)
BeginFlush(f) ==
  /\ up /\ fpc[f] \in {"idle", "off"}
  /\ f = "main" => crashes < MaxCrashes
  /\ counts' = [counts EXCEPT ![f] = pending]
  /\ fresh' = [fresh EXCEPT ![f] = pending_new]
  /\ pending' = Zero /\ pending_new' = {}
  /\ Goto(f, IF Pending = {} THEN Ended(f) ELSE "record")
  /\ UNCHANGED <<dbVars, known, target, action, failures, lost, excuses>>
  /\ FlushFrame

(* record_hosts upserts all counts in one transaction ...                  *)
RecordHosts(f) ==
  /\ fpc[f] = "record"
  /\ hosts' = [ip \in Ips |-> IF counts[f][ip] = 0 THEN hosts[ip]
                              ELSE Counted(ip) + counts[f][ip]]
  /\ counts' = [counts EXCEPT ![f] = Zero]
  /\ Goto(f, "discover")
  /\ UNCHANGED <<policy, memVars, fresh, target, action, failures, lost, excuses>>
  /\ FlushFrame

(* Mutant: the exception also skips the discovery callback.                *)
Mutant_RecordFails(f) ==
  /\ fpc[f] = "record"
  /\ failures < MaxFailures /\ failures' = failures + 1
  /\ lost' = Plus(lost, counts[f])
  /\ counts' = [counts EXCEPT ![f] = Zero]
  /\ fresh' = [fresh EXCEPT ![f] = {}]
  /\ Goto(f, Ended(f))
  /\ UNCHANGED <<dbVars, memVars, target, action, excuses>>
  /\ FlushFrame

(* ... or fails, which drops them and is logged.                           *)
RecordFails(f) ==
  /\ fpc[f] = "record"
  /\ failures < MaxFailures /\ failures' = failures + 1
  /\ lost' = Plus(lost, counts[f])
  /\ counts' = [counts EXCEPT ![f] = Zero]
  /\ Goto(f, "discover")
  /\ UNCHANGED <<dbVars, memVars, fresh, target, action, excuses>>
  /\ FlushFrame

(* on_discover reads the published default once for all new addresses.     *)
Discover(f) ==
  /\ fpc[f] = "discover"
  /\ IF fresh[f] = {} THEN Goto(f, Ended(f)) /\ UNCHANGED action
     ELSE /\ Goto(f, "seed")
          /\ action' = [action EXCEPT ![f] = default_action]
  /\ UNCHANGED <<dbVars, memVars, counts, fresh, target, failures, lost, excuses>>
  /\ FlushFrame

(* The next address of the loop, or the end of the flush.                  *)
Proceed(f, ip) ==
  /\ fresh' = [fresh EXCEPT ![f] = @ \ {ip}]
  /\ target' = [target EXCEPT ![f] = NoIp]
  /\ Goto(f, IF fresh[f] = {ip} THEN Ended(f) ELSE "seed")

(* ensure_client_policy looks for a row and leaves one it finds alone ...  *)
SeedLook(f, ip) ==
  /\ fpc[f] = "seed" /\ ip \in fresh[f]
  /\ IF policy[ip] # NoPolicy
     THEN Proceed(f, ip) /\ excuses' = [excuses EXCEPT ![ip] = {}]
     ELSE /\ target' = [target EXCEPT ![f] = ip]
          /\ Goto(f, "insert")
          /\ UNCHANGED <<fresh, excuses>>
  /\ UNCHANGED <<dbVars, memVars, counts, action, failures, lost>>
  /\ FlushFrame

(* Mutant: the insert replaces a row that has appeared since.              *)
Mutant_SeedInsert(f) ==
  /\ fpc[f] = "insert"
  /\ policy' = [policy EXCEPT ![target[f]] = [action |-> action[f], enabled |-> TRUE]]
  /\ excuses' = [excuses EXCEPT ![target[f]] = {}]
  /\ Proceed(f, target[f])
  /\ UNCHANGED <<hosts, memVars, counts, action, failures, lost>>
  /\ FlushFrame

(* ... and else inserts one: uq_policies_client_domain refuses it when a   *)
(* row has appeared since, which _on_discover logs.                        *)
SeedInsert(f) ==
  /\ fpc[f] = "insert"
  /\ policy' = [policy EXCEPT ![target[f]] =
       IF @ = NoPolicy THEN [action |-> action[f], enabled |-> TRUE] ELSE @]
  /\ excuses' = [excuses EXCEPT ![target[f]] = {}]
  /\ Proceed(f, target[f])
  /\ UNCHANGED <<hosts, memVars, counts, action, failures, lost>>
  /\ FlushFrame

(* The database refuses: logged, never tried again.                        *)
SeedFails(f) ==
  /\ fpc[f] = "insert"
  /\ failures < MaxFailures /\ failures' = failures + 1
  /\ excuses' = Excuse({target[f]}, "failure")
  /\ Proceed(f, target[f])
  /\ UNCHANGED <<dbVars, memVars, counts, action, lost>>
  /\ FlushFrame

Flush(f) ==
  \/ BeginFlush(f) \/ RecordHosts(f) \/ Discover(f)
  \/ \E ip \in Ips : SeedLook(f, ip)
  \/ SeedInsert(f)

-----------------------------------------------------------------------------
(* The refresh reads the database outside the lock (a failed read changes  *)
(* nothing) and then replaces the known set.                               *)
RefreshFrame == UNCHANGED <<dbVars, default_action, up, pending, pending_new,
                            flushVars, apiVars, bounds, history>>

LoadKnown ==
  /\ up /\ rpc = "idle"
  /\ rpc' = "loaded" /\ loaded' = Listed
  /\ UNCHANGED known /\ RefreshFrame

ApplyKnown ==
  /\ up /\ rpc = "loaded"
  /\ known' = loaded \cup Pending
  /\ rpc' = "idle" /\ loaded' = {}
  /\ RefreshFrame

-----------------------------------------------------------------------------
(* The worker ends, by a crash at any moment or after the flush of stop(); *)
(* what it holds in memory is gone, and supervisord starts it again.       *)
Down ==
  /\ up' = FALSE
  /\ pending' = Zero /\ pending_new' = {} /\ known' = {}
  /\ fpc' = NewPlaces /\ counts' = Each(Zero) /\ fresh' = Each({})
  /\ target' = Each(NoIp) /\ action' = Each("none") /\ rpc' = "idle" /\ loaded' = {}
  /\ lost' = Plus(lost, Plus(pending, Plus(counts["timer"], counts["main"])))
  /\ excuses' = Excuse(pending_new \cup fresh["timer"] \cup fresh["main"], "crash")
  /\ UNCHANGED <<dbVars, default_action, apiVars>>
  /\ UNCHANGED <<queries, failures, deletes, ops, asked, gone, chosen>>

Crash == up /\ crashes < MaxCrashes /\ crashes' = crashes + 1 /\ Down

Exit == up /\ fpc["main"] = "exit" /\ crashes' = crashes + 1 /\ Down

Restart ==
  /\ ~up /\ up' = TRUE
  /\ UNCHANGED <<dbVars, default_action, memVars, flushVars, refreshVars,
                 apiVars, bounds, history>>

-----------------------------------------------------------------------------
(* The API, on several threads.  Operator(ip, row): row is stored for ip.  *)
ApiFrame == UNCHANGED <<up, memVars, flushVars, refreshVars, queries, failures,
                        crashes, asked>>
Request == ops < MaxOps /\ ops' = ops + 1

Operator(ip, row, why) ==
  /\ policy' = [policy EXCEPT ![ip] = row]
  /\ chosen' = [chosen EXCEPT ![ip] = row.action]
  /\ excuses' = [excuses EXCEPT ![ip] = IF row = NoPolicy THEN @ \cup {why} ELSE {}]

SetDefault(m) ==
  /\ Request /\ m # default_action /\ default_action' = m
  /\ UNCHANGED <<dbVars, apiVars, deletes, lost, excuses, gone, chosen>>
  /\ ApiFrame

(* POST /policies; a duplicate is refused with 409.                        *)
CreatePolicy(ip, row) ==
  /\ Request /\ policy[ip] = NoPolicy
  /\ Operator(ip, row, "operator")
  /\ UNCHANGED <<hosts, default_action, apiVars, deletes, lost, gone>>
  /\ ApiFrame

UpdatePolicy(ip, row) ==
  /\ Request /\ policy[ip] \notin {NoPolicy, row}
  /\ Operator(ip, row, "operator")
  /\ UNCHANGED <<hosts, default_action, apiVars, deletes, lost, gone>>
  /\ ApiFrame

DeletePolicy(ip) ==
  /\ Request /\ policy[ip] # NoPolicy
  /\ Operator(ip, NoPolicy, "operator")
  /\ UNCHANGED <<hosts, default_action, apiVars, deletes, lost, gone>>
  /\ ApiFrame

(* PUT /clients/<ip>/mode: set_client_mode looks for the row ...           *)
SetModeLook(ip, m) ==
  /\ Request /\ put.ip = NoIp
  /\ put' = [ip |-> ip, mode |-> m, row |-> policy[ip]]
  /\ UNCHANGED <<dbVars, default_action, deleting, deletes>>
  /\ UNCHANGED <<lost, excuses, gone, chosen>>
  /\ ApiFrame

(* ... and inserts one, changes its action (no UPDATE is issued when it is *)
(* the same), or fails: on a row inserted or deleted since.                *)
SetModeWrite ==
  LET ip == put.ip
      insert == put.row = NoPolicy
      same == ~insert /\ put.row.action = put.mode
      conflict == ~same /\ (insert # (policy[ip] = NoPolicy))
  IN  /\ ip # NoIp
      /\ put' = IdlePut
      /\ IF same \/ conflict
         THEN UNCHANGED <<policy, chosen, excuses>>
         ELSE Operator(ip, [action |-> put.mode,
                            enabled |-> insert \/ policy[ip].enabled], "")
      /\ UNCHANGED <<hosts, default_action, deleting, deletes, ops, lost, gone>>
      /\ ApiFrame

(* DELETE /hosts/<id>: the host row goes in one transaction ...            *)
DeleteHostRow(ip) ==
  /\ deleting = NoIp /\ hosts[ip] # Absent
  /\ deletes < MaxDeletes /\ deletes' = deletes + 1
  /\ deleting' = ip
  /\ hosts' = [hosts EXCEPT ![ip] = Absent]
  /\ lost' = [lost EXCEPT ![ip] = @ + hosts[ip]]
  /\ excuses' = Excuse({ip}, "host deleted")
  /\ UNCHANGED <<policy, default_action, put, ops, gone, chosen>>
  /\ ApiFrame

(* ... and everything keyed by its address in another, which may fail.     *)
DeleteRest ==
  /\ deleting # NoIp /\ deleting' = NoIp
  /\ Operator(deleting, NoPolicy, "host deleted")
  /\ gone' = [gone EXCEPT ![deleting] = asked[deleting]]
  /\ UNCHANGED <<hosts, default_action, put, deletes, ops, lost>>
  /\ ApiFrame

DeleteRestFails ==
  /\ deleting # NoIp /\ deleting' = NoIp
  /\ failures < MaxFailures /\ failures' = failures + 1
  /\ UNCHANGED <<dbVars, default_action, put, deletes, ops, lost>>
  /\ UNCHANGED <<excuses, gone, chosen, asked>>
  /\ UNCHANGED <<up, memVars, flushVars, refreshVars, queries, crashes>>

-----------------------------------------------------------------------------
Api ==
  \/ \E m \in Modes : SetDefault(m)
  \/ \E ip \in Ips, row \in Rows : CreatePolicy(ip, row) \/ UpdatePolicy(ip, row)
  \/ \E ip \in Ips : DeletePolicy(ip) \/ DeleteHostRow(ip)
  \/ \E ip \in Ips, m \in Modes : SetModeLook(ip, m)
  \/ SetModeWrite \/ DeleteRest \/ DeleteRestFails

Worker ==
  \/ \E ip \in Ips : Record(ip)
  \/ \E f \in Flushers : Flush(f) \/ RecordFails(f) \/ SeedFails(f)
  \/ LoadKnown \/ ApplyKnown

Next == Worker \/ Api \/ Crash \/ Exit \/ Restart

Spec == Init /\ [][Next]_vars

(* The timer thread keeps flushing, a shutdown that has begun goes on, and *)
(* supervisord restarts the worker.                                        *)
FairSpec ==
  /\ Spec
  /\ WF_vars(Flush("timer")) /\ WF_vars(fpc["main"] # "off" /\ Flush("main"))
  /\ WF_vars(Restart)
-----------------------------------------------------------------------------
Reasons == {"operator", "host deleted", "crash", "failure"}

TypeOK ==
  /\ hosts \in [Ips -> Nat \cup {Absent}] /\ policy \in [Ips -> Rows \cup {NoPolicy}]
  /\ default_action \in Modes /\ up \in BOOLEAN
  /\ pending \in [Ips -> Nat] /\ pending_new \subseteq Ips /\ known \subseteq Ips
  /\ fpc \in [Flushers -> {"idle", "off", "record", "discover", "seed",
                           "insert", "exit"}]
  /\ counts \in [Flushers -> [Ips -> Nat]] /\ fresh \in [Flushers -> SUBSET Ips]
  /\ target \in [Flushers -> Ips \cup {NoIp}]
  /\ action \in [Flushers -> Modes \cup {"none"}]
  /\ \A f \in Flushers : /\ fpc[f] = "insert" => target[f] \in fresh[f]
                         /\ fpc[f] \in {"seed", "insert"} => action[f] \in Modes
  /\ rpc \in {"idle", "loaded"} /\ loaded \subseteq Ips
  /\ put = IdlePut \/ put \in [ip : Ips, mode : Modes, row : Rows \cup {NoPolicy}]
  /\ deleting \in Ips \cup {NoIp}
  /\ queries \in Nat /\ failures \in Nat /\ crashes \in Nat /\ deletes \in Nat
  /\ ops \in Nat
  /\ lost \in [Ips -> Nat] /\ asked \in [Ips -> Nat] /\ gone \in [Ips -> Nat]
  /\ excuses \in [Ips -> SUBSET Reasons] /\ chosen \in [Ips -> Modes \cup {"none"}]

(* Whatever flushes, failures, crashes and deletions interleave, the       *)
(* query_count of a host, what is still in memory and what was dropped     *)
(* (failed flush, crash, deleted host) add up to the queries it sent: no   *)
(* query is counted twice and none is lost in any other way.               *)
CountsConserved ==
  \A ip \in Ips :
    asked[ip] = Counted(ip) + pending[ip] + counts["timer"][ip]
                + counts["main"][ip] + lost[ip]

Owed(ip) == ip \in pending_new \cup fresh["timer"] \cup fresh["main"]
Seeded(ip) == policy[ip] # NoPolicy

(* README, "New clients": every host has its wildcard row or its seeding   *)
(* is under way, unless an operator deleted the row or the host, the       *)
(* seeding failed, or the worker ended in between: a refresh that races a  *)
(* flush, a late or repeated discovery, a restart never skip a seeding.    *)
SeedAccounted == \A ip \in Listed : Seeded(ip) \/ Owed(ip) \/ excuses[ip] # {}

(* ensure_client_policy, "does nothing when a wildcard row exists": the    *)
(* action an operator gave a client's row stays until an operator changes  *)
(* it, whenever seeding looked or inserted.                                *)
OperatorChoiceStands ==
  \A ip \in Ips : chosen[ip] # "none" => policy[ip].action = chosen[ip]

(* A device that asked is eventually listed with its queries counted and   *)
(* its row seeded, failed flushes, crashes and operators apart.            *)
EventuallyDiscovered ==
  \A ip \in Ips : asked[ip] > 0 ~> \/ ip \in Listed /\ Seeded(ip)
                                   \/ lost[ip] > 0 \/ excuses[ip] # {}

(* docs/frontend-integration.md, DELETE /hosts: "The DNS server will       *)
(* re-create the host - and re-seed its default policy - on the device's   *)
(* next query": listed again, having asked since, it has its row or is     *)
(* about to get it.                                                        *)
DeletedHostReseeded ==
  \A ip \in Listed :
    asked[ip] > gone[ip] /\ excuses[ip] \subseteq {"host deleted"}
      => Seeded(ip) \/ Owed(ip)
=============================================================================
