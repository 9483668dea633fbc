--------------------------- MODULE LiveScreening ---------------------------
(***************************************************************************)
(* The DNS worker answering queries while the operator edits the           *)
(* configuration and the config-refresh thread reloads it.                 *)
(*                                                                         *)
(* The configuration has seven components, each loaded in a transaction of *)
(* its own and then published together (RuntimeState.reload).  A query     *)
(* reads each component when it needs it, under a lock it releases between *)
(* reads (RuntimeState properties, DnsResolver.handle), so a reload or an  *)
(* edit can fall between any two of its reads.                             *)
(***************************************************************************)
EXTENDS Screening, FiniteSets

CONSTANTS
  Threads,      \* server threads, one query after the other
  Queries,      \* [client, raw, kind]: source, name as received, type
  PolicyTable,  \* the policy rows, in rowid order; an edit enables or disables
  Values,       \* for each component, the values it may have in the database
  MaxEdits,     \* bound: operator edits in a behaviour
  MaxFailures   \* bound: failed reload passes in a behaviour

(* The loaders in the order reload() calls them.                           *)
LoadOrder == <<"settings", "policies", "upstreams", "blocklist",
               "excluded", "trusted", "local">>
Components == {LoadOrder[i] : i \in 1..7}
Configs == [settings  : Values["settings"],  policies  : Values["policies"],
            upstreams : Values["upstreams"], blocklist : Values["blocklist"],
            excluded  : Values["excluded"],  trusted   : Values["trusted"],
            local     : Values["local"]]

ASSUME BoundsAssumption == MaxEdits \in Nat /\ MaxFailures \in Nat

(* What SettingsUpdate lets through and the settings table then holds: the *)
(* two default actions, and "None" for a null.                             *)
ASSUME SettingsAssumption ==
  \A s \in Values["settings"] : s.default_action \in {"forward", "deny", "None"}

VARIABLES
  db,        \* the stored configuration
  snap,      \* the published snapshot (RuntimeState fields)
  fresh,     \* what the running reload pass has loaded (its new_* locals)
  pos,       \* loaders already run by the pass; 0 while waiting on the timer
  pc, query, \* per thread: where it is, what it answers
  used,      \* per thread: each component as the thread last read it (a
             \* component it has not read yet: as it was at arrival)
  result,    \* per thread: the result string handed to the buffers
  cached,    \* questions with an answer in the TTL cache
  edits, failures,  \* counters for the bounds
  since,     \* history: values held by db since the last finished pass began
  loading,   \* history: values held by db since the running pass began
  window     \* history: per thread, since at arrival and the edits until its
             \* answer

reloadVars == <<snap, fresh, pos, failures>>
queryVars == <<pc, query, used, result, cached>>
history == <<since, loading, window>>
vars == <<db, edits, reloadVars, queryVars, history>>

NoQuery == [client |-> "", raw |-> [labels |-> <<>>, spelling |-> ""], kind |-> ""]
Singletons(f) == [c \in Components |-> {f[c]}]

InitFrom(snapshot) ==
  /\ snap = snapshot
  /\ fresh = db /\ pos = 0
  /\ edits = 0 /\ failures = 0
  /\ pc = [t \in Threads |-> "idle"]
  /\ query = [t \in Threads |-> NoQuery]
  /\ used = [t \in Threads |-> snap]
  /\ result = [t \in Threads |-> "none"]
  /\ cached = {}
  /\ since = Singletons(db) /\ loading = Singletons(db)
  /\ window = [t \in Threads |-> Singletons(db)]

(* __init__ runs reload() once, retried by _build_state until it succeeds, *)
(* before the servers start.                                               *)
Init == db \in Configs /\ InitFrom(db)

-----------------------------------------------------------------------------
(* The operator, through the API (or a downloader) commits a change to one *)
(* component.                                                              *)
Extend(h, c, v) == [h EXCEPT ![c] = @ \cup {v}]

Edit(c, v) ==
  /\ edits < MaxEdits
  /\ v \in Values[c] \ {db[c]}
  /\ db' = [db EXCEPT ![c] = v]
  /\ edits' = edits + 1
  /\ since' = Extend(since, c, v)
  /\ loading' = Extend(loading, c, v)
  /\ window' = [t \in Threads |-> IF pc[t] \in {"idle", "done"} THEN window[t]
                                  ELSE Extend(window[t], c, v)]
  /\ UNCHANGED <<reloadVars, queryVars>>

-----------------------------------------------------------------------------
(* The config-refresh thread.                                              *)
BeginReload ==
  /\ pos = 0
  /\ pos' = 1
  /\ fresh' = [fresh EXCEPT ![LoadOrder[1]] = db[LoadOrder[1]]]
  /\ loading' = Singletons(db)
  /\ UNCHANGED <<db, edits, snap, failures, queryVars, since, window>>

(* Mutant: each component is published as soon as it is loaded.            *)
Mutant_LoadNext ==
  /\ pos \in 1..6
  /\ pos' = pos + 1
  /\ fresh' = [fresh EXCEPT ![LoadOrder[pos + 1]] = db[LoadOrder[pos + 1]]]
  /\ snap' = [snap EXCEPT ![LoadOrder[pos + 1]] = db[LoadOrder[pos + 1]]]
  /\ UNCHANGED <<db, edits, failures, queryVars, history>>

LoadNext ==
  /\ pos \in 1..6
  /\ pos' = pos + 1
  /\ fresh' = [fresh EXCEPT ![LoadOrder[pos + 1]] = db[LoadOrder[pos + 1]]]
  /\ UNCHANGED <<db, edits, snap, failures, queryVars, history>>

(* Mutant: the exception escapes _refresh_loop and ends the thread.        *)
Mutant_LoadFails ==
  /\ pos \in 1..6
  /\ failures < MaxFailures
  /\ failures' = failures + 1
  /\ pos' = -1
  /\ UNCHANGED <<db, edits, snap, fresh, queryVars, history>>

(* A loader raises: reload() is left, _refresh_loop logs and waits again.  *)
LoadFails ==
  /\ pos \in 1..6
  /\ failures < MaxFailures
  /\ failures' = failures + 1
  /\ pos' = 0
  /\ fresh' = snap
  /\ UNCHANGED <<db, edits, snap, queryVars, history>>

(* Mutant: the assignment of one field is missing.                         *)
Mutant_Publish ==
  /\ pos = 7
  /\ snap' = [fresh EXCEPT !["policies"] = snap["policies"]]
  /\ pos' = 0
  /\ since' = loading
  /\ UNCHANGED <<db, edits, fresh, failures, queryVars, loading, window>>

(* All fields are assigned under the lock.                                 *)
Publish ==
  /\ pos = 7
  /\ snap' = fresh
  /\ pos' = 0
  /\ since' = loading
  /\ UNCHANGED <<db, edits, fresh, failures, queryVars, loading, window>>

-----------------------------------------------------------------------------
(* One query.  Read(t, c) is a read of a RuntimeState property.            *)
Read(t, c) == used' = [used EXCEPT ![t][c] = snap[c]]
Goto(t, l) == pc' = [pc EXCEPT ![t] = l] /\ UNCHANGED result
Reply(t, r) == pc' = [pc EXCEPT ![t] = "done"] /\ result' = [result EXCEPT ![t] = r]
Frame == UNCHANGED <<db, edits, reloadVars, since, loading>>

Name(q) == normalize_domain(q.raw)

(* _cache_key: the canonical name, not the spelling received.              *)
CacheKey(q) == <<Name(q), q.kind>>

(* ScreeningDNSHandler.handle: an untrusted source is counted and dropped  *)
(* before anything is parsed.                                              *)
Arrive(t, q) ==
  /\ pc[t] \in {"idle", "done"}
  /\ query' = [query EXCEPT ![t] = q]
  /\ used' = [used EXCEPT ![t] = snap]
  /\ window' = [window EXCEPT ![t] = since]
  /\ IF is_trusted(snap["trusted"], q.client)
     THEN /\ pc' = [pc EXCEPT ![t] = "settings"]
          /\ result' = [result EXCEPT ![t] = "none"]
     ELSE Reply(t, "foreign")
  /\ UNCHANGED cached /\ Frame

(* Mutant: the cache is consulted before the screens.                      *)
Mutant_ReadSettings(t) ==
  /\ pc[t] = "settings"
  /\ Read(t, "settings")
  /\ Goto(t, IF CacheKey(query[t]) \in cached THEN "cache"
             ELSE IF snap["settings"].drop_private_ptr /\ query[t].kind = "PRIVATE_PTR"
             THEN "ptr" ELSE "policies")
  /\ UNCHANGED <<query, cached, window>> /\ Frame

ReadSettings(t) ==
  /\ pc[t] = "settings"
  /\ Read(t, "settings")
  /\ Goto(t, IF snap["settings"].drop_private_ptr /\ query[t].kind = "PRIVATE_PTR"
             THEN "ptr" ELSE "policies")
  /\ UNCHANGED <<query, cached, window>> /\ Frame

(* An unmatched reverse lookup of a private address: NODATA, unrecorded.   *)
(* local_records is read here and, by a query that goes on, again later.   *)
CheckPrivatePtr(t) ==
  /\ pc[t] = "ptr"
  /\ Read(t, "local")
  /\ IF Name(query[t]) \in snap["local"] THEN Goto(t, "policies")
                                         ELSE Reply(t, "ptr-nodata")
  /\ UNCHANGED <<query, cached, window>> /\ Frame

(* rule.action if a rule matched, else the default of the settings.        *)
ActionFor(policies, settings, q) ==
  LET r == select_policy(PolicyTable, policies, q.client, Name(q))
  IN  IF r = NoRule THEN settings.default_action ELSE PolicyTable[r].action

NoIPv6(settings, q) == q.kind = "AAAA" /\ ~settings.ipv6_enabled

(* Mutant: default_action is taken from settings read anew.                *)
Mutant_ReadPolicies(t) ==
  LET action == ActionFor(snap["policies"], snap["settings"], query[t])
  IN  /\ pc[t] = "policies"
      /\ Read(t, "policies")
      /\ IF NoIPv6(used[t]["settings"], query[t]) THEN Reply(t, "nodata")
         ELSE IF action \in {"override", "deny"} THEN Reply(t, action)
         ELSE Goto(t, "excluded")
      /\ UNCHANGED <<query, cached, window>> /\ Frame

ReadPolicies(t) ==
  LET action == ActionFor(snap["policies"], used[t]["settings"], query[t])
  IN  /\ pc[t] = "policies"
      /\ Read(t, "policies")
      /\ IF NoIPv6(used[t]["settings"], query[t]) THEN Reply(t, "nodata")
         ELSE IF action \in {"override", "deny"} THEN Reply(t, action)
         ELSE Goto(t, "excluded")
      /\ UNCHANGED <<query, cached, window>> /\ Frame

ReadExcluded(t) ==
  /\ pc[t] = "excluded"
  /\ Read(t, "excluded")
  /\ Goto(t, IF query[t].client \in snap["excluded"] THEN "local" ELSE "blocklist")
  /\ UNCHANGED <<query, cached, window>> /\ Frame

ReadBlocklist(t) ==
  /\ pc[t] = "blocklist"
  /\ Read(t, "blocklist")
  /\ IF is_blocked(snap["blocklist"], Name(query[t]))
     THEN Reply(t, "blocklist") ELSE Goto(t, "local")
  /\ UNCHANGED <<query, cached, window>> /\ Frame

(* _local: a name with any local record is never forwarded.                *)
ReadLocal(t) ==
  /\ pc[t] = "local"
  /\ Read(t, "local")
  /\ IF Name(query[t]) \in snap["local"] THEN Reply(t, "local") ELSE Goto(t, "cache")
  /\ UNCHANGED <<query, cached, window>> /\ Frame

(* _forward_or_cache: a live entry answers; a missing, expired or evicted  *)
(* one (module AnswerCache) leads on to the upstreams.                     *)
CacheHit(t) ==
  /\ pc[t] = "cache"
  /\ used[t]["settings"].cache_enabled
  /\ CacheKey(query[t]) \in cached
  /\ Reply(t, "forward-cache")
  /\ UNCHANGED <<query, used, cached, window>> /\ Frame

CacheMiss(t) ==
  /\ pc[t] = "cache"
  /\ Goto(t, "upstreams")
  /\ cached' = IF used[t]["settings"].cache_enabled
               THEN cached \ {CacheKey(query[t])} ELSE cached
  /\ UNCHANGED <<query, used, window>> /\ Frame

(* _forward with an answer, stored when caching is on and it is cacheable. *)
Forward(t) ==
  /\ pc[t] = "upstreams"
  /\ Read(t, "upstreams")
  /\ snap["upstreams"] # {}
  /\ Reply(t, "forward")
  /\ \/ UNCHANGED cached
     \/ /\ used[t]["settings"].cache_enabled
        /\ cached' = cached \cup {CacheKey(query[t])}
  /\ UNCHANGED <<query, window>> /\ Frame

(* No upstream configured, or all of them failed.                          *)
ForwardFails(t) ==
  /\ pc[t] = "upstreams"
  /\ Read(t, "upstreams")
  /\ Reply(t, "servfail")
  /\ UNCHANGED <<query, cached, window>> /\ Frame

Serve(t) ==
  \/ \E q \in Queries : Arrive(t, q)
  \/ ReadSettings(t) \/ CheckPrivatePtr(t) \/ ReadPolicies(t)
  \/ ReadExcluded(t) \/ ReadBlocklist(t) \/ ReadLocal(t)
  \/ CacheHit(t) \/ CacheMiss(t) \/ Forward(t) \/ ForwardFails(t)

Reload == BeginReload \/ LoadNext \/ Publish

Next ==
  \/ \E c \in Components : \E v \in Values[c] : Edit(c, v)
  \/ Reload \/ LoadFails
  \/ \E t \in Threads : Serve(t)

Spec == Init /\ [][Next]_vars

(* The timer thread keeps running its passes; nothing else is assumed.     *)
FairSpec == Spec /\ WF_vars(Reload)
-----------------------------------------------------------------------------
Labels == {"idle", "settings", "ptr", "policies", "excluded", "blocklist",
           "local", "cache", "upstreams", "done"}
Results == {"none", "foreign", "ptr-nodata", "nodata", "override", "deny",
            "blocklist", "local", "forward", "forward-cache", "servfail"}

Histories == [settings  : SUBSET Values["settings"],
              policies  : SUBSET Values["policies"],
              upstreams : SUBSET Values["upstreams"],
              blocklist : SUBSET Values["blocklist"],
              excluded  : SUBSET Values["excluded"],
              trusted   : SUBSET Values["trusted"],
              local     : SUBSET Values["local"]]

TypeOK ==
  /\ db \in Configs /\ snap \in Configs /\ fresh \in Configs
  /\ pos \in 0..7
  /\ edits \in 0..MaxEdits /\ failures \in 0..MaxFailures
  /\ pc \in [Threads -> Labels]
  /\ query \in [Threads -> Queries \cup {NoQuery}]
  /\ used \in [Threads -> Configs]
  /\ result \in [Threads -> Results]
  /\ cached \subseteq {CacheKey(q) : q \in Queries}
  /\ since \in Histories /\ loading \in Histories
  /\ window \in [Threads -> Histories]

(***************************************************************************)
(* The screens under one fixed configuration f, as README has them: how    *)
(* screening works (52-85), the order of policy, blocklist, local zone and *)
(* upstream (244), IPv6 and reverse lookups among the settings.  Blocklists*)
(* are global (README:82, docs/frontend-integration.md:500); docs:242-244  *)
(* has them only for clients whose policy says blocklist, which neither    *)
(* the code nor Verdict does.  Screened has the results a query may get    *)
(* once it is past the reverse-lookup screen, Verdict from the start.      *)
(***************************************************************************)
PtrDropped(f, q) ==
  /\ q.kind = "PRIVATE_PTR" /\ f["settings"].drop_private_ptr
  /\ Name(q) \notin f["local"]

BlocklistApplies(f, q) ==
  q.client \notin f["excluded"] /\ is_blocked(f["blocklist"], Name(q))

Outcomes(f) == (IF f["settings"].cache_enabled THEN {"forward-cache"} ELSE {})
               \cup (IF f["upstreams"] # {} THEN {"forward"} ELSE {})
               \cup {"servfail"}

Screened(f, q) ==
  LET action == ActionFor(f["policies"], f["settings"], q)
  IN  IF NoIPv6(f["settings"], q) THEN {"nodata"}
      ELSE IF action \in {"override", "deny"} THEN {action}
      ELSE IF BlocklistApplies(f, q) THEN {"blocklist"}
      ELSE IF Name(q) \in f["local"] THEN {"local"}
      ELSE Outcomes(f)

Verdict(f, q) ==
  IF ~is_trusted(f["trusted"], q.client) THEN {"foreign"}
  ELSE IF PtrDropped(f, q) THEN {"ptr-nodata"}
  ELSE Screened(f, q)

(* state.py: operator changes take effect without a restart, within one    *)
(* refresh: no query is answered from a value that the database had        *)
(* already replaced when the last complete reload pass before the query's  *)
(* arrival began, whatever the edits, failed passes and reloads since.     *)
ReadsAreRecent ==
  \A t \in Threads : pc[t] # "idle" =>
    \A c \in Components : used[t][c] \in window[t][c]

(* However reloads fall between its reads, a query's result is one that    *)
(* README's order of the screens, with blocklists for every client that is *)
(* not excluded, gives for the mix of component values it read.  The one   *)
(* exception: local_records is read twice, so a private reverse lookup     *)
(* whose local record vanishes in between is screened as an ordinary query.*)
VerdictOfReads ==
  \A t \in Threads : pc[t] = "done" =>
    \/ result[t] \in Verdict(used[t], query[t])
    \/ /\ \E records \in window[t]["local"] : Name(query[t]) \in records
       /\ is_trusted(used[t]["trusted"], query[t].client)
       /\ result[t] \in Screened(used[t], query[t])

(* No answer gets past a screen that every configuration of the query's    *)
(* window enforces: what is forwarded, served from the cache or failed     *)
(* upstream had, among the values current in its window, a policy and      *)
(* settings that let the name pass, an exclusion or a blocklist that did,  *)
(* a local zone set without the name, and a trusted source.  The blocklist *)
(* is a screen for every client, as README:82 has it, and not as           *)
(* docs/frontend-integration.md:242-244 has it.                            *)
EnforcedScreening ==
  \A t \in Threads : result[t] \in {"forward", "forward-cache", "servfail"} =>
    LET w == window[t]  q == query[t]
    IN  /\ \E nets \in w["trusted"] : is_trusted(nets, q.client)
        /\ \E p \in w["policies"], s \in w["settings"] :
             ActionFor(p, s, q) \notin {"deny", "override"} /\ ~NoIPv6(s, q)
        /\ \/ \E x \in w["excluded"] : q.client \in x
           \/ \E b \in w["blocklist"] : ~is_blocked(b, Name(q))
        /\ \E records \in w["local"] : Name(q) \notin records

(* Seven loads, one publication: when the snapshot changes it becomes a    *)
(* configuration every part of which was stored at some moment of the pass *)
(* that loaded it; a pass that failed half way leaves no trace.            *)
PublishedFromOnePass ==
  [][snap' # snap => \A c \in Components : snap'[c] \in loading[c]]_vars

(* Once the operator stops editing (and passes stop failing) the DNS       *)
(* server ends up screening with the stored configuration.                 *)
Converges == <>[](snap = db)
=============================================================================
