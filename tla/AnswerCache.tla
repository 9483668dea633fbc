---------------------------- MODULE AnswerCache ----------------------------
(***************************************************************************)
(* The DNS server's answer cache: the TTL cache with LRU eviction, the     *)
(* query threads that read and fill it, the thread that clears it when the *)
(* API has recorded a flush request, and the thread that mirrors it to the *)
(* database.                                                               *)
(*                                                                         *)
(* Time is counted in ticks, TicksPerSec to the second, because lifetimes  *)
(* are whole seconds measured on a finer clock.  Every operation reads the *)
(* clock before it takes the cache's lock, so time may pass in between.    *)
(***************************************************************************)
EXTENDS Integers, Sequences, SequencesExt, FiniteSets

CONSTANTS
  Threads, Keys,   \* query threads; cache keys (name|qtype|qclass)
  Answers,         \* upstream answers, see AnswerKinds
  MaxEntries,      \* setting cache_max_entries when the server started
  TtlSettings,     \* pairs cache_min_ttl, cache_max_ttl that may be in force
  TicksPerSec,     \* clock resolution
  MaxTime,         \* bound: ticks in a behaviour
  MaxReloads,      \* bound: reloads that publish other limits
  MaxRequests,     \* bound: flush requests in a behaviour
  MaxPollFailures, \* bound: polls of the flusher that fail
  MaxSnapshots,    \* bound: mirror passes in a behaviour
  DistinctSeconds  \* TRUE: no two flush requests in the same second

(* An answer is [kind, ttl]: ttl is the least TTL of the answer section of *)
(* a positive answer, the RFC 2308 lifetime of a negative one, or NoSoa.   *)
(* Nothing relates the two limits: SettingsUpdate takes any two integers.  *)
NoSoa == -1
AnswerKinds == {"positive", "nxdomain", "nodata", "error", "failure"}

ASSUME CacheAssumption ==
  /\ MaxEntries \in Int /\ TicksPerSec \in Nat \ {0}
  /\ TtlSettings \subseteq [cache_min_ttl : Int, cache_max_ttl : Int]
  /\ MaxTime \in Nat /\ MaxReloads \in Nat /\ MaxRequests \in Nat
  /\ MaxPollFailures \in Nat /\ MaxSnapshots \in Nat /\ DistinctSeconds \in BOOLEAN
  /\ \A a \in Answers : /\ a.kind \in AnswerKinds
                        /\ a.ttl \in Nat \cup {NoSoa}
                        /\ a.kind = "positive" => a.ttl # NoSoa

VARIABLES
  clock,           \* monotonic and wall clock
  published,       \* the two TTL limits of state.settings, replaced by reloads
  reloads,         \* counter for the bound
  data,            \* the OrderedDict: entries, least recently used first
  pc, key, now,    \* per thread: its place, its question, the clock it read
  settings,        \* per thread: the limits handle() read for its query
  held,            \* per thread: the entry get() returned or set() will store
  requested,       \* the stored flush request: its second, or NoRequest
  last_seen, fpc, polled,   \* the flusher: its locals and its place
  mirror, mpc, mnow, rows,  \* the stored mirror; the mirror thread's locals
  requests, failures, snapshots,  \* counters for the bounds
  swallowed,       \* history: requests the flusher's first read took for old
  seen, honoured   \* history: requests at the flusher's last poll, and those
                   \* that the last finished poll has dealt with

threadVars == <<pc, key, now, settings, held>>
flushVars == <<requested, last_seen, fpc, polled, requests, failures, swallowed, seen, honoured>>
mirrorVars == <<mirror, mpc, mnow, rows, snapshots>>
vars == <<clock, published, reloads, data, threadVars, flushVars, mirrorVars>>

NoRequest == -2
Earlier == -1    \* some second before the server started
NoKey == "none"

NoSettings == [cache_min_ttl |-> 0, cache_max_ttl |-> 0]

(* History fields of an entry: limits, those its query was given; epoch,   *)
(* the flush requests made when it was stored; used_at, when it was last   *)
(* stored or hit.                                                          *)
NoEntry == [key |-> NoKey, inserted_at |-> 0, expires_at |-> 0, ttl |-> 0,
            limits |-> NoSettings, epoch |-> 0, used_at |-> 0]

capacity == IF MaxEntries > 1 THEN MaxEntries ELSE 1
CachedKeys == {data[i].key : i \in DOMAIN data}
Position(k) == CHOOSE i \in DOMAIN data : data[i].key = k
EntryOf(k) == data[Position(k)]
Without(k) == IF k \in CachedKeys THEN RemoveAt(data, Position(k)) ELSE data

(* A server that has just started; the request may date from before.       *)
Init ==
  /\ clock = 0 /\ published \in TtlSettings /\ reloads = 0 /\ data = <<>>
  /\ pc = [t \in Threads |-> "idle"] /\ key = [t \in Threads |-> NoKey]
  /\ now = [t \in Threads |-> 0] /\ settings = [t \in Threads |-> NoSettings]
  /\ held = [t \in Threads |-> NoEntry]
  /\ requested \in {NoRequest, Earlier} /\ last_seen = NoRequest /\ polled = NoRequest
  /\ fpc = "boot" /\ requests = 0 /\ failures = 0
  /\ swallowed = 0 /\ seen = 0 /\ honoured = 0
  /\ mirror = {} /\ mpc = "idle" /\ mnow = 0 /\ rows = {} /\ snapshots = 0

Tick ==
  /\ clock < MaxTime
  /\ clock' = clock + 1
  /\ UNCHANGED <<published, reloads, data, threadVars, flushVars, mirrorVars>>

(* An edit of the settings and the reload that publishes it.               *)
Reload ==
  /\ reloads < MaxReloads /\ reloads' = reloads + 1
  /\ published' \in TtlSettings \ {published}
  /\ UNCHANGED <<clock, data, threadVars, flushVars, mirrorVars>>

-----------------------------------------------------------------------------
(* Query threads.                                                          *)
ThreadFrame == UNCHANGED <<clock, published, reloads, flushVars, mirrorVars>>

(* The thread's locals are gone when its query is answered.                *)
Answered(t) ==
  /\ pc' = [pc EXCEPT ![t] = "idle"]
  /\ key' = [key EXCEPT ![t] = NoKey]
  /\ now' = [now EXCEPT ![t] = 0]
  /\ settings' = [settings EXCEPT ![t] = NoSettings]
  /\ held' = [held EXCEPT ![t] = NoEntry]

(* handle() takes the published settings once and passes them on; then     *)
(* _forward_or_cache with caching on: get() reads the clock ...            *)
BeginGet(t, k) ==
  /\ pc[t] = "idle"
  /\ pc' = [pc EXCEPT ![t] = "get"]
  /\ key' = [key EXCEPT ![t] = k]
  /\ now' = [now EXCEPT ![t] = clock]
  /\ settings' = [settings EXCEPT ![t] = published]
  /\ UNCHANGED <<held, data>> /\ ThreadFrame

(* Mutant: an entry that expires at this very tick is still served.        *)
Mutant_Expired(e, t) == e.expires_at < now[t]

Expired(e, t) == e.expires_at <= now[t]

(* ... and looks the key up under the lock: missing, expired, or live.     *)
GetMiss(t) ==
  /\ pc[t] = "get"
  /\ key[t] \in CachedKeys => Expired(EntryOf(key[t]), t)
  /\ data' = Without(key[t])
  /\ pc' = [pc EXCEPT ![t] = "forward"]
  /\ now' = [now EXCEPT ![t] = 0]
  /\ UNCHANGED <<key, settings, held>> /\ ThreadFrame

(* Mutant: move_to_end is forgotten.                                       *)
Mutant_GetHit(t) ==
  /\ pc[t] = "get"
  /\ key[t] \in CachedKeys /\ ~Expired(EntryOf(key[t]), t)
  /\ data' = [i \in DOMAIN data |-> IF data[i].key = key[t]
                THEN [data[i] EXCEPT !.used_at = clock] ELSE data[i]]
  /\ held' = [held EXCEPT ![t] = EntryOf(key[t])]
  /\ pc' = [pc EXCEPT ![t] = "hit"]
  /\ UNCHANGED <<key, now, settings>> /\ ThreadFrame

GetHit(t) ==
  /\ pc[t] = "get"
  /\ key[t] \in CachedKeys /\ ~Expired(EntryOf(key[t]), t)
  /\ data' = Append(Without(key[t]), [EntryOf(key[t]) EXCEPT !.used_at = clock])
  /\ held' = [held EXCEPT ![t] = EntryOf(key[t])]
  /\ pc' = [pc EXCEPT ![t] = "hit"]
  /\ UNCHANGED <<key, now, settings>> /\ ThreadFrame

Remaining(e, at) ==
  IF e.expires_at <= at THEN 0 ELSE (e.expires_at - at) \div TicksPerSec

(* The reply carries the whole seconds left on a second reading.           *)
ReplyTtl(t) == Remaining(held[t], clock)

ServeHit(t) ==
  /\ pc[t] = "hit"
  /\ Answered(t)
  /\ UNCHANGED data /\ ThreadFrame

Least(a, b) == IF a < b THEN a ELSE b
Greatest(a, b) == IF a > b THEN a ELSE b

(* Mutant: the clamp takes the limits published now.                       *)
Mutant_clamp(ttl, limits) ==
  Greatest(published.cache_min_ttl, Least(ttl, published.cache_max_ttl))

clamp(ttl, limits) == Greatest(limits.cache_min_ttl, Least(ttl, limits.cache_max_ttl))

(* _compute_ttl and _negative_ttl: the lifetime to store the answer with,  *)
(* 0 when _cache_or_record_skip or _forward_or_cache does not store it.    *)
compute_ttl(a, limits) ==
  IF a.kind \in {"error", "failure"} \/ a.ttl = NoSoa THEN 0 ELSE clamp(a.ttl, limits)

(* An upstream answers (or all have failed).  set() reads the clock before *)
(* it takes the lock; an answer that is not cacheable ends the query.      *)
Receive(t, a) ==
  /\ pc[t] = "forward"
  /\ LET ttl == compute_ttl(a, settings[t]) IN
     IF ttl <= 0 THEN Answered(t)
     ELSE /\ held' = [held EXCEPT ![t] =
                [key |-> key[t], inserted_at |-> clock, ttl |-> ttl,
                 expires_at |-> clock + ttl * TicksPerSec,
                 limits |-> settings[t], epoch |-> 0, used_at |-> 0]]
          /\ pc' = [pc EXCEPT ![t] = "set"]
          /\ UNCHANGED <<key, now, settings>>
  /\ UNCHANGED data /\ ThreadFrame

(* Mutant: one entry too many is kept.                                     *)
Mutant_Trim(s) ==
  IF Len(s) <= capacity + 1 THEN s ELSE SubSeq(s, Len(s) - capacity, Len(s))

(* popitem(last=False) while there are too many.                           *)
Trim(s) == IF Len(s) <= capacity THEN s ELSE SubSeq(s, Len(s) - capacity + 1, Len(s))

Store(t) ==
  /\ pc[t] = "set"
  /\ data' = Trim(Append(Without(key[t]),
                         [held[t] EXCEPT !.epoch = requests, !.used_at = clock]))
  /\ Answered(t)
  /\ ThreadFrame

Query(t) ==
  \/ \E k \in Keys : BeginGet(t, k)
  \/ GetMiss(t) \/ GetHit(t) \/ ServeHit(t)
  \/ \E a \in Answers : Receive(t, a)
  \/ Store(t)

-----------------------------------------------------------------------------
(* POST /cache/flush stores the current second; the flusher thread reads   *)
(* it once when it starts, then on every tick of its timer.                *)
Second == clock \div TicksPerSec

(* Mutant: a pending request is not replaced (insert or ignore).           *)
Mutant_RequestFlush ==
  /\ requests < MaxRequests
  /\ DistinctSeconds => requested # Second
  /\ requested' = IF requested = NoRequest THEN Second ELSE requested
  /\ requests' = requests + 1
  /\ UNCHANGED <<clock, published, reloads, data, threadVars, mirrorVars>>
  /\ UNCHANGED <<last_seen, fpc, polled, failures, swallowed, seen, honoured>>

RequestFlush ==
  /\ requests < MaxRequests
  /\ DistinctSeconds => requested # Second
  /\ requested' = Second
  /\ requests' = requests + 1
  /\ UNCHANGED <<clock, published, reloads, data, threadVars, mirrorVars>>
  /\ UNCHANGED <<last_seen, fpc, polled, failures, swallowed, seen, honoured>>

FlusherFrame == UNCHANGED <<clock, published, reloads, threadVars, mirrorVars, requested, requests>>

(* The first read takes what is stored for a request of an earlier run,    *)
(* also one made since this server's start; if it fails, None is last seen.*)
BootFlusher ==
  /\ fpc = "boot"
  /\ fpc' = "idle"
  /\ \/ last_seen' = requested /\ swallowed' = requests /\ UNCHANGED failures
     \/ /\ failures < MaxPollFailures /\ failures' = failures + 1
        /\ UNCHANGED <<last_seen, swallowed>>
  /\ UNCHANGED <<polled, seen, honoured, data>> /\ FlusherFrame

(* The requests a poll finds, if there are any that were not swallowed.    *)
Found == IF requests > swallowed THEN requests ELSE seen

(* Mutant: a failed poll has ended the loop.                               *)
Mutant_Poll ==
  /\ fpc = "idle" /\ failures = 0
  /\ fpc' = "polled"
  /\ polled' = requested
  /\ seen' = Found
  /\ UNCHANGED <<last_seen, failures, swallowed, honoured, data>> /\ FlusherFrame

Poll ==
  /\ fpc = "idle"
  /\ fpc' = "polled"
  /\ polled' = requested
  /\ seen' = Found
  /\ UNCHANGED <<last_seen, failures, swallowed, honoured, data>> /\ FlusherFrame

PollFails ==
  /\ fpc = "idle"
  /\ failures < MaxPollFailures /\ failures' = failures + 1
  /\ UNCHANGED <<last_seen, fpc, polled, swallowed, seen, honoured, data>> /\ FlusherFrame

(* if requested is not None and requested != last_seen: clear.             *)
Compare ==
  /\ fpc = "polled"
  /\ fpc' = "idle"
  /\ IF polled # NoRequest /\ polled # last_seen
     THEN data' = <<>> /\ last_seen' = polled
     ELSE UNCHANGED <<data, last_seen>>
  /\ honoured' = seen
  /\ UNCHANGED <<polled, failures, swallowed, seen>> /\ FlusherFrame

Flusher == BootFlusher \/ Poll \/ Compare

-----------------------------------------------------------------------------
(* The mirror thread: build_cache_snapshot reads the wall clock, snapshot  *)
(* the monotonic clock and then the cache; record_cache_entries replaces   *)
(* the rows.  A row remembers the entry it is made from.                   *)
MirrorFrame == UNCHANGED <<clock, published, reloads, data, threadVars, flushVars>>

BeginSnapshot ==
  /\ mpc = "idle" /\ snapshots < MaxSnapshots
  /\ snapshots' = snapshots + 1
  /\ mpc' = "clock" /\ mnow' = clock
  /\ UNCHANGED <<mirror, rows>> /\ MirrorFrame

(* Mutant: the wall clock is read after the cache.                         *)
Mutant_Row(e, at) == [key |-> e.key, entry |-> e,
                      expires_at |-> clock + Remaining(e, at) * TicksPerSec]

Row(e, at) == [key |-> e.key, entry |-> e,
               expires_at |-> mnow + Remaining(e, at) * TicksPerSec]

(* snapshot() read the monotonic clock at some moment since.               *)
TakeSnapshot ==
  /\ mpc = "clock"
  /\ \E at \in mnow..clock :
       rows' = {Row(e, at) : e \in {f \in Range(data) : f.expires_at > at}}
  /\ mpc' = "rows"
  /\ UNCHANGED <<mirror, mnow, snapshots>> /\ MirrorFrame

RecordMirror ==
  /\ mpc = "rows"
  /\ mirror' = rows /\ rows' = {}
  /\ mpc' = "idle"
  /\ UNCHANGED <<mnow, snapshots>> /\ MirrorFrame

(* The database write fails: the old mirror stays.                         *)
RecordFails ==
  /\ mpc = "rows"
  /\ rows' = {} /\ mpc' = "idle"
  /\ UNCHANGED <<mirror, mnow, snapshots>> /\ MirrorFrame

Mirror == BeginSnapshot \/ TakeSnapshot \/ RecordMirror \/ RecordFails

-----------------------------------------------------------------------------
Next ==
  \/ Tick \/ Reload
  \/ \E t \in Threads : Query(t)
  \/ RequestFlush \/ Flusher \/ PollFails
  \/ Mirror

Spec == Init /\ [][Next]_vars

(* The flusher's timer thread never stops; failed polls are bounded.       *)
FairSpec == Spec /\ WF_vars(Flusher)
-----------------------------------------------------------------------------
Entries == [key : Keys, inserted_at : Nat, expires_at : Nat, ttl : Nat,
            limits : TtlSettings, epoch : Nat, used_at : Nat]

TypeOK ==
  /\ clock \in 0..MaxTime /\ published \in TtlSettings
  /\ data \in Seq(Entries)
  /\ pc \in [Threads -> {"idle", "get", "hit", "forward", "set"}]
  /\ key \in [Threads -> Keys \cup {NoKey}]
  /\ now \in [Threads -> Nat]
  /\ settings \in [Threads -> TtlSettings \cup {NoSettings}]
  /\ held \in [Threads -> Entries \cup {NoEntry}]
  /\ {requested, last_seen, polled} \subseteq Nat \cup {NoRequest, Earlier}
  /\ fpc \in {"boot", "idle", "polled"} /\ mpc \in {"idle", "clock", "rows"}
  /\ {requests, failures, snapshots, swallowed, seen, honoured, mnow, reloads} \subseteq Nat
  /\ \A r \in mirror \cup rows : r.entry \in Entries /\ r.expires_at \in Nat

(* A lifetime respects a pair of limits: it is at least cache_min_ttl, and *)
(* at most cache_max_ttl unless the minimum is the larger one, which then  *)
(* wins.  Zero and less is never stored.                                   *)
Respects(ttl, limits) ==
  /\ ttl >= 1 /\ ttl >= limits.cache_min_ttl
  /\ ttl <= limits.cache_max_ttl \/ ttl = limits.cache_min_ttl

(* However gets, sets, clears and reloads of several threads interleave,   *)
(* the cache holds one entry per question, never more than its capacity (1 *)
(* when cache_max_entries is 0 or less), and only lifetimes that respect   *)
(* the limits in force when their query began, both of one configuration,  *)
(* although the limits may have changed by the time the answer arrives.    *)
(* (It says nothing of the limits in force now: lowering cache_max_ttl     *)
(* leaves the longer lifetimes that are stored.)                           *)
CacheShape ==
  /\ Len(data) <= capacity
  /\ \A i, j \in DOMAIN data : data[i].key = data[j].key => i = j
  /\ \A i \in DOMAIN data :
       /\ Respects(data[i].ttl, data[i].limits)
       /\ data[i].expires_at = data[i].inserted_at + data[i].ttl * TicksPerSec

(* README, Caching: the TTL counts down on each hit.  An answer from the   *)
(* cache was live when the lookup began, and the TTL it carries never      *)
(* keeps it alive in a client beyond the lifetime it was stored with, even *)
(* when the entry expires between the lookup and the reply.                *)
ServedWithinLifetime ==
  [][\A t \in Threads : ServeHit(t) =>
       /\ held[t].expires_at > now[t]
       /\ ReplyTtl(t) >= 0
       /\ ReplyTtl(t) > 0 =>
            clock + ReplyTtl(t) * TicksPerSec
              <= held[t].inserted_at + held[t].ttl * TicksPerSec]_vars

(* cache.py, "LRU eviction": when storing an answer pushes another one     *)
(* out, the cache was full and nothing it keeps was used less recently.    *)
EvictsLeastRecentlyUsed ==
  [][\A t \in Threads : Store(t) =>
       \A e \in Range(data) : e.key \notin CachedKeys' =>
         /\ Len(data) = capacity
         /\ \A f \in Range(data') : f.used_at >= e.used_at]_vars

(* docs/frontend-integration.md, POST /cache/flush: "the DNS server clears *)
(* its cache the next time it polls": once a poll that came after a        *)
(* request is over, no answer stored before the request is left.  (The     *)
(* answer of a thread that had already forwarded may be stored after it;   *)
(* and a request that the flusher's first read finds is taken for an old   *)
(* one, so that it counts only once a later one is made.)                  *)
FlushHonoured == \A i \in DOMAIN data : data[i].epoch >= honoured

(* Every flush request is dealt with by some later poll, failed polls      *)
(* notwithstanding, unless the flusher's first read takes it for an old    *)
(* one: the requests made since that read (or at all, if it failed).       *)
FlushServed ==
  fpc # "boot" /\ requests > Greatest(swallowed, honoured) ~> honoured = requests

(* cache_entries.py: remaining_ttl recomputed from a row's expires_at      *)
(* "stays accurate between snapshots": no row of the mirror claims that an *)
(* answer lives longer than it does in the cache.                          *)
MirrorNeverOverstates ==
  \A r \in mirror : r.expires_at <= r.entry.expires_at
=============================================================================
