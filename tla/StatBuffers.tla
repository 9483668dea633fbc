---------------------------- MODULE StatBuffers ----------------------------
(***************************************************************************)
(* The seven buffers the resolver reports its queries to, their flush      *)
(* threads and the tables they are written to.                             *)
(*                                                                         *)
(* A counter is represented by the queries it counts: a buffer is the set  *)
(* of its adds since the last swap, an add being [q, hour, at]: the query, *)
(* the hour it was filed under and its place in the buffer's order of adds *)
(* (the lock's).  The count of a key is the number of adds with that key,  *)
(* and last_action is the action of the latest of them.                    *)
(***************************************************************************)
EXTENDS Integers, Sequences, FiniteSets

CONSTANTS
  Threads,      \* server threads
  Lookups,      \* [client, name, result, outcome] a query may turn out to be
  Watched,      \* the buffers followed in this model
  MaxKeys,      \* per capped buffer: keys held between two flushes
  MaxRows,      \* per capped table: rows kept
  MaxEvents,    \* events held between two flushes
  Retention,    \* per hourly table: hours kept
  MaxQueries,   \* bound: queries
  MaxHour,      \* bound: hours that pass
  MaxFailures,  \* bound: writes that fail
  MaxEnds,      \* bound: crashes and shutdowns
  MaxDeletes    \* bound: delete requests

(* In the order main() stops them.                                         *)
StopOrder == <<"queries", "stats", "requests", "events", "foreign",
               "uncached", "outcomes">>
Buffers == {StopOrder[i] : i \in 1..7}
Capped == {"foreign", "uncached"}
Hourly == {"stats", "outcomes", "events"}
Flushers == {"timer", "main"}

ASSUME BufferAssumption ==
  /\ Watched \subseteq Buffers
  /\ MaxKeys \in [Capped -> Nat \ {0}] /\ MaxRows \in [Capped -> Nat \ {0}]
  /\ Retention \in [Hourly -> Nat] /\ MaxEvents \in Nat \ {0}
  /\ {MaxQueries, MaxHour, MaxFailures, MaxEnds, MaxDeletes} \subseteq Nat

VARIABLES
  hour,               \* the wall clock, in hours
  asked,              \* the queries so far; a query is its index
  query, route, stamp,  \* per thread: its query, where it has yet to report to,
                      \* the hour it has read for the next report
  data,               \* per buffer: the adds since the last swap (_data)
  flight,             \* per buffer and flusher: the snapshot being written
  stored,             \* per table: the adds its rows count
  last,               \* query_log: who last set last_action, for each key
  stopAt,             \* main: buffer being stopped, 0 before the shutdown
  failures, ends, stops, deletes,  \* counters for the bounds
  reported,           \* history: per buffer, queries whose add was called
  lost,               \* history: per buffer, queries no longer counted
  late                \* history: per buffer, adds after its last flush

clockVars == <<hour, asked>>
threadVars == <<query, route, stamp>>
tableVars == <<stored, last>>
bounds == <<failures, ends, stops, deletes>>
history == <<reported, lost, late>>
vars == <<clockVars, threadVars, data, flight, tableVars, stopAt, bounds, history>>

NoHour == -1
NoQuery == 0
Everywhere(v) == [b \in Buffers |-> v]
Queries(adds) == {e.q : e \in adds}

Init ==
  /\ hour = 0 /\ asked = <<>>
  /\ query = [t \in Threads |-> NoQuery]
  /\ route = [t \in Threads |-> {}]
  /\ stamp = [t \in Threads |-> NoHour]
  /\ data = Everywhere({}) /\ flight = Everywhere([f \in Flushers |-> {}])
  /\ stored = Everywhere({}) /\ last = <<>>
  /\ stopAt = 0
  /\ failures = 0 /\ ends = 0 /\ stops = 0 /\ deletes = 0
  /\ reported = Everywhere({}) /\ lost = Everywhere({}) /\ late = Everywhere({})

-----------------------------------------------------------------------------
(* What a query reports to, and the order in which a query calls them.     *)
CallOrder == [uncached |-> 1, outcomes |-> 2, queries |-> 3, stats |-> 4,
              requests |-> 5, events |-> 6, foreign |-> 7]

(* _cache_or_record_skip and _skip_cache; nothing unless the query was     *)
(* forwarded with the cache enabled.                                       *)
CacheReports(L) ==
  CASE L.outcome = "none"   -> {}
    [] L.outcome = "cached" -> {"outcomes"}
    [] OTHER                -> {"uncached", "outcomes"}

(* record_foreign for a dropped query; the end of handle() for the others. *)
Reports(L) ==
  IF L.result = "foreign" THEN {"stats", "foreign"}
  ELSE CacheReports(L) \cup {"queries", "stats", "requests", "events"}

Arrive(t, L) ==
  /\ stopAt = 0 /\ route[t] = {} /\ Len(asked) < MaxQueries
  /\ asked' = Append(asked, L)
  /\ query' = [query EXCEPT ![t] = Len(asked) + 1]
  /\ route' = [route EXCEPT ![t] = Reports(L) \cap Watched]
  /\ UNCHANGED <<hour, stamp, data, flight, tableVars, stopAt, bounds, history>>

NextCall(t, b) == b \in route[t] /\ \A c \in route[t] : CallOrder[b] <= CallOrder[c]

(* The buffers that file by time read the clock before taking the lock.    *)
ReadClock(t) ==
  /\ \E b \in Hourly : NextCall(t, b)
  /\ stamp[t] = NoHour
  /\ stamp' = [stamp EXCEPT ![t] = hour]
  /\ UNCHANGED <<clockVars, query, route, data, flight, tableVars, stopAt>>
  /\ UNCHANGED <<bounds, history>>

(* The dictionary key each buffer counts under; an event is kept by itself. *)
QueryKey(L) == <<L.client, L.name>>
StatKey(L, h) == <<h, IF L.result = "foreign" THEN "foreign" ELSE L.client>>
RequestKey(L) == <<L.client, L.name>>
UncachedKey(L) == <<L.client, L.name, L.outcome>>
OutcomeKey(L, h) == <<h, L.outcome>>
ForeignKey(L) == <<L.client>>
EventKey(q) == <<q>>

Key(b, e) ==
  LET L == asked[e.q]
  IN  CASE b = "queries"  -> QueryKey(L)
        [] b = "stats"    -> StatKey(L, e.hour)
        [] b = "requests" -> RequestKey(L)
        [] b = "events"   -> EventKey(e.q)
        [] b = "foreign"  -> ForeignKey(L)
        [] b = "uncached" -> UncachedKey(L)
        [] b = "outcomes" -> OutcomeKey(L, e.hour)

Keys(b, adds) == {Key(b, e) : e \in adds}

(* At the cap a new key is skipped, and a tracked one still counts.        *)
Skips(b, e) ==
  /\ b \in Capped
  /\ Key(b, e) \notin Keys(b, data[b])
  /\ Cardinality(Keys(b, data[b])) >= MaxKeys[b]

Oldest(adds) == {e \in adds : \A d \in adds : e.at <= d.at}

(* deque(maxlen=...) drops its oldest event when a new one does not fit.   *)
Overflow(b) ==
  IF b = "events" /\ Cardinality(data[b]) >= MaxEvents THEN Oldest(data[b]) ELSE {}

(* Main has taken its last snapshot of b: it waits for the write, or is    *)
(* done with b.                                                            *)
Stopped(b) ==
  \/ \E i \in 1..7 : StopOrder[i] = b /\ i < stopAt
  \/ flight[b]["main"] # {}

Drop(b, adds) == lost' = [lost EXCEPT ![b] = @ \cup Queries(adds)]

(* add() of the next buffer the query reports to.                          *)
Report(t, b) ==
  LET e == [q |-> query[t], hour |-> stamp[t], at |-> Cardinality(reported[b]) + 1]
  IN  /\ NextCall(t, b) /\ (b \in Hourly => stamp[t] # NoHour)
      /\ route' = [route EXCEPT ![t] = @ \ {b}]
      /\ stamp' = [stamp EXCEPT ![t] = NoHour]
      /\ reported' = [reported EXCEPT ![b] = @ \cup {e.q}]
      /\ late' = IF Stopped(b) THEN [late EXCEPT ![b] = @ \cup {e.q}] ELSE late
      /\ IF Skips(b, e) THEN Drop(b, {e}) /\ UNCHANGED data
         ELSE /\ data' = [data EXCEPT ![b] = (@ \ Overflow(b)) \cup {e}]
              /\ Drop(b, Overflow(b))
      /\ UNCHANGED <<clockVars, query, flight, tableVars, stopAt, bounds>>

Tick ==
  /\ hour < MaxHour /\ hour' = hour + 1
  /\ UNCHANGED <<asked, threadVars, data, flight, tableVars, stopAt, bounds, history>>

-----------------------------------------------------------------------------
(* flush() on the buffer's timer thread or, in stop(), on the main thread. *)

(* Mutant: the rows are copied and the buffer is not emptied.              *)
Mutant_Swap(b, f) ==
  /\ data[b] # {} /\ flight[b][f] = {}
  /\ flight' = [flight EXCEPT ![b][f] = data[b]]
  /\ UNCHANGED data

Swap(b, f) ==
  /\ data[b] # {} /\ flight[b][f] = {}
  /\ flight' = [flight EXCEPT ![b][f] = data[b]]
  /\ data' = [data EXCEPT ![b] = {}]

TimerSwap(b) ==
  /\ Swap(b, "timer")
  /\ UNCHANGED <<clockVars, threadVars, tableVars, stopAt, bounds, history>>

(* A flush that finds nothing returns at once.                             *)
FlushNothing(b) == data[b] = {} /\ UNCHANGED vars

(* What the record_... functions leave of the rows: nothing is removed,    *)
record_queries(all) == all
record_client_requests(all) == all

(* or the transaction ends with a purge of old rows: the cut-off is now    *)
(* minus the retention, within an hour that is kept in part (edge),        *)
Purged(b, all, edge) ==
  {e \in all : \/ e.hour + Retention[b] > hour
               \/ ~edge /\ e.hour + Retention[b] = hour}

record_client_stats(all, edge) == Purged("stats", all, edge)
record_cache_outcomes(all, edge) == Purged("outcomes", all, edge)
record_query_events(all, edge) == Purged("events", all, edge)

(* or with a trim to the rows K most recently seen, which are those just   *)
(* written and then some of the others (any of them, here).                *)
Keepable(b, snapshot, K) ==
  LET new == Keys(b, snapshot)
      all == Keys(b, stored[b]) \cup new
  IN  IF b \notin Capped \/ Cardinality(all) <= MaxRows[b] THEN K = all
      ELSE /\ K \subseteq all /\ Cardinality(K) = MaxRows[b]
           /\ new \subseteq K \/ K \subseteq new

Trimmed(b, all, K) == {e \in all : Key(b, e) \in K}
record_foreign_clients(all, K) == Trimmed("foreign", all, K)
record_uncacheable(all, K) == Trimmed("uncached", all, K)

Record(b, all, K, edge) ==
  CASE b = "queries"  -> record_queries(all)
    [] b = "requests" -> record_client_requests(all)
    [] b = "stats"    -> record_client_stats(all, edge)
    [] b = "outcomes" -> record_cache_outcomes(all, edge)
    [] b = "events"   -> record_query_events(all, edge)
    [] b = "foreign"  -> record_foreign_clients(all, K)
    [] b = "uncached" -> record_uncacheable(all, K)

Edges(b) == IF b \in Hourly THEN BOOLEAN ELSE {FALSE}

(* The last add of key k: the one that set last_action.                    *)
Newest(adds, k) ==
  CHOOSE e \in adds : /\ QueryKey(asked[e.q]) = k
                      /\ \A d \in adds : QueryKey(asked[d.q]) = k => d.at <= e.at

(* Mutant: a row that is already there keeps its last_action.              *)
Mutant_Upsert(snapshot) ==
  [k \in DOMAIN last \cup Keys("queries", snapshot) |->
     IF k \in DOMAIN last THEN last[k] ELSE Newest(snapshot, k).q]

(* On conflict the row of query_log takes the last_action of the new one.  *)
Upsert(snapshot) ==
  [k \in DOMAIN last \cup Keys("queries", snapshot) |->
     IF k \in Keys("queries", snapshot) THEN Newest(snapshot, k).q ELSE last[k]]

(* The record_... function: one transaction that adds the snapshot to the  *)
(* rows and then purges or trims the table.                                *)
Store(b, f, K, edge) ==
  LET all == stored[b] \cup flight[b][f]
      kept == Record(b, all, K, edge)
  IN  /\ flight[b][f] # {}
      /\ Keepable(b, flight[b][f], K)
      /\ stored' = [stored EXCEPT ![b] = kept]
      /\ last' = IF b = "queries" THEN Upsert(flight[b][f]) ELSE last
      /\ flight' = [flight EXCEPT ![b][f] = {}]
      /\ Drop(b, all \ kept)
      /\ stopAt' = IF f = "main" THEN stopAt + 1 ELSE stopAt
      /\ UNCHANGED <<clockVars, threadVars, data, bounds, reported, late>>

(* The transaction is rolled back, the exception is logged, and the        *)
(* snapshot is gone.                                                       *)
StoreFails(b, f) ==
  /\ flight[b][f] # {}
  /\ failures < MaxFailures /\ failures' = failures + 1
  /\ flight' = [flight EXCEPT ![b][f] = {}]
  /\ Drop(b, flight[b][f])
  /\ stopAt' = IF f = "main" THEN stopAt + 1 ELSE stopAt
  /\ UNCHANGED <<clockVars, threadVars, data, tableVars, ends, stops, deletes>>
  /\ UNCHANGED <<reported, late>>

(* Mutant: the exception of a failed flush ends the loop.                  *)
Mutant_Timer(b) ==
  /\ failures = 0
  /\ \/ TimerSwap(b)
     \/ \E K \in SUBSET Keys(b, stored[b] \cup flight[b]["timer"]), edge \in Edges(b) :
          Store(b, "timer", K, edge)

Timer(b) ==
  \/ TimerSwap(b)
  \/ \E K \in SUBSET Keys(b, stored[b] \cup flight[b]["timer"]), edge \in Edges(b) :
       Store(b, "timer", K, edge)

-----------------------------------------------------------------------------
(* The end of the process, and supervisord starting it again.              *)
Interrupt ==
  /\ stopAt = 0 /\ ends < MaxEnds
  /\ ends' = ends + 1 /\ stops' = stops + 1
  /\ stopAt' = 1
  /\ UNCHANGED <<clockVars, threadVars, data, flight, tableVars, failures, deletes>>
  /\ UNCHANGED history

(* Mutant: stop() only sets the event.                                     *)
Mutant_StopSwap ==
  /\ stopAt \in 1..7 /\ stopAt' = stopAt + 1
  /\ UNCHANGED <<clockVars, threadVars, data, flight, tableVars, bounds, history>>

(* stop() of the next buffer: flush() swaps, or returns at once.           *)
StopSwap ==
  /\ stopAt \in 1..7
  /\ LET b == StopOrder[stopAt]
     IN  \/ Swap(b, "main") /\ UNCHANGED stopAt
         \/ /\ data[b] = {} /\ flight[b]["main"] = {}
            /\ stopAt' = stopAt + 1 /\ UNCHANGED <<data, flight>>
  /\ UNCHANGED <<clockVars, threadVars, tableVars, bounds, history>>

StopStore ==
  /\ stopAt \in 1..7
  /\ LET b == StopOrder[stopAt]
     IN  \E K \in SUBSET Keys(b, stored[b] \cup flight[b]["main"]), edge \in Edges(b) :
           Store(b, "main", K, edge)

Main == StopSwap \/ StopStore

(* What memory held is gone.                                               *)
End ==
  /\ lost' = [b \in Buffers |-> lost[b] \cup Queries(data[b]) \cup
                UNION {Queries(flight[b][f]) : f \in Flushers}]
  /\ data' = Everywhere({}) /\ flight' = Everywhere([f \in Flushers |-> {}])
  /\ query' = [t \in Threads |-> NoQuery]
  /\ route' = [t \in Threads |-> {}]
  /\ stamp' = [t \in Threads |-> NoHour]
  /\ stopAt' = 0
  /\ UNCHANGED <<clockVars, tableVars, failures, stops, deletes, reported, late>>

(* main() returns; daemon threads and handlers die where they are.         *)
Exit == stopAt = 8 /\ End /\ UNCHANGED ends

(* SIGTERM or SIGKILL: nothing is flushed.                                 *)
Crash == ends < MaxEnds /\ ends' = ends + 1 /\ End

-----------------------------------------------------------------------------
(* Requests that delete rows: gone[b] are the adds of the deleted rows.    *)
Delete(gone) ==
  /\ deletes < MaxDeletes /\ deletes' = deletes + 1
  /\ stored' = [b \in Buffers |-> stored[b] \ gone[b]]
  /\ last' = [k \in DOMAIN last \ Keys("queries", gone["queries"]) |-> last[k]]
  /\ lost' = [b \in Buffers |-> lost[b] \cup Queries(gone[b])]
  /\ UNCHANGED <<clockVars, threadVars, data, flight, stopAt>>
  /\ UNCHANGED <<failures, ends, stops, reported, late>>

DeleteAll(b) ==
  /\ b \in Capped \cup {"queries"} /\ stored[b] # {}
  /\ Delete([Everywhere({}) EXCEPT ![b] = stored[b]])

DeleteRow(b, k) ==
  /\ b \in Capped
  /\ Delete([Everywhere({}) EXCEPT ![b] = {e \in stored[b] : Key(b, e) = k}])

(* delete_host: the client's statistics, requests and query log.           *)
DeleteClient(c) ==
  Delete([b \in Buffers |-> IF b \notin {"stats", "requests", "queries"} THEN {}
                            ELSE {e \in stored[b] : asked[e.q].client = c
                                                    /\ asked[e.q].result # "foreign"}])

Deletes ==
  \/ \E b \in Watched : DeleteAll(b) \/ \E k \in Keys(b, stored[b]) : DeleteRow(b, k)
  \/ \E c \in {L.client : L \in Lookups} : DeleteClient(c)

-----------------------------------------------------------------------------
Next ==
  \/ \E t \in Threads : (\E L \in Lookups : Arrive(t, L)) \/ ReadClock(t)
                       \/ \E b \in Watched : Report(t, b)
  \/ Tick
  \/ \E b \in Watched : Timer(b) \/ FlushNothing(b) \/ \E f \in Flushers : StoreFails(b, f)
  \/ Interrupt \/ Main \/ Exit \/ Crash
  \/ Deletes

Spec == Init /\ [][Next]_vars

(* Each buffer has its own timer thread, whose loop survives every failed  *)
(* flush; a shutdown once begun goes on to the exit.                       *)
FairSpec ==
  Spec /\ WF_vars(Main \/ Exit) /\ \A b \in Watched : WF_vars(Timer(b))
-----------------------------------------------------------------------------
Adds == [q : 1..MaxQueries, hour : 0..hour \cup {NoHour}, at : 1..MaxQueries]

TypeOK ==
  /\ hour \in 0..MaxHour
  /\ asked \in Seq(Lookups) /\ Len(asked) <= MaxQueries
  /\ query \in [Threads -> 0..MaxQueries]
  /\ route \in [Threads -> SUBSET Buffers]
  /\ stamp \in [Threads -> 0..hour \cup {NoHour}]
  /\ data \in [Buffers -> SUBSET Adds] /\ stored \in [Buffers -> SUBSET Adds]
  /\ flight \in [Buffers -> [Flushers -> SUBSET Adds]]
  /\ \A k \in DOMAIN last : last[k] \in 1..Len(asked)
  /\ stopAt \in 0..8
  /\ failures \in 0..MaxFailures /\ ends \in 0..MaxEnds
  /\ stops \in 0..MaxEnds /\ deletes \in 0..MaxDeletes
  /\ {reported, lost, late} \subseteq [Buffers -> SUBSET (1..MaxQueries)]

Places(b, q) ==
  {p \in {"data", "stored"} \cup Flushers :
     q \in Queries(CASE p = "data" -> data[b] [] p = "stored" -> stored[b]
                     [] OTHER -> flight[b][p])}

(* A query reported to a buffer is counted once: in the buffer, in a       *)
(* snapshot on its way or in the table, and nowhere only if it was skipped *)
(* at a cap, its write failed, its row was purged or deleted, or the       *)
(* process ended; the two threads that may flush a buffer at the same time *)
(* never count it twice, and none is counted that was not reported.        *)
CountedOnce ==
  \A b \in Buffers : \A q \in 1..MaxQueries :
    Cardinality(Places(b, q)) =
      IF q \in reported[b] \ lost[b] THEN 1 ELSE 0

(* docs/frontend-integration.md, client hourly stats: "A clean shutdown    *)
(* flushes early": what a clean exit finds in a buffer was added after the *)
(* buffer's last flush, by a query that main() did not wait for.           *)
CleanExitFlushes ==
  stopAt = 8 => \A b \in Buffers : Queries(data[b]) \subseteq late[b]

(* docs/frontend-integration.md, query log: last_action is the "last       *)
(* action applied" for the row.  It is the action of the latest query the  *)
(* row counts, over any sequence of flushes and failures (during a         *)
(* shutdown the two flushes of the buffer may be written in either order). *)
LastActionCurrent ==
  stops = 0 => \A k \in Keys("queries", stored["queries"]) :
                 last[k] = Newest(stored["queries"], k).q

(* Once the queries have ended, whatever flushes failed on the way, no     *)
(* buffer and no snapshot holds on to any of them.                         *)
MemoryDrains ==
  <>[](\A b \in Watched : data[b] = {} /\ \A f \in Flushers : flight[b][f] = {})
=============================================================================
