------------------------- MODULE StatBuffersProofs -------------------------
(***************************************************************************)
(* Proofs about StatBuffers, for any number of server threads, queries,    *)
(* flushes, failed writes, deletions, crashes and shutdowns, and any caps  *)
(* and retentions.                                                         *)
(***************************************************************************)
EXTENDS StatBuffers, FiniteSetTheorems, WellFoundedInduction, TLAPS

-----------------------------------------------------------------------------
Add == [q : Nat, hour : Int, at : Nat]

Typed ==
  /\ asked \in Seq(Lookups) /\ hour \in Int
  /\ query \in [Threads -> Nat] /\ route \in [Threads -> SUBSET Buffers]
  /\ stamp \in [Threads -> Int]
  /\ data \in [Buffers -> SUBSET Add] /\ stored \in [Buffers -> SUBSET Add]
  /\ flight \in [Buffers -> [Flushers -> SUBSET Add]]
  /\ reported \in [Buffers -> SUBSET (1..Len(asked))]
  /\ lost \in [Buffers -> SUBSET Nat] /\ late \in [Buffers -> SUBSET Nat]
  /\ stopAt \in 0..8 /\ stops \in Nat

(* A query has not reported yet where it is going to, and no other thread  *)
(* reports it.                                                             *)
Waiting ==
  \A t \in Threads : \A b \in route[t] :
    /\ query[t] \in 1..Len(asked) /\ query[t] \notin reported[b]
    /\ b \in Reports(asked[query[t]])
    /\ \A u \in Threads \ {t} : b \in route[u] => query[u] # query[t]

(* Where an add of b may be, and that it is in one place only; the queries *)
(* found there are those reported and not lost.                            *)
Held(b) == data[b] \cup stored[b] \cup flight[b]["timer"] \cup flight[b]["main"]

Apart(b) ==
  /\ data[b] \cap stored[b] = {}
  /\ \A f \in Flushers : flight[b][f] \cap (data[b] \cup stored[b]) = {}
  /\ flight[b]["timer"] \cap flight[b]["main"] = {}

Counting(b) ==
  /\ Apart(b)
  /\ \A d, e \in Held(b) : d.q = e.q => d = e
  /\ Queries(Held(b)) = reported[b] \ lost[b]
  /\ lost[b] \subseteq reported[b]

(* Main has a snapshot only of the buffer it is stopping.                  *)
Stopping ==
  \A b \in Buffers : flight[b]["main"] # {} => stopAt \in 1..7 /\ b = StopOrder[stopAt]

StatInv == Typed /\ Waiting /\ Stopping /\ \A b \in Buffers : Counting(b)

(* What a step does not touch stays counted.                               *)
LEMMA CountingSame ==
  ASSUME NEW b \in Buffers, Counting(b), data'[b] = data[b], stored'[b] = stored[b],
         flight'[b] = flight[b], reported'[b] = reported[b], lost'[b] = lost[b]
  PROVE  Counting(b)'
BY DEF Counting, Apart, Held, Queries

(* Adds move from one place to another, and those dropped become lost.     *)
LEMMA CountingMoves ==
  ASSUME NEW b \in Buffers, Counting(b), Apart(b)', Held(b)' \subseteq Held(b),
         reported'[b] = reported[b],
         lost'[b] = lost[b] \cup Queries(Held(b) \ Held(b)')
  PROVE  Counting(b)'
<1> PICK H : H = Held(b)
    OBVIOUS
<1> PICK G : G = Held(b)'
    OBVIOUS
<1>1. /\ G \subseteq H
      /\ \A d, e \in H : d.q = e.q => d = e
      /\ lost'[b] = lost[b] \cup Queries(H \ G)
      /\ Queries(H) = reported[b] \ lost[b] /\ lost[b] \subseteq reported[b]
      BY DEF Counting
<1>2. Queries(H \ G) \subseteq Queries(H)
      BY DEF Queries
<1>3. \A q : q \in Queries(G) <=> q \in Queries(H) /\ q \notin Queries(H \ G)
      BY <1>1 DEF Queries
<1>4. Queries(G) = reported[b] \ lost'[b]
      BY <1>1, <1>2, <1>3
<1>5. lost'[b] \subseteq reported[b]
      BY <1>1, <1>2
<1> QED
    BY <1>1, <1>4, <1>5 DEF Counting, Queries

LEMMA WaitingSame ==
  ASSUME Waiting, UNCHANGED <<asked, query, route, reported>>
  PROVE  Waiting'
BY DEF Waiting

LEMMA ReportedFinite ==
  ASSUME Typed, NEW b \in Buffers
  PROVE  IsFiniteSet(reported[b]) /\ Cardinality(reported[b]) \in Nat
<1>1. Len(asked) \in Nat /\ reported[b] \subseteq 1..Len(asked)
      BY DEF Typed
<1>2. IsFiniteSet(1..Len(asked))
      BY <1>1, FS_Interval
<1> QED
    BY <1>1, <1>2, FS_Subset, FS_CardinalityType

-----------------------------------------------------------------------------
(* The steps.                                                              *)
LEMMA ReportKeeps ==
  ASSUME StatInv, NEW t \in Threads, NEW b \in Buffers, Report(t, b)
  PROVE  StatInv'
<1>e. PICK e : e = [q |-> query[t], hour |-> stamp[t], at |-> Cardinality(reported[b]) + 1]
      OBVIOUS
<1>0. /\ b \in route[t] /\ route' = [route EXCEPT ![t] = route[t] \ {b}]
      /\ stamp' = [stamp EXCEPT ![t] = NoHour]
      /\ reported' = [reported EXCEPT ![b] = reported[b] \cup {e.q}]
      /\ late' = late \/ late' = [late EXCEPT ![b] = late[b] \cup {e.q}]
      /\ UNCHANGED <<asked, hour, query, flight, stored, stopAt, stops>>
      BY <1>e DEF Report, NextCall, clockVars, tableVars, bounds, StatInv, Typed
<1>1. e \in Add /\ e.q = query[t] /\ e.q \in 1..Len(asked) /\ e.q \notin reported[b]
      BY <1>0, <1>e, ReportedFinite DEF StatInv, Typed, Waiting, Add
<1>2. PICK X \in SUBSET data[b] :
        \/ /\ data' = [data EXCEPT ![b] = (data[b] \ X) \cup {e}]
           /\ lost' = [lost EXCEPT ![b] = lost[b] \cup Queries(X)]
        \/ data' = data /\ lost' = [lost EXCEPT ![b] = lost[b] \cup Queries({e})] /\ X = {}
  <2>1. CASE Skips(b, e)
    <3>1. data' = data /\ lost' = [lost EXCEPT ![b] = lost[b] \cup Queries({e})]
          BY <1>e, <2>1 DEF Report, Drop, StatInv, Typed
    <3> QED
        BY <3>1
  <2>2. CASE ~Skips(b, e)
    <3>1. /\ data' = [data EXCEPT ![b] = (data[b] \ Overflow(b)) \cup {e}]
          /\ lost' = [lost EXCEPT ![b] = lost[b] \cup Queries(Overflow(b))]
          BY <1>e, <2>2 DEF Report, Drop, StatInv, Typed
    <3>2. Overflow(b) \in SUBSET data[b]
          BY DEF Overflow, Oldest
    <3> QED
        BY <3>1, <3>2
  <2> QED
      BY <2>1, <2>2
<1>3. Queries({e}) = {e.q} /\ Queries(X) \subseteq Queries(data[b])
      BY DEF Queries
<1>4. Queries(data[b]) \subseteq Nat
      BY DEF Queries, StatInv, Typed, Add
<1>5. Typed'
  <2>1. e.q \in Nat /\ Queries(X) \subseteq Nat /\ Queries({e}) \subseteq Nat
    <3>1. e.q \in Nat
          BY <1>1 DEF Add
    <3> QED
        BY <1>3, <1>4, <3>1
  <2>2. reported' \in [Buffers -> SUBSET (1..Len(asked))]
        BY <1>0, <1>1 DEF StatInv, Typed
  <2>3. lost' \in [Buffers -> SUBSET Nat] /\ late' \in [Buffers -> SUBSET Nat]
    <3>1. lost \in [Buffers -> SUBSET Nat] /\ late \in [Buffers -> SUBSET Nat]
          BY DEF StatInv, Typed
    <3>2. late' \in [Buffers -> SUBSET Nat]
          BY <1>0, <2>1, <3>1
    <3>3. \A Y \in SUBSET Nat : [lost EXCEPT ![b] = lost[b] \cup Y] \in [Buffers -> SUBSET Nat]
          BY <3>1
    <3>4. lost' = [lost EXCEPT ![b] = lost[b] \cup Queries(X)]
             \/ lost' = [lost EXCEPT ![b] = lost[b] \cup Queries({e})]
          BY <1>2
    <3> QED
        BY <2>1, <3>2, <3>3, <3>4
  <2>4. data' \in [Buffers -> SUBSET Add]
        BY <1>1, <1>2 DEF StatInv, Typed
  <2>5. route' \in [Threads -> SUBSET Buffers] /\ stamp' \in [Threads -> Int]
        BY <1>0 DEF StatInv, Typed, NoHour
  <2> QED
      BY <1>0, <2>2, <2>3, <2>4, <2>5 DEF StatInv, Typed
<1>6. Waiting'
  <2> SUFFICES ASSUME NEW u \in Threads, NEW c \in route'[u]
               PROVE  /\ query[u] \in 1..Len(asked) /\ query[u] \notin reported'[c]
                      /\ c \in Reports(asked[query[u]])
                      /\ \A v \in Threads \ {u} : c \in route'[v] => query[v] # query[u]
      BY <1>0 DEF Waiting
  <2>1. /\ \A v \in Threads : route'[v] \subseteq route[v]
        /\ c \in Buffers /\ route'[t] = route[t] \ {b}
        BY <1>0 DEF StatInv, Typed
  <2>2. /\ query[u] \in 1..Len(asked) /\ query[u] \notin reported[c]
        /\ c \in Reports(asked[query[u]])
        /\ \A v \in Threads \ {u} : c \in route[v] => query[v] # query[u]
        BY <2>1 DEF StatInv, Waiting
  <2>3. query[u] \notin reported'[c]
    <3>1. CASE c # b
      <4>1. reported'[c] = reported[c]
            BY <1>0, <2>1, <3>1 DEF StatInv, Typed
      <4> QED
          BY <2>2, <4>1
    <3>2. CASE c = b
      <4>1. reported'[b] = reported[b] \cup {query[t]} /\ u # t
            BY <1>0, <1>1, <2>1, <3>2 DEF StatInv, Typed
      <4>2. query[t] # query[u]
            BY <1>0, <2>2, <3>2, <4>1
      <4> QED
          BY <2>2, <3>2, <4>1, <4>2
    <3> QED
        BY <3>1, <3>2
  <2> QED
      BY <2>1, <2>2, <2>3
<1>7. ASSUME NEW c \in Buffers PROVE Counting(c)'
  <2>1. CASE c # b
    <3>1. /\ data'[c] = data[c] /\ stored'[c] = stored[c] /\ flight'[c] = flight[c]
          /\ reported'[c] = reported[c] /\ lost'[c] = lost[c]
          BY <1>0, <1>2, <2>1 DEF StatInv, Typed
    <3> QED
        BY <3>1, CountingSame DEF StatInv
  <2>2. CASE c = b
    <3>1. Counting(b) /\ reported'[b] = reported[b] \cup {e.q} /\ e.q \notin Queries(Held(b))
          BY <1>0, <1>1 DEF StatInv, Typed, Counting
    <3>2. e \notin Held(b)
          BY <3>1 DEF Queries
    <3>3. CASE data' = data /\ lost' = [lost EXCEPT ![b] = lost[b] \cup Queries({e})] /\ X = {}
      <4>1. lost'[b] = lost[b] \cup {e.q} /\ Held(b)' = Held(b)
            BY <1>0, <1>3, <3>3 DEF StatInv, Typed, Held
      <4>2. Apart(b)'
            BY <1>0, <3>1, <3>3 DEF Counting, Apart
      <4>3. Queries(Held(b)) = reported'[b] \ lost'[b]
            BY <1>1, <3>1, <4>1 DEF Counting
      <4> QED
          BY <2>2, <3>1, <4>1, <4>2, <4>3 DEF Counting
    <3>4. CASE /\ data' = [data EXCEPT ![b] = (data[b] \ X) \cup {e}]
               /\ lost' = [lost EXCEPT ![b] = lost[b] \cup Queries(X)]
      <4>1. data'[b] = (data[b] \ X) \cup {e} /\ lost'[b] = lost[b] \cup Queries(X)
            BY <3>4 DEF StatInv, Typed
      <4>2. Apart(b)'
            BY <1>0, <3>1, <3>2, <4>1 DEF Counting, Apart, Held, Flushers
      <4>3. Held(b)' = (Held(b) \ X) \cup {e}
            BY <1>0, <3>1, <4>1 DEF Held, Counting, Apart, Flushers
      <4>4. ASSUME NEW x \in (Held(b) \ X) \cup {e}, NEW y \in (Held(b) \ X) \cup {e}, x.q = y.q
            PROVE  x = y
        <5>1. \A z \in Held(b) : z.q # e.q
              BY <3>1 DEF Queries
        <5> QED
            BY <3>1, <4>4, <5>1 DEF Counting
      <4>5. Queries((Held(b) \ X) \cup {e}) = reported'[b] \ lost'[b]
        <5>1. X \subseteq Held(b)
              BY DEF Held
        <5>2. \A q : q \in Queries(Held(b) \ X) <=> q \in Queries(Held(b)) /\ q \notin Queries(X)
              BY <3>1, <5>1 DEF Queries, Counting
        <5>3. Queries((Held(b) \ X) \cup {e}) = Queries(Held(b) \ X) \cup {e.q}
              BY DEF Queries
        <5>4. e.q \notin Queries(X) /\ e.q \notin lost[b]
              BY <1>1, <3>1, <5>1 DEF Queries, Counting
        <5>5. Queries(Held(b)) = reported[b] \ lost[b]
              BY <3>1 DEF Counting
        <5> QED
            BY <3>1, <4>1, <5>2, <5>3, <5>4, <5>5
      <4>6. lost'[b] \subseteq reported'[b]
        <5>1. Queries(X) \subseteq Queries(Held(b))
              BY DEF Queries, Held
        <5> QED
            BY <3>1, <4>1, <5>1 DEF Counting
      <4> QED
          BY <2>2, <4>2, <4>3, <4>4, <4>5, <4>6 DEF Counting
    <3> QED
        BY <1>2, <3>3, <3>4
  <2> QED
      BY <2>1, <2>2
<1>8. Stopping'
      BY <1>0 DEF StatInv, Stopping
<1> QED
    BY <1>5, <1>6, <1>7, <1>8 DEF StatInv

(* A step in which the adds only move or are dropped.                      *)
LEMMA MoveKeeps ==
  ASSUME StatInv, Typed', Waiting', Stopping', UNCHANGED reported,
         \A b \in Buffers : /\ Apart(b)' /\ Held(b)' \subseteq Held(b)
                            /\ lost'[b] = lost[b] \cup Queries(Held(b) \ Held(b)')
  PROVE  StatInv'
<1>1. ASSUME NEW b \in Buffers PROVE Counting(b)'
      BY CountingMoves DEF StatInv
<1> QED
    BY <1>1 DEF StatInv

(* A step that leaves the adds where they are.                             *)
LEMMA StaysKeeps ==
  ASSUME StatInv, Typed', Waiting', Stopping',
         UNCHANGED <<data, stored, flight, reported, lost>>
  PROVE  StatInv'
<1>1. ASSUME NEW b \in Buffers PROVE Counting(b)'
      BY CountingSame DEF StatInv
<1> QED
    BY <1>1 DEF StatInv

(* A buffer becomes a snapshot, on the timer thread or on main.            *)
LEMMA SwapKeeps ==
  ASSUME StatInv, NEW b \in Buffers, NEW f \in Flushers, Swap(b, f),
         f = "main" => stopAt \in 1..7 /\ b = StopOrder[stopAt],
         UNCHANGED <<clockVars, threadVars, stored, stopAt, stops, history>>
  PROVE  StatInv'
<1>1. /\ flight[b][f] = {} /\ flight' = [flight EXCEPT ![b][f] = data[b]]
      /\ data' = [data EXCEPT ![b] = {}]
      /\ UNCHANGED <<asked, hour, query, route, stamp, stored, stopAt, stops>>
      /\ UNCHANGED <<reported, lost, late>>
      BY DEF Swap, clockVars, threadVars, history
<1>2. Typed'
      BY <1>1 DEF StatInv, Typed
<1>3. Waiting'
      BY <1>1, WaitingSame DEF StatInv
<1>4. Stopping'
  <2> SUFFICES ASSUME NEW c \in Buffers, flight'[c]["main"] # {}
               PROVE  stopAt \in 1..7 /\ c = StopOrder[stopAt]
      BY <1>1 DEF Stopping
  <2>1. CASE c = b /\ f = "main"
        BY <2>1
  <2>2. CASE ~(c = b /\ f = "main")
    <3>1. flight'[c]["main"] = flight[c]["main"]
          BY <1>1, <2>2 DEF StatInv, Typed, Flushers
    <3> QED
        BY <3>1 DEF StatInv, Stopping
  <2> QED
      BY <2>1, <2>2
<1>5. ASSUME NEW c \in Buffers
      PROVE  Apart(c)' /\ Held(c)' = Held(c)
  <2>1. CASE c # b
    <3>1. data'[c] = data[c] /\ flight'[c] = flight[c] /\ stored'[c] = stored[c]
          BY <1>1, <2>1 DEF StatInv, Typed
    <3> QED
        BY <3>1 DEF StatInv, Counting, Apart, Held
  <2>2. CASE c = b
    <3>1. /\ data'[b] = {} /\ stored'[b] = stored[b]
          /\ flight'[b][f] = data[b] /\ \A g \in Flushers \ {f} : flight'[b][g] = flight[b][g]
          BY <1>1 DEF StatInv, Typed
    <3>2. Apart(b)
          BY DEF StatInv, Counting
    <3> QED
        BY <1>1, <2>2, <3>1, <3>2 DEF Apart, Held, Flushers
  <2> QED
      BY <2>1, <2>2
<1>6. \A c \in Buffers : lost'[c] = lost[c] \cup Queries(Held(c) \ Held(c)')
      BY <1>1, <1>5 DEF Queries
<1> QED
    BY <1>1, <1>2, <1>3, <1>4, <1>5, <1>6, MoveKeeps

(* The record_... functions keep some of the rows and add none.            *)
LEMMA RecordWithin ==
  ASSUME NEW b \in Buffers, NEW all, NEW K, NEW edge
  PROVE  Record(b, all, K, edge) \subseteq all
<1>1. b \in {"queries", "stats", "requests", "events", "foreign", "uncached", "outcomes"}
      BY DEF Buffers, StopOrder
<1> QED
    BY <1>1 DEF Record, record_queries, record_client_requests, record_client_stats,
                record_cache_outcomes, record_query_events, record_foreign_clients,
                record_uncacheable, Purged, Trimmed

(* The snapshot of a flusher leaves memory: kept are the adds that the     *)
(* table has afterwards, which are all it had when the write fails.        *)
LEMMA WrittenKeeps ==
  ASSUME StatInv, NEW b \in Buffers, NEW f \in Flushers, flight[b][f] # {},
         NEW kept \in SUBSET (stored[b] \cup flight[b][f]),
         stored' = [stored EXCEPT ![b] = kept],
         flight' = [flight EXCEPT ![b][f] = {}],
         Drop(b, (stored[b] \cup flight[b][f]) \ kept),
         stopAt' = IF f = "main" THEN stopAt + 1 ELSE stopAt,
         UNCHANGED <<clockVars, threadVars, data, stops, reported, late>>
  PROVE  StatInv'
<1>1. UNCHANGED <<asked, hour, query, route, stamp, data, stops, reported, late>>
      BY DEF clockVars, threadVars
<1>d. PICK D : D = (stored[b] \cup flight[b][f]) \ kept
      OBVIOUS
<1>2. lost' = [lost EXCEPT ![b] = lost[b] \cup Queries(D)] /\ D \subseteq Held(b)
      BY <1>d DEF Drop, Held, Flushers, StatInv, Typed
<1>3. Queries(D) \subseteq Nat
      BY <1>d DEF StatInv, Typed, Add, Queries
<1>4. Typed'
  <2>1. lost' \in [Buffers -> SUBSET Nat]
        BY <1>2, <1>3 DEF StatInv, Typed
  <2>2. stored' \in [Buffers -> SUBSET Add] /\ flight' \in [Buffers -> [Flushers -> SUBSET Add]]
        BY DEF StatInv, Typed
  <2>3. stopAt' \in 0..8
    <3>1. CASE f = "main"
      <4>1. stopAt \in 1..7
            BY <3>1 DEF StatInv, Stopping
      <4> QED
          BY <3>1, <4>1
    <3>2. CASE f # "main"
          BY <3>2 DEF StatInv, Typed
    <3> QED
        BY <3>1, <3>2
  <2> QED
      BY <1>1, <2>1, <2>2, <2>3 DEF StatInv, Typed
<1>5. Waiting'
      BY <1>1, WaitingSame DEF StatInv
<1>6. Stopping'
  <2> SUFFICES ASSUME NEW c \in Buffers, flight'[c]["main"] # {}
               PROVE  stopAt' \in 1..7 /\ c = StopOrder[stopAt']
      BY DEF Stopping
  <2>1. flight[c]["main"] # {} /\ ~(c = b /\ f = "main")
        BY DEF StatInv, Typed, Flushers
  <2>2. stopAt \in 1..7 /\ c = StopOrder[stopAt]
        BY <2>1 DEF StatInv, Stopping
  <2>3. f # "main"
        BY <2>1, <2>2 DEF StatInv, Stopping
  <2> QED
      BY <2>2, <2>3
<1>7. ASSUME NEW c \in Buffers
      PROVE  /\ Apart(c)' /\ Held(c)' \subseteq Held(c)
             /\ lost'[c] = lost[c] \cup Queries(Held(c) \ Held(c)')
  <2>1. CASE c # b
    <3>1. /\ data'[c] = data[c] /\ flight'[c] = flight[c] /\ stored'[c] = stored[c]
          /\ lost'[c] = lost[c]
          BY <1>1, <1>2, <2>1 DEF StatInv, Typed
    <3>2. Held(c)' = Held(c)
          BY <3>1 DEF Held
    <3> QED
        BY <3>1, <3>2 DEF StatInv, Counting, Apart, Queries
  <2>2. CASE c = b
    <3>1. /\ data'[b] = data[b] /\ stored'[b] = kept /\ lost'[b] = lost[b] \cup Queries(D)
          /\ flight'[b][f] = {} /\ \A g \in Flushers \ {f} : flight'[b][g] = flight[b][g]
          BY <1>1, <1>2 DEF StatInv, Typed
    <3>2. Apart(b)
          BY DEF StatInv, Counting
    <3>3. Apart(b)' /\ Held(b)' \subseteq Held(b)
          BY <3>1, <3>2 DEF Apart, Held, Flushers
    <3>4. Held(b) \ Held(b)' = D
          BY <1>d, <3>1, <3>2 DEF Apart, Held, Flushers
    <3> QED
        BY <2>2, <3>1, <3>3, <3>4
  <2> QED
      BY <2>1, <2>2
<1> QED
    BY <1>1, <1>4, <1>5, <1>6, <1>7, MoveKeeps

(* What memory held is lost, what the tables hold is kept.                 *)
LEMMA EndKeeps ==
  ASSUME StatInv, End
  PROVE  StatInv'
<1>1. /\ data' = [c \in Buffers |-> {}]
      /\ flight' = [c \in Buffers |-> [f \in Flushers |-> {}]]
      /\ query' = [t \in Threads |-> 0] /\ route' = [t \in Threads |-> {}]
      /\ stamp' = [t \in Threads |-> -1] /\ stopAt' = 0
      /\ UNCHANGED <<asked, hour, stored, stops, reported, late>>
      BY DEF End, clockVars, tableVars, Everywhere, NoQuery, NoHour
<1>2. ASSUME NEW b \in Buffers
      PROVE  lost'[b] = lost[b] \cup Queries(data[b] \cup flight[b]["timer"] \cup flight[b]["main"])
  <2>1. lost'[b] = lost[b] \cup Queries(data[b]) \cup UNION {Queries(flight[b][f]) : f \in Flushers}
        BY DEF End
  <2>2. UNION {Queries(flight[b][f]) : f \in Flushers}
          = Queries(flight[b]["timer"]) \cup Queries(flight[b]["main"])
        BY DEF Flushers
  <2>3. Queries(data[b] \cup flight[b]["timer"] \cup flight[b]["main"])
          = Queries(data[b]) \cup Queries(flight[b]["timer"]) \cup Queries(flight[b]["main"])
        BY DEF Queries
  <2> QED
      BY <2>1, <2>2, <2>3
<1>3. lost' \in [Buffers -> SUBSET Nat]
  <2>1. ASSUME NEW b \in Buffers PROVE lost'[b] \in SUBSET Nat
    <3>1. /\ lost[b] \subseteq Nat /\ data[b] \subseteq Add
          /\ flight[b]["timer"] \subseteq Add /\ flight[b]["main"] \subseteq Add
          BY DEF StatInv, Typed, Flushers
    <3>2. Queries(data[b] \cup flight[b]["timer"] \cup flight[b]["main"]) \subseteq Nat
          BY <3>1 DEF Queries, Add
    <3> QED
        BY <1>2, <3>1, <3>2
  <2>2. lost' = [b \in Buffers |-> lost'[b]]
        BY DEF End
  <2> QED
      BY <2>1, <2>2
<1>4. Typed'
      BY <1>1, <1>3 DEF StatInv, Typed
<1>5. Waiting' /\ Stopping'
      BY <1>1 DEF Waiting, Stopping, Flushers
<1>6. ASSUME NEW b \in Buffers
      PROVE  /\ Apart(b)' /\ Held(b)' \subseteq Held(b)
             /\ lost'[b] = lost[b] \cup Queries(Held(b) \ Held(b)')
  <2>1. /\ data'[b] = {} /\ flight'[b]["timer"] = {} /\ flight'[b]["main"] = {}
        /\ stored'[b] = stored[b] /\ Apart(b)
        BY <1>1 DEF Flushers, StatInv, Counting
  <2>2. Held(b)' = stored[b]
        BY <2>1 DEF Held
  <2>3. Held(b) \ stored[b] = data[b] \cup flight[b]["timer"] \cup flight[b]["main"]
        BY <2>1 DEF Held, Apart, Flushers
  <2>4. Apart(b)'
        BY <2>1 DEF Apart, Flushers
  <2> QED
      BY <1>2, <2>2, <2>3, <2>4 DEF Held
<1> QED
    BY <1>1, <1>4, <1>5, <1>6, MoveKeeps

(* Deleted rows are lost.                                                  *)
LEMMA DeleteKeeps ==
  ASSUME StatInv, NEW gone, \A b \in Buffers : gone[b] \subseteq stored[b], Delete(gone)
  PROVE  StatInv'
<1>1. /\ UNCHANGED <<asked, hour, query, route, stamp, data, flight, stopAt, stops>>
      /\ UNCHANGED <<reported, late>>
      /\ stored' = [b \in Buffers |-> stored[b] \ gone[b]]
      /\ lost' = [b \in Buffers |-> lost[b] \cup Queries(gone[b])]
      BY DEF Delete, clockVars, threadVars
<1>2. lost' \in [Buffers -> SUBSET Nat]
  <2>1. \A b \in Buffers : Queries(gone[b]) \subseteq Nat
        BY DEF StatInv, Typed, Queries, Add
  <2> QED
      BY <1>1, <2>1 DEF StatInv, Typed
<1>3. stored' \in [Buffers -> SUBSET Add]
      BY <1>1 DEF StatInv, Typed
<1>4. Typed'
      BY <1>1, <1>2, <1>3 DEF StatInv, Typed
<1>5. Waiting' /\ Stopping'
      BY <1>1, WaitingSame DEF StatInv, Stopping
<1>6. ASSUME NEW b \in Buffers
      PROVE  /\ Apart(b)' /\ Held(b)' \subseteq Held(b)
             /\ lost'[b] = lost[b] \cup Queries(Held(b) \ Held(b)')
  <2>1. /\ data'[b] = data[b] /\ flight'[b] = flight[b] /\ stored'[b] = stored[b] \ gone[b]
        /\ lost'[b] = lost[b] \cup Queries(gone[b]) /\ Apart(b)
        BY <1>1 DEF StatInv, Counting
  <2>2. Apart(b)' /\ Held(b)' \subseteq Held(b)
        BY <2>1 DEF Apart, Held
  <2>3. Held(b) \ Held(b)' = gone[b]
        BY <2>1 DEF Apart, Held, Flushers
  <2> QED
      BY <2>1, <2>2, <2>3
<1> QED
    BY <1>1, <1>4, <1>5, <1>6, MoveKeeps

(* A new query is none of those reported.                                  *)
LEMMA ArriveKeeps ==
  ASSUME StatInv, NEW t \in Threads, NEW L \in Lookups, Arrive(t, L)
  PROVE  StatInv'
<1>1. /\ asked' = Append(asked, L) /\ query' = [query EXCEPT ![t] = Len(asked) + 1]
      /\ route' = [route EXCEPT ![t] = Reports(L) \cap Watched]
      /\ UNCHANGED <<hour, stamp, data, flight, stored, stopAt, stops>>
      /\ UNCHANGED <<reported, lost, late>>
      BY DEF Arrive, tableVars, bounds, history
<1>2. /\ asked \in Seq(Lookups) /\ Len(asked) \in Nat /\ Len(asked') = Len(asked) + 1
      /\ asked' \in Seq(Lookups) /\ asked'[Len(asked) + 1] = L
      /\ \A q \in 1..Len(asked) : asked'[q] = asked[q]
      BY <1>1 DEF StatInv, Typed
<1>3. Typed'
  <2>1. reported' \in [Buffers -> SUBSET (1..Len(asked'))]
        BY <1>1, <1>2 DEF StatInv, Typed
  <2>2. query' \in [Threads -> Nat] /\ route' \in [Threads -> SUBSET Buffers]
        BY <1>1, <1>2, BufferAssumption DEF StatInv, Typed
  <2> QED
      BY <1>1, <1>2, <2>1, <2>2 DEF StatInv, Typed
<1>4. Waiting'
  <2> SUFFICES ASSUME NEW u \in Threads, NEW c \in route'[u]
               PROVE  /\ query'[u] \in 1..Len(asked') /\ query'[u] \notin reported[c]
                      /\ c \in Reports(asked'[query'[u]])
                      /\ \A v \in Threads \ {u} : c \in route'[v] => query'[v] # query'[u]
      BY <1>1 DEF Waiting
  <2>1. /\ \A v \in Threads \ {t} : query'[v] = query[v] /\ route'[v] = route[v]
        /\ query'[t] = Len(asked) + 1 /\ route'[t] \subseteq Reports(L)
        /\ c \in Buffers
        BY <1>1, <1>3 DEF StatInv, Typed
  <2>2. reported[c] \subseteq 1..Len(asked)
        BY <2>1 DEF StatInv, Typed
  <2>3. \A v \in Threads \ {t} : c \in route[v] => query[v] \in 1..Len(asked)
        BY DEF StatInv, Waiting
  <2>4. CASE u = t
    <3>1. query'[u] = Len(asked) + 1 /\ c \in Reports(L)
          BY <2>1, <2>4
    <3>2. \A v \in Threads \ {u} : c \in route'[v] => query'[v] # query'[u]
          BY <1>2, <2>1, <2>3, <2>4
    <3>3. Len(asked) + 1 \notin reported[c] /\ Len(asked) + 1 \in 1..Len(asked')
          BY <1>2, <2>2
    <3> QED
        BY <1>2, <3>1, <3>2, <3>3
  <2>5. CASE u # t
    <3>1. /\ query'[u] = query[u] /\ c \in route[u] /\ query[u] \in 1..Len(asked)
          /\ query[u] \notin reported[c] /\ c \in Reports(asked[query[u]])
          /\ \A v \in Threads \ {u} : c \in route[v] => query[v] # query[u]
          BY <2>1, <2>5 DEF StatInv, Waiting
    <3>2. asked'[query'[u]] = asked[query[u]]
          BY <1>2, <3>1
    <3>3. \A v \in Threads \ {u} : c \in route'[v] => query'[v] # query'[u]
      <4> SUFFICES ASSUME NEW v \in Threads \ {u}, c \in route'[v]
                   PROVE  query'[v] # query'[u]
          OBVIOUS
      <4>1. CASE v = t
            BY <1>2, <2>1, <3>1, <4>1
      <4>2. CASE v # t
            BY <2>1, <3>1, <4>2
      <4> QED
          BY <4>1, <4>2
    <3>4. query[u] \in 1..Len(asked')
          BY <1>2, <3>1
    <3> QED
        BY <3>1, <3>2, <3>3, <3>4
  <2> QED
      BY <2>4, <2>5
<1>5. Stopping'
      BY <1>1 DEF StatInv, Stopping
<1> QED
    BY <1>1, <1>3, <1>4, <1>5, StaysKeeps

LEMMA NextKeeps ==
  ASSUME StatInv, [Next]_vars
  PROVE  StatInv'
<1> USE BufferAssumption
<1>1. ASSUME NEW t \in Threads, ReadClock(t) PROVE StatInv'
  <2>1. /\ stamp' = [stamp EXCEPT ![t] = hour]
        /\ UNCHANGED <<asked, hour, query, route, data, flight, stored, stopAt, stops>>
        /\ UNCHANGED <<reported, lost, late>>
        BY <1>1 DEF ReadClock, clockVars, tableVars, bounds, history
  <2>2. Typed'
        BY <2>1 DEF StatInv, Typed
  <2>3. Waiting' /\ Stopping'
        BY <2>1, WaitingSame DEF StatInv, Stopping
  <2> QED
      BY <2>1, <2>2, <2>3, StaysKeeps
<1>2. CASE Tick
  <2>1. /\ hour' = hour + 1
        /\ UNCHANGED <<asked, query, route, stamp, data, flight, stored, stopAt, stops>>
        /\ UNCHANGED <<reported, lost, late>>
        BY <1>2 DEF Tick, threadVars, tableVars, bounds, history
  <2>2. Typed'
        BY <2>1 DEF StatInv, Typed
  <2>3. Waiting' /\ Stopping'
        BY <2>1, WaitingSame DEF StatInv, Stopping
  <2> QED
      BY <2>1, <2>2, <2>3, StaysKeeps
<1>3. CASE UNCHANGED vars
  <2>1. /\ UNCHANGED <<asked, hour, query, route, stamp, data, flight, stored, stopAt, stops>>
        /\ UNCHANGED <<reported, lost, late>>
        BY <1>3 DEF vars, clockVars, threadVars, tableVars, bounds, history
  <2>2. Typed'
        BY <2>1 DEF StatInv, Typed
  <2>3. Waiting' /\ Stopping'
        BY <2>1, WaitingSame DEF StatInv, Stopping
  <2> QED
      BY <2>1, <2>2, <2>3, StaysKeeps
<1>4. ASSUME NEW b \in Buffers, NEW f \in Flushers, NEW K, NEW edge, Store(b, f, K, edge)
      PROVE  StatInv'
  <2>k. PICK kept : kept = Record(b, stored[b] \cup flight[b][f], K, edge)
        OBVIOUS
  <2>1. kept \in SUBSET (stored[b] \cup flight[b][f])
        BY <2>k, RecordWithin
  <2>2. /\ flight[b][f] # {} /\ stored' = [stored EXCEPT ![b] = kept]
        /\ flight' = [flight EXCEPT ![b][f] = {}]
        /\ Drop(b, (stored[b] \cup flight[b][f]) \ kept)
        /\ stopAt' = IF f = "main" THEN stopAt + 1 ELSE stopAt
        /\ UNCHANGED <<clockVars, threadVars, data, stops, reported, late>>
        BY <1>4, <2>k DEF Store, bounds
  <2> QED
      BY <2>1, <2>2, WrittenKeeps
<1>5. ASSUME NEW b \in Buffers, NEW f \in Flushers, StoreFails(b, f) PROVE StatInv'
  <2>1. /\ flight[b][f] # {} /\ flight' = [flight EXCEPT ![b][f] = {}]
        /\ Drop(b, flight[b][f]) /\ stored' = stored
        /\ stopAt' = IF f = "main" THEN stopAt + 1 ELSE stopAt
        /\ UNCHANGED <<clockVars, threadVars, data, stops, reported, late>>
        BY <1>5 DEF StoreFails, tableVars
  <2>2. stored' = [stored EXCEPT ![b] = stored[b]]
        BY <2>1 DEF StatInv, Typed
  <2>3. (stored[b] \cup flight[b][f]) \ stored[b] = flight[b][f]
        BY DEF StatInv, Counting, Apart
  <2> QED
      BY <2>1, <2>2, <2>3, WrittenKeeps
<1>6. CASE Interrupt
  <2>1. /\ stopAt = 0 /\ stopAt' = 1 /\ stops' = stops + 1
        /\ UNCHANGED <<asked, hour, query, route, stamp, data, flight, stored>>
        /\ UNCHANGED <<reported, lost, late>>
        BY <1>6 DEF Interrupt, clockVars, threadVars, tableVars, history
  <2>2. Typed'
        BY <2>1 DEF StatInv, Typed
  <2>3. Waiting' /\ Stopping'
        BY <2>1, WaitingSame DEF StatInv, Stopping
  <2> QED
      BY <2>1, <2>2, <2>3, StaysKeeps
<1>7. ASSUME NEW b \in Buffers, TimerSwap(b) PROVE StatInv'
  <2>1. /\ Swap(b, "timer")
        /\ UNCHANGED <<clockVars, threadVars, stored, stopAt, stops, history>>
        BY <1>7 DEF TimerSwap, tableVars, bounds
  <2> QED
      BY <2>1, SwapKeeps DEF Flushers
<1>8. CASE StopSwap
  <2>b. PICK b : b = StopOrder[stopAt]
        OBVIOUS
  <2>1. /\ stopAt \in 1..7
        /\ \/ Swap(b, "main") /\ UNCHANGED stopAt
           \/ /\ data[b] = {} /\ flight[b]["main"] = {}
              /\ stopAt' = stopAt + 1 /\ UNCHANGED <<data, flight>>
        /\ UNCHANGED <<clockVars, threadVars, tableVars, bounds, history>>
        BY <1>8, <2>b DEF StopSwap
  <2>2. b \in Buffers
        BY <2>1, <2>b DEF Buffers
  <2>3. /\ UNCHANGED <<clockVars, threadVars, stored, stops, history>>
        /\ UNCHANGED <<asked, hour, query, route, stamp, stored, stops>>
        /\ UNCHANGED <<reported, lost, late>>
        BY <2>1 DEF tableVars, bounds, clockVars, threadVars, history
  <2>4. CASE Swap(b, "main") /\ UNCHANGED stopAt
        BY <2>1, <2>2, <2>3, <2>4, <2>b, SwapKeeps DEF Flushers
  <2>5. CASE /\ data[b] = {} /\ flight[b]["main"] = {}
             /\ stopAt' = stopAt + 1 /\ UNCHANGED <<data, flight>>
    <3>1. Typed'
          BY <2>1, <2>3, <2>5 DEF StatInv, Typed
    <3>2. Waiting'
          BY <2>3, WaitingSame DEF StatInv
    <3>3. \A c \in Buffers : flight[c]["main"] = {}
          BY <2>5, <2>b DEF StatInv, Stopping
    <3>4. Stopping'
          BY <2>5, <3>3 DEF Stopping
    <3> QED
        BY <2>3, <2>5, <3>1, <3>2, <3>4, StaysKeeps
  <2> QED
      BY <2>1, <2>4, <2>5
<1>9. ASSUME NEW b \in Buffers, Timer(b) PROVE StatInv'
      BY <1>4, <1>7, <1>9 DEF Timer, Flushers
<1>10. CASE StopStore
  <2>1. stopAt \in 1..7 /\ StopOrder[stopAt] \in Buffers
        BY <1>10 DEF StopStore, Buffers
  <2> QED
      BY <1>4, <1>10, <2>1 DEF StopStore, Flushers
<1>11. ASSUME NEW gone, Delete(gone), \A b \in Buffers : gone[b] \subseteq stored[b]
       PROVE  StatInv'
       BY <1>11, DeleteKeeps
<1>12. ASSUME NEW b \in Buffers, DeleteAll(b) PROVE StatInv'
  <2>g. PICK gone : gone = [Everywhere({}) EXCEPT ![b] = stored[b]]
        OBVIOUS
  <2>1. Delete(gone) /\ \A c \in Buffers : gone[c] \subseteq stored[c]
        BY <1>12, <2>g DEF DeleteAll, Everywhere
  <2> QED
      BY <1>11, <2>1
<1>13. ASSUME NEW b \in Buffers, NEW k, DeleteRow(b, k) PROVE StatInv'
  <2>g. PICK gone : gone = [Everywhere({}) EXCEPT ![b] = {e \in stored[b] : Key(b, e) = k}]
        OBVIOUS
  <2>1. Delete(gone)
        BY <1>13, <2>g DEF DeleteRow
  <2>2. \A c \in Buffers : gone[c] \subseteq stored[c]
        BY <2>g DEF Everywhere
  <2> QED
      BY <1>11, <2>1, <2>2
<1>14. ASSUME NEW k, DeleteClient(k) PROVE StatInv'
  <2>g. PICK gone : gone = [b \in Buffers |->
                             IF b \notin {"stats", "requests", "queries"} THEN {}
                             ELSE {e \in stored[b] : asked[e.q].client = k
                                                      /\ asked[e.q].result # "foreign"}]
        OBVIOUS
  <2>1. Delete(gone)
        BY <1>14, <2>g DEF DeleteClient
  <2>2. \A c \in Buffers : gone[c] \subseteq stored[c]
        BY <2>g
  <2> QED
      BY <1>11, <2>1, <2>2
<1>15. CASE Deletes
       BY <1>12, <1>13, <1>14, <1>15 DEF Deletes
<1>16. CASE Next
       BY <1>1, <1>2, <1>3, <1>5, <1>6, <1>8, <1>9, <1>10, <1>15, <1>16, ArriveKeeps,
          ReportKeeps, EndKeeps
       DEF Next, FlushNothing, Main, Exit, Crash
<1> QED
    BY <1>3, <1>16

LEMMA InitKeeps == Init => StatInv
<1> SUFFICES ASSUME Init PROVE StatInv
    OBVIOUS
<1>1. Typed
      BY DEF Init, Typed, Everywhere, NoQuery, NoHour
<1>3. Waiting /\ Stopping
      BY DEF Init, Waiting, Stopping, Everywhere, Flushers
<1>2. ASSUME NEW b \in Buffers PROVE Counting(b)
      BY DEF Init, Counting, Apart, Held, Queries, Everywhere, Flushers
<1> QED
    BY <1>1, <1>2, <1>3 DEF StatInv

(* No step of a thread, of a timer, of main() or of a delete request       *)
(* breaks the invariant.                                                   *)
THEOREM StatInvariant == Spec => []StatInv
<1> QED
    BY InitKeeps, NextKeeps, PTL DEF Spec

-----------------------------------------------------------------------------
(* A query is counted in one place or in none.                             *)
LEMMA OnePlace ==
  ASSUME StatInv, NEW b \in Buffers, NEW q
  PROVE  Cardinality(Places(b, q)) = IF q \in reported[b] \ lost[b] THEN 1 ELSE 0
<1> DEFINE At(p) == CASE p = "data" -> data[b] [] p = "stored" -> stored[b]
                      [] OTHER -> flight[b][p]
           All == {"data", "stored", "timer", "main"}
<1>1. Places(b, q) = {p \in All : q \in Queries(At(p))}
      BY DEF Places, Flushers
<1>2. Held(b) = At("data") \cup At("stored") \cup At("timer") \cup At("main")
      BY DEF Held
<1>3. \A p, r \in All : p # r => At(p) \cap At(r) = {}
  <2>1. Apart(b)
        BY DEF StatInv, Counting
  <2> QED
      BY <2>1 DEF Apart, Flushers
<1> HIDE DEF At
<1>4. \A p \in All : At(p) \subseteq Held(b)
      BY <1>2
<1>5. \A p, r \in Places(b, q) : p = r
  <2> SUFFICES ASSUME NEW p \in Places(b, q), NEW r \in Places(b, q) PROVE p = r
      OBVIOUS
  <2>1. PICK d \in At(p) : d.q = q
        BY <1>1 DEF Queries
  <2>2. PICK e \in At(r) : e.q = q
        BY <1>1 DEF Queries
  <2>3. p \in All /\ r \in All
        BY <1>1
  <2>4. d = e
        BY <1>4, <2>1, <2>2, <2>3 DEF StatInv, Counting
  <2> QED
      BY <1>3, <2>1, <2>2, <2>3, <2>4
<1>6. Places(b, q) # {} <=> q \in reported[b] \ lost[b]
  <2>1. Places(b, q) # {} <=> q \in Queries(Held(b))
        BY <1>1, <1>2 DEF Queries
  <2> QED
      BY <2>1 DEF StatInv, Counting
<1>7. CASE Places(b, q) = {}
      BY <1>6, <1>7, FS_EmptySet
<1>8. CASE Places(b, q) # {}
  <2>1. PICK p : Places(b, q) = {p}
        BY <1>5, <1>8
  <2> QED
      BY <1>6, <1>8, <2>1, FS_Singleton
<1> QED
    BY <1>7, <1>8

(* Every reported query is counted in exactly one place, or is one of the  *)
(* lost: two flushes of the same buffer at the same time, failed writes,   *)
(* purges, trims, deletions, crashes and shutdowns never count one twice.  *)
THEOREM CountsTheorem == Spec => []CountedOnce
<1>1. StatInv => CountedOnce
      BY OnePlace DEF CountedOnce
<1> QED
    BY <1>1, StatInvariant, PTL

-----------------------------------------------------------------------------
(* What is left in a buffer after main() flushed it came too late.         *)
Leftover == \A b \in Buffers : Stopped(b) => Queries(data[b]) \subseteq late[b]

(* The buffers main() is done with, or waits for the write of.             *)
LEMMA StoppedSame ==
  ASSUME UNCHANGED <<flight, stopAt>>
  PROVE  \A b \in Buffers : Stopped(b)' <=> Stopped(b)
BY DEF Stopped

LEMMA LeftoverSame ==
  ASSUME Leftover, UNCHANGED late,
         \A b \in Buffers : data'[b] = data[b] \/ data'[b] = {},
         \A b \in Buffers : Stopped(b)' => Stopped(b) \/ data'[b] = {}
  PROVE  Leftover'
BY DEF Leftover, Queries

(* An add that comes after the flush of its buffer is recorded as late.    *)
LEMMA LeftoverReport ==
  ASSUME StatInv, Leftover, NEW t \in Threads, NEW b \in Buffers, Report(t, b)
  PROVE  Leftover'
<1>e. PICK e : e = [q |-> query[t], hour |-> stamp[t], at |-> Cardinality(reported[b]) + 1]
      OBVIOUS
<1>1. /\ late' = IF Stopped(b) THEN [late EXCEPT ![b] = late[b] \cup {e.q}] ELSE late
      /\ \/ data' = data
         \/ data' = [data EXCEPT ![b] = (data[b] \ Overflow(b)) \cup {e}]
      /\ UNCHANGED <<flight, stopAt>>
      BY <1>e DEF Report, StatInv, Typed
<1>2. ASSUME NEW c \in Buffers, Stopped(c)' PROVE Queries(data'[c]) \subseteq late'[c]
  <2>1. Stopped(c) /\ Queries(data[c]) \subseteq late[c]
        BY <1>1, <1>2, StoppedSame DEF Leftover
  <2>2. CASE c # b
    <3>1. data'[c] = data[c] /\ late'[c] = late[c]
          BY <1>1, <2>2 DEF StatInv, Typed
    <3> QED
        BY <2>1, <3>1
  <2>3. CASE c = b
    <3>1. late'[b] = late[b] \cup {e.q} /\ data'[b] \subseteq data[b] \cup {e}
          BY <1>1, <2>1, <2>3 DEF StatInv, Typed
    <3> QED
        BY <2>1, <2>3, <3>1 DEF Queries
  <2> QED
      BY <2>2, <2>3
<1> QED
    BY <1>2 DEF Leftover

LEMMA LeftoverSwap ==
  ASSUME StatInv, Leftover, NEW b \in Buffers, NEW f \in Flushers, Swap(b, f),
         UNCHANGED <<late, stopAt>>
  PROVE  Leftover'
<1>1. /\ data' = [data EXCEPT ![b] = {}] /\ flight' = [flight EXCEPT ![b][f] = data[b]]
      BY DEF Swap
<1>2. ASSUME NEW c \in Buffers
      PROVE  /\ data'[c] = data[c] \/ data'[c] = {}
             /\ Stopped(c)' => Stopped(c) \/ data'[c] = {}
  <2>1. CASE c = b
        BY <1>1, <2>1 DEF StatInv, Typed
  <2>2. CASE c # b
    <3>1. data'[c] = data[c] /\ flight'[c] = flight[c]
          BY <1>1, <2>2 DEF StatInv, Typed
    <3> QED
        BY <3>1 DEF Stopped
  <2> QED
      BY <2>1, <2>2
<1> QED
    BY <1>2, LeftoverSame

(* Main goes on to the next buffer when its write is over.                 *)
LEMMA LeftoverWritten ==
  ASSUME StatInv, Leftover, NEW b \in Buffers, NEW f \in Flushers, flight[b][f] # {},
         flight' = [flight EXCEPT ![b][f] = {}],
         stopAt' = IF f = "main" THEN stopAt + 1 ELSE stopAt,
         UNCHANGED <<data, late>>
  PROVE  Leftover'
<1>1. ASSUME NEW c \in Buffers, Stopped(c)' PROVE Stopped(c)
  <2>1. flight'[c]["main"] # {} => flight[c]["main"] # {}
        BY DEF StatInv, Typed, Flushers
  <2>2. CASE flight'[c]["main"] # {}
        BY <2>1, <2>2 DEF Stopped
  <2>3. CASE \E i \in 1..7 : StopOrder[i] = c /\ i < stopAt'
    <3>1. PICK i \in 1..7 : StopOrder[i] = c /\ i < stopAt'
          BY <2>3
    <3>2. CASE i < stopAt
          BY <3>1, <3>2 DEF Stopped
    <3>3. CASE ~(i < stopAt)
      <4>1. f = "main" /\ i = stopAt
            BY <3>1, <3>3 DEF StatInv, Typed
      <4>2. b = StopOrder[stopAt] /\ flight[b]["main"] # {}
            BY <4>1 DEF StatInv, Stopping
      <4> QED
          BY <3>1, <4>1, <4>2 DEF Stopped
    <3> QED
        BY <3>2, <3>3
  <2> QED
      BY <1>1, <2>2, <2>3 DEF Stopped
<1> QED
    BY <1>1, LeftoverSame

LEMMA LeftoverNext ==
  ASSUME StatInv, Leftover, [Next]_vars
  PROVE  Leftover'
<1> USE BufferAssumption
<1>1. ASSUME UNCHANGED <<data, late, flight, stopAt>> PROVE Leftover'
      BY <1>1, StoppedSame, LeftoverSame
<1>2. ASSUME NEW b \in Buffers, NEW f \in Flushers, NEW K, NEW edge,
             Store(b, f, K, edge) \/ StoreFails(b, f)
      PROVE  Leftover'
      BY <1>2, LeftoverWritten DEF Store, StoreFails
<1>3. ASSUME NEW b \in Buffers, Timer(b) PROVE Leftover'
  <2>1. CASE TimerSwap(b)
        BY <2>1, LeftoverSwap DEF TimerSwap, Flushers, history
  <2> QED
      BY <1>2, <1>3, <2>1 DEF Timer, Flushers
<1>4. CASE StopStore
  <2>1. stopAt \in 1..7 /\ StopOrder[stopAt] \in Buffers
        BY <1>4 DEF StopStore, Buffers
  <2> QED
      BY <1>2, <1>4, <2>1 DEF StopStore, Flushers
<1>5. CASE Interrupt
  <2>1. stopAt = 0 /\ stopAt' = 1 /\ UNCHANGED <<data, late, flight>>
        BY <1>5 DEF Interrupt, history
  <2>2. ASSUME NEW b \in Buffers PROVE ~Stopped(b)'
        BY <2>1 DEF StatInv, Stopping, Stopped
  <2> QED
      BY <2>2 DEF Leftover
<1>6. CASE StopSwap
  <2>b. PICK b : b = StopOrder[stopAt]
        OBVIOUS
  <2>1. /\ stopAt \in 1..7 /\ UNCHANGED late
        /\ \/ Swap(b, "main") /\ UNCHANGED stopAt
           \/ /\ data[b] = {} /\ flight[b]["main"] = {}
              /\ stopAt' = stopAt + 1 /\ UNCHANGED <<data, flight>>
        BY <1>6, <2>b DEF StopSwap, history
  <2>2. b \in Buffers
        BY <2>1, <2>b DEF Buffers
  <2>3. CASE Swap(b, "main") /\ UNCHANGED stopAt
        BY <2>1, <2>2, <2>3, LeftoverSwap DEF Flushers
  <2>4. CASE /\ data[b] = {} /\ flight[b]["main"] = {}
             /\ stopAt' = stopAt + 1 /\ UNCHANGED <<data, flight>>
    <3>1. ASSUME NEW c \in Buffers, Stopped(c)' PROVE Stopped(c) \/ data'[c] = {}
      <4>1. CASE c = b
            BY <2>4, <4>1
      <4>2. CASE c # b
            BY <2>1, <2>4, <2>b, <3>1, <4>2 DEF Stopped
      <4> QED
          BY <4>1, <4>2
    <3> QED
        BY <2>1, <2>4, <3>1, LeftoverSame
  <2> QED
      BY <2>1, <2>3, <2>4
<1>7. CASE End
      BY <1>7 DEF End, Leftover, Everywhere, Queries
<1>8. ASSUME NEW gone, Delete(gone) PROVE Leftover'
      BY <1>1, <1>8 DEF Delete
<1>9. CASE Deletes
      BY <1>8, <1>9 DEF Deletes, DeleteAll, DeleteRow, DeleteClient
<1>10. ASSUME NEW t \in Threads, (\E L \in Lookups : Arrive(t, L)) \/ ReadClock(t)
       PROVE  Leftover'
       BY <1>1, <1>10 DEF Arrive, ReadClock, history
<1>11. CASE Tick
       BY <1>1, <1>11 DEF Tick, history
<1>12. CASE UNCHANGED vars
       BY <1>1, <1>12 DEF vars, history
<1>13. CASE Next
       BY <1>2, <1>3, <1>4, <1>5, <1>6, <1>7, <1>9, <1>10, <1>11, <1>12, <1>13, LeftoverReport
       DEF Next, FlushNothing, Main, Exit, Crash
<1> QED
    BY <1>12, <1>13

(* At a clean exit a buffer holds nothing but what was added after main()  *)
(* had flushed it, whatever the timers and the server threads did.         *)
THEOREM ExitTheorem == Spec => []CleanExitFlushes
<1>1. Init => Leftover
      BY DEF Init, Leftover, Everywhere, Queries
<1>2. StatInv /\ Leftover => CleanExitFlushes
  <2> SUFFICES ASSUME StatInv, Leftover, stopAt = 8, NEW b \in Buffers
               PROVE  Queries(data[b]) \subseteq late[b]
      BY DEF CleanExitFlushes
  <2>1. Stopped(b)
        BY DEF Buffers, Stopped
  <2> QED
      BY <2>1 DEF Leftover
<1> QED
    BY <1>1, <1>2, StatInvariant, LeftoverNext, PTL DEF Spec

-----------------------------------------------------------------------------
(* last_action.  The adds of the query log are numbered in the order of    *)
(* the calls, and until a shutdown begins those of the table come before   *)
(* those of the snapshot, and these before those of the buffer.            *)
IsLast(a, adds, k, e) ==
  /\ e \in adds /\ QueryKey(a[e.q]) = k
  /\ \A d \in adds : QueryKey(a[d.q]) = k => d.at <= e.at

Numbered ==
  /\ \A q \in reported["queries"] : asked[q].result # "foreign"
  /\ \A e \in Held("queries") : e.at <= Cardinality(reported["queries"])
  /\ \A d, e \in Held("queries") : d.at = e.at => d = e

Sorted ==
  /\ stopAt = 0
  /\ \A s \in stored["queries"] : \A f \in flight["queries"]["timer"] : s.at < f.at
  /\ \A s \in stored["queries"] : \A d \in data["queries"] : s.at < d.at
  /\ \A f \in flight["queries"]["timer"] : \A d \in data["queries"] : f.at < d.at

Tracked ==
  \A k \in Keys("queries", stored["queries"]) :
    k \in DOMAIN last /\ \E e : IsLast(asked, stored["queries"], k, e) /\ last[k] = e.q

Current == stops = 0 => Sorted /\ Tracked
LastInv == Numbered /\ Current

(* The keys of the query log.                                              *)
LEMMA QueryKeys ==
  ASSUME NEW adds
  PROVE  Keys("queries", adds) = {QueryKey(asked[e.q]) : e \in adds}
BY DEF Keys, Key

(* Among adds numbered up to n there is a last one.                        *)
LEMMA HasLatest ==
  ASSUME NEW A, A # {}, NEW n \in Nat, \A e \in A : e.at \in Nat /\ e.at <= n
  PROVE  \E e \in A : \A d \in A : d.at <= e.at
<1> DEFINE R == OpToRel(<, Nat)
           S == {n - e.at : e \in A}
<1>1. IsWellFoundedOn(R, Nat)
      BY NatLessThanWellFounded
<1>2. \A x, y \in Nat : y < x => <<y, x>> \in R
      BY DEF OpToRel
<1> HIDE DEF R
<1>3. S \subseteq Nat /\ S # {}
      OBVIOUS
<1>4. PICK m \in S : \A y \in S : ~(<<y, m>> \in R)
  <2> HIDE DEF S
  <2> QED
      BY <1>1, <1>3, WFMin
<1>5. PICK e \in A : m = n - e.at
      OBVIOUS
<1>6. ASSUME NEW d \in A PROVE d.at <= e.at
  <2>1. n - d.at \in S /\ n - d.at \in Nat /\ m \in Nat
        BY <1>3
  <2>2. ~(n - d.at < m)
        BY <1>2, <1>4, <2>1
  <2> QED
      BY <1>5, <2>2
<1> QED
    BY <1>6

(* Every add has its number, and its query was reported.                   *)
LEMMA AtNumber ==
  ASSUME StatInv
  PROVE  \A e \in Held("queries") : e.at \in Nat /\ e.q \in reported["queries"]
<1>1. "queries" \in Buffers
      BY DEF Buffers, StopOrder
<1>2. Held("queries") \subseteq Add
      BY <1>1 DEF StatInv, Typed, Held, Flushers
<1>3. Queries(Held("queries")) \subseteq reported["queries"]
      BY <1>1 DEF StatInv, Counting
<1> QED
    BY <1>2, <1>3 DEF Add, Queries

(* The CHOOSE of Newest finds what it looks for.                           *)
LEMMA NewestIsLast ==
  ASSUME StatInv, Numbered, NEW A \in SUBSET Held("queries"), NEW k \in Keys("queries", A)
  PROVE  IsLast(asked, A, k, Newest(A, k))
<1> DEFINE B == {e \in A : QueryKey(asked[e.q]) = k}
<1>1. Cardinality(reported["queries"]) \in Nat
      BY ReportedFinite DEF StatInv, Buffers, StopOrder
<1>2. B # {} /\ \A e \in B : e.at \in Nat /\ e.at <= Cardinality(reported["queries"])
      BY QueryKeys, AtNumber DEF Numbered
<1>3. PICK e \in B : \A d \in B : d.at <= e.at
  <2> HIDE DEF B
  <2> QED
      BY <1>1, <1>2, HasLatest
<1>4. IsLast(asked, A, k, e)
      BY <1>3 DEF IsLast
<1> QED
    BY <1>4 DEF Newest, IsLast

(* Only one add is the last of its key.                                    *)
LEMMA LastUnique ==
  ASSUME StatInv, Numbered, NEW A \in SUBSET Held("queries"), NEW k, NEW d, NEW e,
         IsLast(asked, A, k, d), IsLast(asked, A, k, e)
  PROVE  d = e
<1>1. d.at <= e.at /\ e.at <= d.at /\ d.at \in Nat /\ e.at \in Nat
      BY AtNumber DEF IsLast
<1>2. d.at = e.at
      BY <1>1
<1> QED
    BY <1>2 DEF Numbered, IsLast

(* Steps that neither add to the query log's buffer nor change a query.    *)
LEMMA NumberedMoves ==
  ASSUME StatInv, Numbered, Held("queries")' \subseteq Held("queries"),
         reported'["queries"] = reported["queries"],
         \A q \in 1..Len(asked) : asked'[q] = asked[q]
  PROVE  Numbered'
<1>1. reported["queries"] \subseteq 1..Len(asked)
      BY DEF StatInv, Typed, Buffers, StopOrder
<1> QED
    BY <1>1 DEF Numbered

(* The rows of the table stay as they are.                                 *)
LEMMA CurrentStays ==
  ASSUME StatInv, Current, stops' = 0 => stops = 0 /\ stopAt' = 0,
         stored'["queries"] = stored["queries"], UNCHANGED last,
         data'["queries"] \subseteq data["queries"],
         flight'["queries"]["timer"] \subseteq flight["queries"]["timer"],
         \A q \in 1..Len(asked) : asked'[q] = asked[q]
  PROVE  Current'
<1> SUFFICES ASSUME stops' = 0 PROVE Sorted' /\ Tracked'
    BY DEF Current
<1>1. Sorted /\ Tracked /\ stopAt' = 0
      BY DEF Current
<1>2. Sorted'
      BY <1>1 DEF Sorted
<1>3. \A e \in stored["queries"] : asked'[e.q] = asked[e.q]
  <2>1. stored["queries"] \subseteq Held("queries")
        BY DEF Held
  <2>2. reported["queries"] \subseteq 1..Len(asked)
        BY DEF StatInv, Typed, Buffers, StopOrder
  <2> QED
      BY <2>1, <2>2, AtNumber
<1>4. ASSUME NEW k \in Keys("queries", stored["queries"])'
      PROVE  /\ k \in DOMAIN last'
             /\ \E e : IsLast(asked', stored'["queries"], k, e) /\ last'[k] = e.q
  <2>1. k \in {QueryKey(asked'[e.q]) : e \in stored'["queries"]}
        BY DEF Keys, Key
  <2>2. k \in Keys("queries", stored["queries"])
        BY <1>3, <2>1, QueryKeys
  <2>3. PICK e : IsLast(asked, stored["queries"], k, e) /\ last[k] = e.q
        BY <1>1, <2>2 DEF Tracked
  <2>4. IsLast(asked', stored'["queries"], k, e)
        BY <1>3, <2>3 DEF IsLast
  <2> QED
      BY <1>1, <2>2, <2>3, <2>4 DEF Tracked
<1> QED
    BY <1>2, <1>4 DEF Tracked

(* A new add has the greatest number.                                      *)
LEMMA LastReport ==
  ASSUME StatInv, LastInv, NEW t \in Threads, Report(t, "queries")
  PROVE  LastInv'
<1> DEFINE b == "queries"
           n == Cardinality(reported[b])
<1>b. b \in Buffers /\ b \notin Capped /\ b # "events"
      BY DEF Buffers, StopOrder, Capped
<1>e. PICK e : e = [q |-> query[t], hour |-> stamp[t], at |-> n + 1]
      OBVIOUS
<1>1. /\ b \in route[t] /\ reported'[b] = reported[b] \cup {e.q}
      /\ data'[b] = data[b] \cup {e}
      /\ UNCHANGED <<asked, flight, stored, last, stopAt, stops>>
  <2>1. /\ reported' = [reported EXCEPT ![b] = reported[b] \cup {e.q}] /\ b \in route[t]
        /\ UNCHANGED <<asked, flight, stored, last, stopAt, stops>>
        BY <1>e DEF Report, NextCall, clockVars, tableVars, bounds
  <2>2. ~Skips(b, e) /\ Overflow(b) = {}
        BY <1>b DEF Skips, Overflow
  <2>3. data' = [data EXCEPT ![b] = (data[b] \ Overflow(b)) \cup {e}]
        BY <1>e, <2>2 DEF Report
  <2> QED
      BY <1>b, <2>1, <2>2, <2>3 DEF StatInv, Typed
<1>2. /\ query[t] \in 1..Len(asked) /\ query[t] \notin reported[b]
      /\ b \in Reports(asked[query[t]])
      BY <1>1 DEF StatInv, Waiting
<1>3. asked[query[t]].result # "foreign"
      BY <1>2 DEF Reports
<1>4. IsFiniteSet(reported[b]) /\ n \in Nat
      BY <1>b, ReportedFinite DEF StatInv
<1>5. e.q = query[t] /\ e.at = n + 1
      BY <1>e
<1>6. Cardinality(reported'[b]) = n + 1
      BY <1>1, <1>2, <1>4, <1>5, FS_AddElement
<1>7. Held(b)' = Held(b) \cup {e}
      BY <1>1 DEF Held
<1>8. \A d \in Held(b) : d.at \in Nat /\ d.at <= n
      BY AtNumber DEF LastInv, Numbered
<1>9. Numbered'
  <2>1. \A q \in reported'[b] : asked'[q].result # "foreign"
        BY <1>1, <1>3, <1>5 DEF LastInv, Numbered
  <2>2. \A d \in Held(b)' : d.at <= Cardinality(reported'[b])
    <3> HIDE DEF n
    <3> QED
        BY <1>4, <1>5, <1>6, <1>7, <1>8
  <2>3. \A d \in Held(b) : d.at # e.at
    <3> HIDE DEF n
    <3> QED
        BY <1>4, <1>5, <1>8
  <2>4. \A c, d \in Held(b)' : c.at = d.at => c = d
        BY <1>7, <2>3 DEF LastInv, Numbered
  <2> QED
      BY <2>1, <2>2, <2>4 DEF Numbered
<1>10. Current'
  <2> SUFFICES ASSUME stops' = 0 PROVE Sorted' /\ Tracked'
      BY DEF Current
  <2>1. Sorted /\ Tracked
        BY <1>1 DEF LastInv, Current
  <2>2. \A d \in Held(b) : d.at < e.at
    <3> HIDE DEF n
    <3> QED
        BY <1>4, <1>5, <1>8
  <2>3. stored[b] \subseteq Held(b) /\ flight[b]["timer"] \subseteq Held(b)
        BY DEF Held
  <2>4. Sorted'
        BY <1>1, <2>1, <2>2, <2>3 DEF Sorted
  <2>5. Tracked'
        BY <1>1, <2>1 DEF Tracked, Keys, Key
  <2> QED
      BY <2>4, <2>5
<1> QED
    BY <1>9, <1>10 DEF LastInv

LEMMA LastSwap ==
  ASSUME StatInv, LastInv, NEW b \in Buffers, NEW f \in Flushers, Swap(b, f),
         stops = 0 => f = "timer",
         UNCHANGED <<asked, stored, last, stopAt, stops, reported>>
  PROVE  LastInv'
<1>q. "queries" \in Buffers
      BY DEF Buffers, StopOrder
<1>1. /\ flight[b][f] = {} /\ flight' = [flight EXCEPT ![b][f] = data[b]]
      /\ data' = [data EXCEPT ![b] = {}]
      BY DEF Swap
<1>2. CASE b # "queries"
  <2>1. data'["queries"] = data["queries"] /\ flight'["queries"] = flight["queries"]
        BY <1>1, <1>2, <1>q DEF StatInv, Typed
  <2>2. Held("queries")' = Held("queries")
        BY <2>1 DEF Held
  <2>3. stops' = 0 => stops = 0 /\ stopAt' = 0
        BY DEF LastInv, Current, Sorted
  <2> QED
      BY <2>1, <2>2, <2>3, NumberedMoves, CurrentStays DEF LastInv
<1>3. CASE b = "queries"
  <2>1. /\ data'["queries"] = {} /\ flight'["queries"][f] = data["queries"]
        /\ \A g \in Flushers \ {f} : flight'["queries"][g] = flight["queries"][g]
        BY <1>1, <1>3, <1>q DEF StatInv, Typed
  <2>2. Held("queries")' = Held("queries")
        BY <1>1, <1>3, <2>1 DEF Held, Flushers
  <2>3. Numbered'
        BY <2>2, NumberedMoves DEF LastInv
  <2>4. Current'
    <3> SUFFICES ASSUME stops' = 0 PROVE Sorted' /\ Tracked'
        BY DEF Current
    <3>1. Sorted /\ Tracked /\ f = "timer"
          BY DEF LastInv, Current
    <3>2. Sorted'
          BY <2>1, <3>1 DEF Sorted
    <3>3. Tracked'
          BY <3>1 DEF Tracked, Keys, Key
    <3> QED
        BY <3>2, <3>3
  <2> QED
      BY <2>3, <2>4 DEF LastInv
<1> QED
    BY <1>2, <1>3

(* The snapshot comes after what the table has, so its adds win.           *)
LEMMA LastStore ==
  ASSUME StatInv, LastInv, NEW b \in Buffers, NEW f \in Flushers, NEW K, NEW edge,
         Store(b, f, K, edge)
  PROVE  LastInv'
<1>q. "queries" \in Buffers
      BY DEF Buffers, StopOrder
<1>1. /\ flight[b][f] # {} /\ flight' = [flight EXCEPT ![b][f] = {}]
      /\ stored' = [stored EXCEPT ![b] = Record(b, stored[b] \cup flight[b][f], K, edge)]
      /\ last' = IF b = "queries" THEN Upsert(flight[b][f]) ELSE last
      /\ stopAt' = IF f = "main" THEN stopAt + 1 ELSE stopAt
      /\ UNCHANGED <<asked, data, stops, reported>>
      BY DEF Store, clockVars, bounds
<1>2. stops = 0 => f = "timer" /\ stopAt' = 0
      BY <1>1 DEF LastInv, Current, Sorted, StatInv, Stopping, Flushers
<1>3. CASE b # "queries"
  <2>1. /\ flight'["queries"] = flight["queries"] /\ stored'["queries"] = stored["queries"]
        /\ last' = last
        BY <1>1, <1>3, <1>q DEF StatInv, Typed
  <2>2. Held("queries")' = Held("queries")
        BY <1>1, <2>1 DEF Held
  <2> QED
      BY <1>1, <1>2, <2>1, <2>2, NumberedMoves, CurrentStays DEF LastInv
<1>4. CASE b = "queries"
  <2>1. Record("queries", stored[b] \cup flight[b][f], K, edge) = stored[b] \cup flight[b][f]
        BY DEF Record, record_queries
  <2>2. /\ stored'["queries"] = stored["queries"] \cup flight["queries"][f]
        /\ flight'["queries"][f] = {} /\ last' = Upsert(flight["queries"][f])
        /\ \A g \in Flushers \ {f} : flight'["queries"][g] = flight["queries"][g]
        BY <1>1, <1>4, <1>q, <2>1 DEF StatInv, Typed
  <2>3. Held("queries")' = Held("queries")
        BY <1>1, <2>2 DEF Held, Flushers
  <2>4. Numbered'
        BY <1>1, <2>3, NumberedMoves DEF LastInv
  <2>5. Current'
    <3> SUFFICES ASSUME stops' = 0 PROVE Sorted' /\ Tracked'
        BY DEF Current
    <3>1. Sorted /\ Tracked /\ f = "timer" /\ stopAt' = 0
          BY <1>1, <1>2 DEF LastInv, Current
    <3>2. Sorted'
          BY <1>1, <2>2, <3>1 DEF Sorted
    <3>s. PICK S : S = stored["queries"]
          OBVIOUS
    <3>f. PICK F : F = flight["queries"]["timer"]
          OBVIOUS
    <3>3. S \subseteq Held("queries") /\ F \subseteq Held("queries")
          BY <3>s, <3>f DEF Held
    <3>4. \A d \in Held("queries") : d.at \in Nat
          BY AtNumber
    <3>5. \A s \in S : \A d \in F : s.at < d.at
          BY <3>1, <3>s, <3>f DEF Sorted
    <3>6. /\ stored'["queries"] = S \cup F
          /\ last' = [k \in DOMAIN last \cup Keys("queries", F) |->
                        IF k \in Keys("queries", F) THEN Newest(F, k).q ELSE last[k]]
          BY <2>2, <3>1, <3>s, <3>f DEF Upsert
    <3>7. ASSUME NEW k \in Keys("queries", S \cup F)
          PROVE  /\ k \in DOMAIN last'
                 /\ \E e : IsLast(asked, S \cup F, k, e) /\ last'[k] = e.q
      <4>1. CASE k \in Keys("queries", F)
        <5>e. PICK e : e = Newest(F, k)
              OBVIOUS
        <5>1. IsLast(asked, F, k, e)
              BY <3>3, <4>1, <5>e, NewestIsLast DEF LastInv
        <5>2. ASSUME NEW s \in S PROVE s.at <= e.at
              BY <3>3, <3>4, <3>5, <5>1 DEF IsLast
        <5>3. IsLast(asked, S \cup F, k, e)
              BY <5>1, <5>2 DEF IsLast
        <5>4. k \in DOMAIN last' /\ last'[k] = e.q
              BY <3>6, <4>1, <5>e
        <5> QED
            BY <5>3, <5>4
      <4>2. CASE k \notin Keys("queries", F)
        <5>1. k \in Keys("queries", S) /\ \A d \in F : QueryKey(asked[d.q]) # k
              BY <4>2, QueryKeys
        <5>2. PICK e : IsLast(asked, S, k, e) /\ last[k] = e.q
              BY <3>1, <3>s, <5>1 DEF Tracked
        <5>3. k \in DOMAIN last
              BY <3>1, <3>s, <5>1 DEF Tracked
        <5>4. IsLast(asked, S \cup F, k, e)
              BY <5>1, <5>2 DEF IsLast
        <5>5. k \in DOMAIN last' /\ last'[k] = e.q
              BY <3>6, <4>2, <5>2, <5>3
        <5> QED
            BY <5>4, <5>5
      <4> QED
          BY <4>1, <4>2
    <3>8. Keys("queries", stored["queries"])' = Keys("queries", S \cup F)
          BY <1>1, <3>6 DEF Keys, Key
    <3>9. Tracked'
          BY <1>1, <3>6, <3>7, <3>8 DEF Tracked
    <3> QED
        BY <3>2, <3>9
  <2> QED
      BY <2>4, <2>5 DEF LastInv
<1> QED
    BY <1>3, <1>4

LEMMA LastShrinks ==
  ASSUME StatInv, LastInv, UNCHANGED <<asked, stored, last, stops, reported>>,
         stops = 0 => stopAt' = 0,
         data'["queries"] \subseteq data["queries"],
         \A f \in Flushers : flight'["queries"][f] \subseteq flight["queries"][f]
  PROVE  LastInv'
<1>1. Held("queries")' \subseteq Held("queries")
      BY DEF Held, Flushers
<1>2. flight'["queries"]["timer"] \subseteq flight["queries"]["timer"]
      BY DEF Flushers
<1> QED
    BY <1>1, <1>2, NumberedMoves, CurrentStays DEF LastInv

(* Rows are deleted key by key: none of the adds of a remaining key is.    *)
LEMMA LastDelete ==
  ASSUME StatInv, LastInv, NEW gone, Delete(gone), gone["queries"] \subseteq stored["queries"],
         \A d \in stored["queries"] : \A e \in gone["queries"] :
           QueryKey(asked[d.q]) = QueryKey(asked[e.q]) => d \in gone["queries"]
  PROVE  LastInv'
<1>q. "queries" \in Buffers
      BY DEF Buffers, StopOrder
<1>s. PICK S : S = stored["queries"]
      OBVIOUS
<1>g. PICK G : G = gone["queries"]
      OBVIOUS
<1>1. /\ stored'["queries"] = S \ G
      /\ last' = [k \in DOMAIN last \ Keys("queries", G) |-> last[k]]
      /\ UNCHANGED <<asked, data, flight, stopAt, stops, reported>>
      BY <1>q, <1>s, <1>g DEF Delete, clockVars
<1>2. Held("queries")' \subseteq Held("queries")
      BY <1>1, <1>s DEF Held
<1>3. Numbered'
      BY <1>1, <1>2, NumberedMoves DEF LastInv
<1>4. Current'
  <2> SUFFICES ASSUME stops' = 0 PROVE Sorted' /\ Tracked'
      BY DEF Current
  <2>1. Sorted /\ Tracked
        BY <1>1 DEF LastInv, Current
  <2>2. Sorted'
        BY <1>1, <1>s, <2>1 DEF Sorted
  <2>3. ASSUME NEW k \in Keys("queries", S \ G)
        PROVE  k \in DOMAIN last' /\ \E e : IsLast(asked, S \ G, k, e) /\ last'[k] = e.q
    <3>1. PICK d \in S \ G : k = QueryKey(asked[d.q])
          BY QueryKeys
    <3>2. \A e \in G : QueryKey(asked[e.q]) # k
          BY <1>s, <1>g, <3>1
    <3>3. k \notin Keys("queries", G) /\ k \in Keys("queries", S)
          BY <3>1, <3>2, QueryKeys
    <3>4. PICK e : IsLast(asked, S, k, e) /\ last[k] = e.q
          BY <1>s, <2>1, <3>3 DEF Tracked
    <3>5. k \in DOMAIN last
          BY <1>s, <2>1, <3>3 DEF Tracked
    <3>6. IsLast(asked, S \ G, k, e)
          BY <3>2, <3>4 DEF IsLast
    <3>7. k \in DOMAIN last' /\ last'[k] = last[k]
          BY <1>1, <3>3, <3>5
    <3> QED
        BY <3>4, <3>6, <3>7
  <2>4. Keys("queries", stored["queries"])' = Keys("queries", S \ G)
        BY <1>1 DEF Keys, Key
  <2>5. Tracked'
        BY <1>1, <2>3, <2>4 DEF Tracked
  <2> QED
      BY <2>2, <2>5
<1> QED
    BY <1>3, <1>4 DEF LastInv

LEMMA LastNext ==
  ASSUME StatInv, LastInv, [Next]_vars
  PROVE  LastInv'
<1> USE BufferAssumption
<1>q. "queries" \in Buffers
      BY DEF Buffers, StopOrder
<1>0. ASSUME UNCHANGED <<data, flight, stored, last, reported>>,
             stops' = 0 => stops = 0 /\ stopAt' = 0,
             \A q \in 1..Len(asked) : asked'[q] = asked[q]
      PROVE  LastInv'
  <2>1. Held("queries")' = Held("queries")
        BY <1>0 DEF Held
  <2> QED
      BY <1>0, <2>1, NumberedMoves, CurrentStays DEF LastInv
<1>s. stops = 0 => stopAt = 0
      BY DEF LastInv, Current, Sorted
<1>1. ASSUME NEW t \in Threads, NEW L \in Lookups, Arrive(t, L) PROVE LastInv'
  <2>1. /\ asked' = Append(asked, L)
        /\ UNCHANGED <<data, flight, stored, last, reported, stops, stopAt>>
        BY <1>1 DEF Arrive, tableVars, history, bounds
  <2>2. \A q \in 1..Len(asked) : asked'[q] = asked[q]
        BY <2>1 DEF StatInv, Typed
  <2> QED
      BY <1>0, <1>s, <2>1, <2>2
<1>2. ASSUME NEW t \in Threads, ReadClock(t) PROVE LastInv'
      BY <1>0, <1>2, <1>s DEF ReadClock, clockVars, tableVars, history, bounds
<1>3. CASE Tick
      BY <1>0, <1>3, <1>s DEF Tick, tableVars, history, bounds
<1>4. CASE UNCHANGED vars
      BY <1>0, <1>4, <1>s DEF vars, clockVars, tableVars, history, bounds
<1>5. CASE Interrupt
  <2>1. /\ UNCHANGED <<asked, data, flight, stored, last, reported>> /\ stops' = stops + 1
        BY <1>5 DEF Interrupt, clockVars, tableVars, history
  <2>2. stops' # 0
        BY <2>1 DEF StatInv, Typed
  <2> QED
      BY <1>0, <2>1, <2>2
<1>6. ASSUME NEW t \in Threads, NEW b \in Buffers, Report(t, b) PROVE LastInv'
  <2>1. CASE b = "queries"
        BY <1>6, <2>1, LastReport
  <2>2. CASE b # "queries"
    <3>1. /\ reported'["queries"] = reported["queries"] /\ data'["queries"] = data["queries"]
          /\ UNCHANGED <<asked, flight, stored, last, stopAt, stops>>
          BY <1>6, <1>q, <2>2 DEF Report, clockVars, tableVars, bounds, StatInv, Typed
    <3>2. Held("queries")' = Held("queries")
          BY <3>1 DEF Held
    <3> QED
        BY <1>s, <3>1, <3>2, NumberedMoves, CurrentStays DEF LastInv
  <2> QED
      BY <2>1, <2>2
<1>7. ASSUME NEW b \in Buffers, TimerSwap(b) PROVE LastInv'
  <2>1. UNCHANGED <<asked, stored, last, stopAt, stops, reported>> /\ Swap(b, "timer")
        BY <1>7 DEF TimerSwap, clockVars, tableVars, history, bounds
  <2> QED
      BY <2>1, LastSwap DEF Flushers
<1>8. ASSUME NEW b \in Buffers, Timer(b) PROVE LastInv'
      BY <1>7, <1>8, LastStore DEF Timer, Flushers
<1>9. ASSUME NEW b \in Buffers, NEW f \in Flushers, StoreFails(b, f) PROVE LastInv'
  <2>1. /\ UNCHANGED <<asked, stored, last, stops, reported, data>>
        /\ flight[b][f] # {} /\ flight' = [flight EXCEPT ![b][f] = {}]
        /\ stopAt' = IF f = "main" THEN stopAt + 1 ELSE stopAt
        BY <1>9 DEF StoreFails, clockVars, tableVars
  <2>2. stops = 0 => stopAt' = 0
        BY <1>s, <2>1 DEF StatInv, Stopping, Flushers
  <2>3. \A g \in Flushers : flight'["queries"][g] \subseteq flight["queries"][g]
        BY <1>q, <2>1 DEF StatInv, Typed
  <2> QED
      BY <2>1, <2>2, <2>3, LastShrinks
<1>10. CASE StopSwap
  <2>b. PICK b : b = StopOrder[stopAt]
        OBVIOUS
  <2>1. /\ stopAt \in 1..7 /\ UNCHANGED <<asked, stored, last, stops, reported>>
        /\ \/ Swap(b, "main") /\ UNCHANGED stopAt
           \/ /\ data[b] = {} /\ flight[b]["main"] = {}
              /\ stopAt' = stopAt + 1 /\ UNCHANGED <<data, flight>>
        BY <1>10, <2>b DEF StopSwap, clockVars, tableVars, bounds, history
  <2>2. b \in Buffers /\ stops # 0
        BY <1>s, <2>1, <2>b DEF Buffers
  <2>3. CASE Swap(b, "main") /\ UNCHANGED stopAt
        BY <2>1, <2>2, <2>3, LastSwap DEF Flushers
  <2>4. CASE UNCHANGED <<data, flight>>
        BY <1>0, <2>1, <2>2, <2>4
  <2> QED
      BY <2>1, <2>3, <2>4
<1>11. CASE StopStore
  <2>1. StopOrder[stopAt] \in Buffers
        BY <1>11 DEF StopStore, Buffers
  <2> QED
      BY <1>11, <2>1, LastStore DEF StopStore, Flushers
<1>12. CASE End
  <2>1. /\ UNCHANGED <<asked, stored, last, stops, reported>> /\ stopAt' = 0
        /\ data' = [b \in Buffers |-> {}]
        /\ flight' = [b \in Buffers |-> [f \in Flushers |-> {}]]
        BY <1>12 DEF End, clockVars, tableVars, Everywhere
  <2>2. data'["queries"] = {} /\ \A f \in Flushers : flight'["queries"][f] = {}
        BY <1>q, <2>1
  <2> QED
      BY <2>1, <2>2, LastShrinks
<1>13. ASSUME NEW b \in Buffers, DeleteAll(b) PROVE LastInv'
  <2>g. PICK gone : gone = [Everywhere({}) EXCEPT ![b] = stored[b]]
        OBVIOUS
  <2>1. Delete(gone)
        BY <1>13, <2>g DEF DeleteAll
  <2>2. gone["queries"] = {} \/ gone["queries"] = stored["queries"]
        BY <1>q, <2>g DEF Everywhere
  <2> QED
      BY <2>1, <2>2, LastDelete
<1>14. ASSUME NEW b \in Buffers, NEW k, DeleteRow(b, k) PROVE LastInv'
  <2>g. PICK gone : gone = [Everywhere({}) EXCEPT ![b] = {e \in stored[b] : Key(b, e) = k}]
        OBVIOUS
  <2>1. Delete(gone) /\ b # "queries"
        BY <1>14, <2>g DEF DeleteRow, Capped
  <2>2. gone["queries"] = {}
        BY <1>q, <2>1, <2>g DEF Everywhere
  <2> QED
      BY <2>1, <2>2, LastDelete
<1>15. ASSUME NEW k, DeleteClient(k) PROVE LastInv'
  <2>g. PICK gone : gone = [b \in Buffers |->
                             IF b \notin {"stats", "requests", "queries"} THEN {}
                             ELSE {e \in stored[b] : asked[e.q].client = k
                                                      /\ asked[e.q].result # "foreign"}]
        OBVIOUS
  <2>1. Delete(gone)
        BY <1>15, <2>g DEF DeleteClient
  <2>2. gone["queries"] = {e \in stored["queries"] : asked[e.q].client = k
                                                    /\ asked[e.q].result # "foreign"}
        BY <1>q, <2>g
  <2>3. \A d \in stored["queries"] : asked[d.q].result # "foreign"
    <3>1. stored["queries"] \subseteq Held("queries")
          BY DEF Held
    <3> QED
        BY <3>1, AtNumber DEF LastInv, Numbered
  <2>4. \A d \in stored["queries"] : \A e \in gone["queries"] :
          QueryKey(asked[d.q]) = QueryKey(asked[e.q]) => d \in gone["queries"]
        BY <2>2, <2>3 DEF QueryKey
  <2> QED
      BY <2>1, <2>2, <2>4, LastDelete
<1>16. CASE Deletes
       BY <1>13, <1>14, <1>15, <1>16 DEF Deletes
<1>17. CASE Next
       BY <1>1, <1>2, <1>3, <1>4, <1>5, <1>6, <1>8, <1>9, <1>10, <1>11, <1>12, <1>16, <1>17
       DEF Next, FlushNothing, Main, Exit, Crash
<1> QED
    BY <1>4, <1>17

LEMMA LastInit == Init => LastInv
<1> SUFFICES ASSUME Init PROVE LastInv
    OBVIOUS
<1>q. "queries" \in Buffers
      BY DEF Buffers, StopOrder
<1>1. /\ stored["queries"] = {} /\ data["queries"] = {} /\ reported["queries"] = {}
      /\ flight["queries"]["timer"] = {} /\ flight["queries"]["main"] = {} /\ stopAt = 0
      BY <1>q DEF Init, Everywhere, Flushers
<1>2. Numbered /\ Sorted
      BY <1>1 DEF Numbered, Sorted, Held
<1>3. Tracked
      BY <1>1 DEF Tracked, Keys
<1> QED
    BY <1>2, <1>3 DEF LastInv, Current

(* Until a shutdown begins, the last_action of every row of the query log  *)
(* is that of the latest query the row counts, whatever writes failed,     *)
(* whatever rows were deleted and however often the process crashed.       *)
THEOREM LastTheorem == Spec => []LastActionCurrent
<1>2. StatInv /\ LastInv => LastActionCurrent
  <2> SUFFICES ASSUME StatInv, LastInv, stops = 0,
                      NEW k \in Keys("queries", stored["queries"])
               PROVE  last[k] = Newest(stored["queries"], k).q
      BY DEF LastActionCurrent
  <2>1. PICK e : IsLast(asked, stored["queries"], k, e) /\ last[k] = e.q
        BY DEF LastInv, Current, Tracked
  <2>2. stored["queries"] \in SUBSET Held("queries")
        BY DEF Held
  <2>3. IsLast(asked, stored["queries"], k, Newest(stored["queries"], k))
        BY <2>2, NewestIsLast DEF LastInv
  <2>4. e = Newest(stored["queries"], k)
        BY <2>1, <2>2, <2>3, LastUnique DEF LastInv
  <2> QED
      BY <2>1, <2>4
<1> QED
    BY <1>2, LastInit, StatInvariant, LastNext, PTL DEF Spec

-----------------------------------------------------------------------------
(* The types, as far as the arguments above do not need them: no add is    *)
(* stamped ahead of the clock or numbered beyond the queries, and what the *)
(* query log calls a last query is one.                                    *)
Clocks ==
  /\ hour \in 0..MaxHour /\ Len(asked) <= MaxQueries
  /\ query \in [Threads -> 0..MaxQueries]
  /\ stamp \in [Threads -> 0..hour \cup {NoHour}]

Counters ==
  /\ failures \in 0..MaxFailures /\ ends \in 0..MaxEnds
  /\ stops \in 0..ends /\ deletes \in 0..MaxDeletes

Filed == \A b \in Buffers : Held(b) \subseteq Adds /\ late[b] \subseteq 1..MaxQueries
LastIn == \A k \in DOMAIN last : last[k] \in 1..Len(asked)

InRange == Clocks /\ Counters /\ Filed /\ LastIn

(* Steps that file nothing.                                                *)
LEMMA RangeMoves ==
  ASSUME StatInv, InRange, Clocks', Counters', LastIn', hour <= hour',
         UNCHANGED late, \A b \in Buffers : Held(b)' \subseteq Held(b)
  PROVE  InRange'
<1>1. 0..hour \subseteq 0..hour'
      BY DEF InRange, Clocks
<1>2. Adds \subseteq Adds'
      BY <1>1 DEF Adds, NoHour
<1>3. Filed'
      BY <1>2 DEF InRange, Filed
<1> QED
    BY <1>3 DEF InRange

LEMMA HeldSwap ==
  ASSUME StatInv, NEW b \in Buffers, NEW f \in Flushers, Swap(b, f), UNCHANGED stored
  PROVE  \A c \in Buffers : Held(c)' \subseteq Held(c)
<1>1. /\ flight' = [flight EXCEPT ![b] = [flight[b] EXCEPT ![f] = data[b]]]
      /\ data' = [data EXCEPT ![b] = {}]
      BY DEF Swap, StatInv, Typed
<1>2. /\ data \in [Buffers -> SUBSET Add] /\ flight \in [Buffers -> [Flushers -> SUBSET Add]]
      /\ stored' = stored
      BY DEF StatInv, Typed
<1> TAKE c \in Buffers
<1>3. CASE c # b
      BY <1>1, <1>2, <1>3 DEF Held
<1>4. CASE c = b
  <2>1. /\ data'[c] = {}
        /\ \A g \in Flushers : flight'[c][g] = IF g = f THEN data[c] ELSE flight[c][g]
        BY <1>1, <1>2, <1>4
  <2> QED
      BY <1>2, <2>1 DEF Held, Flushers
<1> QED
    BY <1>3, <1>4

LEMMA HeldWritten ==
  ASSUME StatInv, NEW b \in Buffers, NEW f \in Flushers,
         NEW kept \in SUBSET (stored[b] \cup flight[b][f]),
         stored' = [stored EXCEPT ![b] = kept],
         flight' = [flight EXCEPT ![b][f] = {}], UNCHANGED data
  PROVE  \A c \in Buffers : Held(c)' \subseteq Held(c)
<1>1. /\ stored \in [Buffers -> SUBSET Add] /\ flight \in [Buffers -> [Flushers -> SUBSET Add]]
      /\ flight' = [flight EXCEPT ![b] = [flight[b] EXCEPT ![f] = {}]]
      BY DEF StatInv, Typed
<1> TAKE c \in Buffers
<1>2. CASE c # b
      BY <1>1, <1>2 DEF Held
<1>3. CASE c = b
  <2>1. /\ stored'[c] = kept /\ flight[b][f] \subseteq Held(b)
        /\ \A g \in Flushers : flight'[c][g] = IF g = f THEN {} ELSE flight[c][g]
        BY <1>1, <1>3 DEF Held, Flushers
  <2> QED
      BY <1>3, <2>1 DEF Held, Flushers
<1> QED
    BY <1>2, <1>3

LEMMA RangeReport ==
  ASSUME StatInv, InRange, NEW t \in Threads, NEW b \in Buffers, Report(t, b)
  PROVE  InRange'
<1>e. PICK e : e = [q |-> query[t], hour |-> stamp[t], at |-> Cardinality(reported[b]) + 1]
      OBVIOUS
<1>0. /\ b \in route[t] /\ stamp' = [stamp EXCEPT ![t] = NoHour]
      /\ late' = late \/ late' = [late EXCEPT ![b] = late[b] \cup {query[t]}]
      /\ UNCHANGED <<asked, hour, query, flight, stored, last, failures, ends, stops, deletes>>
      BY DEF Report, NextCall, clockVars, tableVars, bounds, StatInv, Typed
<1>1. /\ query[t] \in 1..Len(asked) /\ query[t] \notin reported[b]
      /\ Len(asked) \in Nat /\ Len(asked) <= MaxQueries /\ MaxQueries \in Nat
      BY <1>0, BufferAssumption DEF StatInv, Typed, Waiting, InRange, Clocks
<1>2. query[t] \in 1..MaxQueries
      BY <1>1
<1>3. Cardinality(reported[b]) + 1 \in 1..MaxQueries
  <2>1. IsFiniteSet(reported[b]) /\ Cardinality(reported[b]) \in Nat
        BY ReportedFinite DEF StatInv
  <2>2. /\ Cardinality(reported[b] \cup {query[t]}) = Cardinality(reported[b]) + 1
        BY <1>1, <2>1, FS_AddElement
  <2>3. reported[b] \cup {query[t]} \in SUBSET (1..Len(asked))
        BY <1>1 DEF StatInv, Typed
  <2>4. IsFiniteSet(1..Len(asked)) /\ Cardinality(1..Len(asked)) = Len(asked)
    <3>1. PICK n \in Nat : n = Len(asked)
          BY <1>1
    <3>2. IsFiniteSet(1..n) /\ Cardinality(1..n) = n
          BY FS_Interval
    <3> QED
        BY <3>1, <3>2
  <2>5. Cardinality(reported[b]) + 1 <= Len(asked)
        BY <2>2, <2>3, <2>4, FS_Subset
  <2> QED
      BY <1>1, <2>1, <2>5
<1>4. e \in Adds
      BY <1>e, <1>2, <1>3 DEF Adds, InRange, Clocks
<1>5. /\ \A c \in Buffers \ {b} : data'[c] = data[c]
      /\ data'[b] \subseteq data[b] \cup {e}
  <2>1. data' = data \/ data' = [data EXCEPT ![b] = (data[b] \ Overflow(b)) \cup {e}]
        BY <1>e DEF Report, StatInv, Typed
  <2> QED
      BY <2>1 DEF StatInv, Typed
<1>6. Adds' = Adds
      BY <1>0 DEF Adds, NoHour
<1>7. Filed'
  <2> SUFFICES ASSUME NEW c \in Buffers
               PROVE  Held(c)' \subseteq Adds' /\ late'[c] \subseteq 1..MaxQueries
      BY DEF Filed
  <2>1. Held(c)' \subseteq Held(c) \cup {e}
        BY <1>0, <1>5 DEF Held
  <2>2. late'[c] \subseteq late[c] \cup {query[t]}
        BY <1>0 DEF StatInv, Typed
  <2> QED
      BY <1>2, <1>4, <1>6, <2>1, <2>2 DEF InRange, Filed
<1>8. Clocks' /\ Counters' /\ LastIn'
      BY <1>0 DEF InRange, Clocks, Counters, LastIn, NoHour
<1> QED
    BY <1>7, <1>8 DEF InRange

(* The upsert of the query log takes its last_action from the snapshot.    *)
LEMMA RangeUpsert ==
  ASSUME StatInv, InRange, LastInv, NEW f \in Flushers
  PROVE  \A k \in DOMAIN Upsert(flight["queries"][f]) :
           Upsert(flight["queries"][f])[k] \in 1..Len(asked)
<1>q. "queries" \in Buffers
      BY DEF Buffers, StopOrder
<1> PICK A : A = flight["queries"][f]
    OBVIOUS
<1>1. A \in SUBSET Held("queries")
      BY DEF Held, Flushers
<1>2. ASSUME NEW k \in Keys("queries", A) PROVE Newest(A, k).q \in 1..Len(asked)
  <2>1. Newest(A, k) \in Held("queries")
        BY <1>1, NewestIsLast DEF LastInv, IsLast
  <2> QED
      BY <1>q, <2>1, AtNumber DEF StatInv, Typed
<1>3. \A k \in DOMAIN last : last[k] \in 1..Len(asked)
      BY DEF InRange, LastIn
<1> QED
    BY <1>2, <1>3 DEF Upsert

LEMMA RangeStep ==
  ASSUME StatInv, InRange, LastInv, [Next]_vars
  PROVE  InRange'
<1> USE BufferAssumption
<1>0. /\ hour \in 0..MaxHour /\ hour <= hour
      /\ Len(asked) \in Nat /\ asked \in Seq(Lookups)
      BY DEF InRange, Clocks, StatInv, Typed
<1>1. ASSUME NEW t \in Threads, NEW L \in Lookups, Arrive(t, L) PROVE InRange'
  <2>1. /\ Len(asked) < MaxQueries /\ asked' = Append(asked, L)
        /\ query' = [query EXCEPT ![t] = Len(asked) + 1]
        /\ UNCHANGED <<hour, stamp, data, flight, stored, last, late>>
        /\ UNCHANGED <<failures, ends, stops, deletes>>
        BY <1>1 DEF Arrive, tableVars, bounds, history
  <2>2. Len(asked') = Len(asked) + 1
        BY <1>0, <2>1
  <2>3. Clocks'
        BY <1>0, <2>1, <2>2 DEF InRange, Clocks
  <2>4. Counters' /\ LastIn'
        BY <1>0, <2>1, <2>2 DEF InRange, Counters, LastIn
  <2>5. \A b \in Buffers : Held(b)' \subseteq Held(b)
        BY <2>1 DEF Held
  <2> QED
      BY <1>0, <2>1, <2>3, <2>4, <2>5, RangeMoves
<1>2. ASSUME NEW t \in Threads, ReadClock(t) PROVE InRange'
  <2>1. /\ stamp' = [stamp EXCEPT ![t] = hour]
        /\ UNCHANGED <<asked, hour, query, data, flight, stored, last, late>>
        /\ UNCHANGED <<failures, ends, stops, deletes>>
        BY <1>2 DEF ReadClock, clockVars, tableVars, bounds, history
  <2>2. Clocks' /\ Counters' /\ LastIn'
        BY <1>0, <2>1 DEF InRange, Clocks, Counters, LastIn
  <2>3. \A b \in Buffers : Held(b)' \subseteq Held(b)
        BY <2>1 DEF Held
  <2> QED
      BY <1>0, <2>1, <2>2, <2>3, RangeMoves
<1>3. CASE Tick \/ UNCHANGED vars
  <2>1. /\ hour' = hour \/ (hour < MaxHour /\ hour' = hour + 1)
        /\ UNCHANGED <<asked, query, stamp, data, flight, stored, last, late>>
        /\ UNCHANGED <<failures, ends, stops, deletes>>
        BY <1>3 DEF Tick, vars, clockVars, threadVars, tableVars, bounds, history
  <2>2. hour' \in 0..MaxHour /\ hour <= hour' /\ 0..hour \subseteq 0..hour'
        BY <1>0, <2>1
  <2>3. Clocks' /\ Counters' /\ LastIn'
        BY <2>1, <2>2 DEF InRange, Clocks, Counters, LastIn, NoHour
  <2>4. \A b \in Buffers : Held(b)' \subseteq Held(b)
        BY <2>1 DEF Held
  <2> QED
      BY <2>1, <2>2, <2>3, <2>4, RangeMoves
<1>4. ASSUME NEW b \in Buffers, NEW f \in Flushers, NEW K, NEW edge, Store(b, f, K, edge)
      PROVE  InRange'
  <2>k. PICK kept : kept = Record(b, stored[b] \cup flight[b][f], K, edge)
        OBVIOUS
  <2>1. /\ stored' = [stored EXCEPT ![b] = kept]
        /\ flight' = [flight EXCEPT ![b][f] = {}]
        /\ last' = IF b = "queries" THEN Upsert(flight[b][f]) ELSE last
        /\ UNCHANGED <<asked, hour, query, stamp, data, late, failures, ends, stops, deletes>>
        BY <1>4, <2>k DEF Store, clockVars, threadVars, bounds
  <2>2. kept \in SUBSET (stored[b] \cup flight[b][f])
        BY <2>k, RecordWithin
  <2>3. \A c \in Buffers : Held(c)' \subseteq Held(c)
        BY <2>1, <2>2, HeldWritten
  <2>4. LastIn'
        BY <2>1, RangeUpsert DEF InRange, LastIn
  <2>5. Clocks' /\ Counters'
        BY <2>1 DEF InRange, Clocks, Counters, NoHour
  <2> QED
      BY <1>0, <2>1, <2>3, <2>4, <2>5, RangeMoves
<1>5. ASSUME NEW b \in Buffers, NEW f \in Flushers, StoreFails(b, f) PROVE InRange'
  <2>1. /\ flight' = [flight EXCEPT ![b][f] = {}] /\ stored' = stored
        /\ failures < MaxFailures /\ failures' = failures + 1
        /\ UNCHANGED <<asked, hour, query, stamp, data, last, late, ends, stops, deletes>>
        BY <1>5 DEF StoreFails, clockVars, threadVars, tableVars
  <2>2. stored' = [stored EXCEPT ![b] = stored[b]]
        BY <2>1 DEF StatInv, Typed
  <2>3. \A c \in Buffers : Held(c)' \subseteq Held(c)
        BY <2>1, <2>2, HeldWritten
  <2>4. Clocks' /\ Counters' /\ LastIn'
        BY <2>1 DEF InRange, Clocks, Counters, LastIn, NoHour
  <2> QED
      BY <1>0, <2>1, <2>3, <2>4, RangeMoves
<1>6. CASE Interrupt
  <2>1. /\ ends < MaxEnds /\ ends' = ends + 1 /\ stops' = stops + 1
        /\ UNCHANGED <<asked, hour, query, stamp, data, flight, stored, last, late>>
        /\ UNCHANGED <<failures, deletes>>
        BY <1>6 DEF Interrupt, clockVars, threadVars, tableVars, history
  <2>2. Clocks' /\ Counters' /\ LastIn'
        BY <2>1 DEF InRange, Clocks, Counters, LastIn, NoHour
  <2>3. \A b \in Buffers : Held(b)' \subseteq Held(b)
        BY <2>1 DEF Held
  <2> QED
      BY <1>0, <2>1, <2>2, <2>3, RangeMoves
<1>7. ASSUME NEW b \in Buffers, TimerSwap(b) \/ (StopSwap /\ b = StopOrder[stopAt])
      PROVE  InRange'
  <2>1. /\ (\E f \in Flushers : Swap(b, f)) \/ UNCHANGED <<data, flight>>
        /\ UNCHANGED <<asked, hour, query, stamp, stored, last, late>>
        /\ UNCHANGED <<failures, ends, stops, deletes>>
        BY <1>7 DEF TimerSwap, StopSwap, clockVars, threadVars, tableVars, bounds, history,
             Flushers
  <2>2. \A c \in Buffers : Held(c)' \subseteq Held(c)
    <3>1. CASE UNCHANGED <<data, flight>>
          BY <2>1, <3>1 DEF Held
    <3> QED
        BY <2>1, <3>1, HeldSwap
  <2>3. Clocks' /\ Counters' /\ LastIn'
        BY <2>1 DEF InRange, Clocks, Counters, LastIn, NoHour
  <2> QED
      BY <1>0, <2>1, <2>2, <2>3, RangeMoves
<1>8. CASE StopSwap
  <2>1. StopOrder[stopAt] \in Buffers
        BY <1>8 DEF StopSwap, Buffers
  <2> QED
      BY <1>7, <1>8, <2>1
<1>9. ASSUME NEW b \in Buffers, Timer(b) PROVE InRange'
      BY <1>4, <1>7, <1>9 DEF Timer, Flushers
<1>10. CASE StopStore
  <2>1. StopOrder[stopAt] \in Buffers
        BY <1>10 DEF StopStore, Buffers
  <2> QED
      BY <1>4, <1>10, <2>1 DEF StopStore, Flushers
<1>11. CASE Exit \/ Crash
  <2>1. /\ ends' = ends \/ (ends < MaxEnds /\ ends' = ends + 1)
        /\ data' = Everywhere({}) /\ flight' = Everywhere([f \in Flushers |-> {}])
        /\ query' = [t \in Threads |-> NoQuery] /\ stamp' = [t \in Threads |-> NoHour]
        /\ UNCHANGED <<asked, hour, stored, last, late, failures, stops, deletes>>
        BY <1>11 DEF Exit, Crash, End, clockVars, tableVars
  <2>2. \A c \in Buffers : Held(c)' \subseteq Held(c)
        BY <2>1 DEF Held, Everywhere, Flushers
  <2>3. Clocks' /\ Counters' /\ LastIn'
        BY <2>1 DEF InRange, Clocks, Counters, LastIn, NoHour, NoQuery
  <2> QED
      BY <1>0, <2>1, <2>2, <2>3, RangeMoves
<1>12. CASE Deletes
  <2>1. PICK gone : Delete(gone)
        BY <1>12 DEF Deletes, DeleteAll, DeleteRow, DeleteClient
  <2>2. /\ deletes < MaxDeletes /\ deletes' = deletes + 1
        /\ stored' = [b \in Buffers |-> stored[b] \ gone[b]]
        /\ last' = [k \in DOMAIN last \ Keys("queries", gone["queries"]) |-> last[k]]
        /\ UNCHANGED <<asked, hour, query, stamp, data, flight, late, failures, ends, stops>>
        BY <2>1 DEF Delete, clockVars, threadVars
  <2>3. \A c \in Buffers : Held(c)' \subseteq Held(c)
        BY <2>2 DEF Held
  <2>4. Clocks' /\ Counters' /\ LastIn'
        BY <2>2 DEF InRange, Clocks, Counters, LastIn, NoHour
  <2> QED
      BY <1>0, <2>2, <2>3, <2>4, RangeMoves
<1> QED
    BY <1>1, <1>2, <1>3, <1>5, <1>6, <1>8, <1>9, <1>10, <1>11, <1>12, RangeReport
    DEF Next, FlushNothing, Main

(* Every variable keeps its type: no add is stamped with an hour to come,  *)
(* none counts a query that was not asked, and every last_action is that   *)
(* of a query.                                                             *)
THEOREM TypeTheorem == Spec => []TypeOK
<1>1. Init => InRange
  <2> SUFFICES ASSUME Init PROVE InRange
      OBVIOUS
  <2>1. Clocks /\ Counters
        BY BufferAssumption DEF Init, Clocks, Counters, NoQuery
  <2>2. Filed /\ LastIn
        BY DEF Init, Filed, LastIn, Held, Everywhere, Flushers
  <2> QED
      BY <2>1, <2>2 DEF InRange
<1>2. StatInv /\ InRange => TypeOK
  <2> SUFFICES ASSUME StatInv, InRange PROVE TypeOK
      OBVIOUS
  <2>1. \A b \in Buffers : /\ data[b] \subseteq Adds /\ stored[b] \subseteq Adds
                           /\ \A f \in Flushers : flight[b][f] \subseteq Adds
        BY DEF InRange, Filed, Held, Flushers
  <2>2. /\ data \in [Buffers -> SUBSET Adds] /\ stored \in [Buffers -> SUBSET Adds]
        /\ flight \in [Buffers -> [Flushers -> SUBSET Adds]]
        BY <2>1 DEF StatInv, Typed
  <2>3. 1..Len(asked) \subseteq 1..MaxQueries
        BY BufferAssumption DEF InRange, Clocks, StatInv, Typed
  <2>4. \A b \in Buffers : /\ reported[b] \subseteq 1..MaxQueries
                           /\ lost[b] \subseteq 1..MaxQueries /\ late[b] \subseteq 1..MaxQueries
        BY <2>3 DEF StatInv, Typed, Counting, InRange, Filed
  <2>5. {reported, lost, late} \subseteq [Buffers -> SUBSET (1..MaxQueries)]
        BY <2>4 DEF StatInv, Typed
  <2>6. stops \in 0..MaxEnds
        BY BufferAssumption DEF InRange, Counters
  <2> QED
      BY <2>2, <2>5, <2>6 DEF StatInv, Typed, InRange, Clocks, Counters, LastIn, TypeOK
<1>3. Spec => []LastInv
      BY LastInit, StatInvariant, LastNext, PTL DEF Spec
<1> QED
    BY <1>1, <1>2, <1>3, StatInvariant, RangeStep, PTL DEF Spec
=============================================================================
