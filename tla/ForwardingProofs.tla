------------------------- MODULE ForwardingProofs -------------------------
(***************************************************************************)
(* Proofs about Forwarding, for any upstreams, any number of server        *)
(* threads, queries, passes, edits, failed writes and ends of the worker.  *)
(***************************************************************************)
EXTENDS Forwarding, FiniteSetTheorems, WellFoundedInduction, TLAPS

-----------------------------------------------------------------------------
(* The published list.  Rows are ordered by priority and id; the rank of a *)
(* row is the number of rows up to it, and every rank is taken.            *)
ListsInv ==
  /\ rows \in [Ids -> Row \cup {NoRow}]
  /\ upstreams \in Seq(Servers)
  /\ hour \in Hours

LEMMA RowTyped ==
  ASSUME rows \in [Ids -> Row \cup {NoRow}], NEW i \in Ids, rows[i].enabled
  PROVE  rows[i].server \in Servers /\ rows[i].server.priority \in Nat
<1>1. rows[i] \in Row \/ rows[i] = NoRow
      OBVIOUS
<1>2. NoRow.enabled = FALSE
      BY DEF NoRow
<1>3. rows[i] \in Row
      BY <1>1, <1>2
<1>4. rows[i].server \in Servers
      BY <1>3 DEF Row
<1> QED
    BY <1>4, ForwardingAssumption

LEMMA LoadTyped ==
  ASSUME rows \in [Ids -> Row \cup {NoRow}]
  PROVE  load_upstreams \in Seq(Servers)
<1> DEFINE E == {i \in Ids : rows[i].enabled}
           below(i) == {j \in E : Before(j, i)}
           rank(i) == Cardinality(below(i))
           n == Cardinality(E)
           f == [i \in E |-> rank(i)]
<1>1. IsFiniteSet(E) /\ n \in Nat /\ E \subseteq Nat
      BY ForwardingAssumption, FS_Subset, FS_CardinalityType
<1>2. \A i \in E : rows[i].server \in Servers /\ rows[i].server.priority \in Nat
      BY RowTyped
<1>3. \A i \in E : i \in below(i)
      BY <1>1, <1>2 DEF Before
<1>4. \A i \in E : /\ IsFiniteSet(below(i)) /\ below(i) \in SUBSET E
                   /\ rank(i) \in Nat /\ rank(i) <= n /\ rank(i) # 0
  <2> TAKE i \in E
  <2>1. below(i) \in SUBSET E
        OBVIOUS
  <2>2. IsFiniteSet(below(i)) /\ rank(i) <= n
        BY <1>1, <2>1, FS_Subset
  <2>3. rank(i) \in Nat /\ rank(i) # 0
        BY <1>3, <2>2, FS_CardinalityType, FS_EmptySet
  <2> QED
      BY <2>1, <2>2, <2>3
<1>5. f \in [E -> 1..n]
      BY <1>1, <1>4
<1>6. ASSUME NEW i \in E, NEW j \in E, rank(i) = rank(j)
      PROVE  i = j
  <2>1. ASSUME NEW k \in E, NEW l \in E, Before(k, l), rank(k) = rank(l)
        PROVE  k = l
    <3>1. below(k) \subseteq below(l)
      <4>1. \A m \in E : Before(m, k) => Before(m, l)
            BY <1>1, <1>2, <2>1 DEF Before
      <4> QED
          BY <4>1
    <3>2. below(k) = below(l)
          BY <3>1, <1>4, <2>1, FS_Subset
    <3>3. Before(l, k)
          BY <3>2, <1>3
    <3> QED
        BY <1>1, <1>2, <2>1, <3>3 DEF Before
  <2>2. Before(i, j) \/ Before(j, i)
        BY <1>1, <1>2 DEF Before
  <2> QED
      BY <1>6, <2>1, <2>2
<1>7. f \in Injection(E, 1..n)
      BY <1>5, <1>6 DEF Injection, IsInjective
<1>8. f \in Surjection(E, 1..n)
  <2>1. IsFiniteSet(1..n) /\ Cardinality(1..n) = n
        BY <1>1, FS_Interval
  <2> QED
      BY <1>7, <2>1, FS_Injection
<1>9. \A k \in 1..n : \E i \in E : rank(i) = k
      BY <1>8 DEF Surjection
<1>10. ASSUME NEW k \in 1..n
       PROVE  rows[CHOOSE i \in E : rank(i) = k].server \in Servers
  <2>1. (CHOOSE i \in E : rank(i) = k) \in E
        BY <1>9
  <2> QED
      BY <2>1, <1>2
<1>11. load_upstreams = [k \in 1..n |-> rows[CHOOSE i \in E : rank(i) = k].server]
       BY DEF load_upstreams
<1> HIDE DEF E, n, rank
<1> QED
    BY <1>1, <1>10, <1>11

LEMMA ListsStep == ListsInv /\ [Next]_vars => ListsInv' /\ hour <= hour'
<1> SUFFICES ASSUME ListsInv, [Next]_vars PROVE ListsInv' /\ hour <= hour'
    OBVIOUS
<1>0. /\ hour \in 0..MaxHour /\ MaxHour \in Nat /\ Hours = 0..MaxHour
      /\ hour <= hour
      BY ForwardingAssumption DEF ListsInv, Hours
<1>1. CASE UNCHANGED <<rows, upstreams, hour>>
      BY <1>0, <1>1 DEF ListsInv
<1>2. CASE \E t \in Threads : Query(t) \/ \E o \in balanced_order(upstreams) : Forward(t, o)
      BY <1>1, <1>2 DEF Query, Forward, Reply, Truncated, SendFails, ReadClock, AddSample,
                        QueryFrame
<1>3. CASE BeginPass \/ Prober \/ FlushFails
      BY <1>1, <1>3 DEF BeginPass, Prober, FlushFails, FindTargets, ReadByAddress,
           ReadMarkClock, MarkProbed, ProbeFails, ProbeAnswers, AddProbe, FlushSwap,
           FlushStore, ProberFrame
<1>4. CASE Interrupt \/ StopSwap \/ StopStore \/ StopFails
      BY <1>1, <1>4 DEF Interrupt, StopSwap, StopStore, StopFails, MainFrame
<1>5. CASE Exit \/ Crash \/ Reload
  <2>1. UNCHANGED <<rows, hour>> /\ upstreams' = load_upstreams
        BY <1>5 DEF Exit, Crash, End, Reload
  <2> QED
      BY <1>0, <2>1, LoadTyped DEF ListsInv
<1>6. CASE Tick
  <2>1. UNCHANGED <<rows, upstreams>> /\ hour < MaxHour /\ hour' = hour + 1
        BY <1>6 DEF Tick
  <2>2. hour' \in 0..MaxHour /\ hour <= hour'
        BY <1>0, <2>1
  <2> QED
      BY <1>0, <2>1, <2>2 DEF ListsInv, Hours
<1>7. CASE Edits
  <2>1. UNCHANGED <<upstreams, hour>>
        BY <1>7 DEF Edits, CreateUpstream, UpdateUpstream, DeleteUpstream, Request
  <2>2. \E i \in Ids, row \in Bodies \cup {NoRow} : rows' = [rows EXCEPT ![i] = row]
        BY <1>7 DEF Edits, CreateUpstream, UpdateUpstream, DeleteUpstream, Request
  <2>3. rows' \in [Ids -> Row \cup {NoRow}]
        BY <2>2, ForwardingAssumption DEF ListsInv
  <2> QED
      BY <1>0, <2>1, <2>3 DEF ListsInv
<1>8. CASE UNCHANGED vars
      BY <1>1, <1>8 DEF vars
<1> QED
    BY <1>2, <1>3, <1>4, <1>5, <1>6, <1>7, <1>8 DEF Next, Main

(* The list, the rows and the clock keep their types; the clock never goes *)
(* back.                                                                   *)
THEOREM ListsInvariant == Spec => []ListsInv
<1>1. Init => ListsInv
  <2> SUFFICES ASSUME Init PROVE ListsInv
      OBVIOUS
  <2>1. rows \in [Ids -> Row \cup {NoRow}]
        BY ForwardingAssumption DEF Init
  <2>2. hour \in Hours
        BY ForwardingAssumption DEF Init, Hours
  <2> QED
      BY <2>1, <2>2, LoadTyped DEF Init, ListsInv
<1> QED
    BY <1>1, ListsStep, PTL DEF Spec

-----------------------------------------------------------------------------
(* Failover.  What a shuffle within equal priorities is.                   *)
Sorted(s) == \A i, j \in DOMAIN s : i < j => s[i].priority <= s[j].priority

LEMMA BalancedOrder ==
  ASSUME NEW servers \in Seq(Servers), NEW o \in balanced_order(servers)
  PROVE  o \in Seq(Servers) /\ Sorted(o) /\ Range(o) = Range(servers)
<1> DEFINE n == Len(servers)
<1>1. n \in Nat /\ DOMAIN servers = 1..n /\ \A k \in 1..n : servers[k] \in Servers
      OBVIOUS
<1>2. PICK p \in [1..n -> 1..n] :
        /\ \A i, j \in 1..n : i < j =>
             /\ p[i] # p[j]
             /\ servers[p[i]].priority <= servers[p[j]].priority
        /\ o = [i \in 1..n |-> servers[p[i]]]
      BY DEF balanced_order
<1> HIDE DEF n
<1>3. p \in Injection(1..n, 1..n)
      BY <1>1, <1>2 DEF Injection, IsInjective
<1>4. p \in Surjection(1..n, 1..n)
  <2>1. IsFiniteSet(1..n)
        BY <1>1, FS_Interval
  <2> QED
      BY <1>3, <2>1, FS_Injection
<1>5. o \in Seq(Servers) /\ DOMAIN o = 1..n
      BY <1>1, <1>2
<1>6. Sorted(o)
      BY <1>2, <1>5 DEF Sorted
<1>7. Range(o) = Range(servers)
      BY <1>1, <1>2, <1>4 DEF Range, Surjection
<1> QED
    BY <1>5, <1>6, <1>7

LEMMA RangeTail ==
  ASSUME NEW s \in Seq(Servers), s # <<>>
  PROVE  /\ Head(s) \in Servers /\ Tail(s) \in Seq(Servers)
         /\ Range(s) = {Head(s)} \cup Range(Tail(s))
         /\ Sorted(s) => /\ Sorted(Tail(s))
                         /\ \A x \in Range(s) : Head(s).priority <= x.priority
<1>1. Len(s) \in Nat /\ Len(s) # 0 /\ DOMAIN s = 1..Len(s)
      OBVIOUS
<1>2. Head(s) = s[1] /\ Head(s) \in Servers
      BY <1>1
<1>3. /\ Tail(s) \in Seq(Servers) /\ DOMAIN Tail(s) = 1..(Len(s) - 1)
      /\ \A i \in 1..(Len(s) - 1) : Tail(s)[i] = s[i + 1]
      BY <1>1
<1>4. Range(s) = {Head(s)} \cup Range(Tail(s))
  <2>1. ASSUME NEW x \in Range(s) PROVE x \in {Head(s)} \cup Range(Tail(s))
    <3>1. PICK i \in 1..Len(s) : x = s[i]
          BY <1>1 DEF Range
    <3>2. CASE i # 1
      <4>1. i - 1 \in DOMAIN Tail(s) /\ Tail(s)[i - 1] = s[i]
            BY <1>1, <1>3, <3>2
      <4> QED
          BY <3>1, <4>1 DEF Range
    <3> QED
        BY <3>1, <3>2, <1>2
  <2>2. ASSUME NEW x \in Range(Tail(s)) PROVE x \in Range(s)
    <3>1. PICK i \in 1..(Len(s) - 1) : x = s[i + 1]
          BY <1>3 DEF Range
    <3>2. i + 1 \in DOMAIN s
          BY <1>1
    <3> QED
        BY <3>1, <3>2 DEF Range
  <2>3. Head(s) \in Range(s)
        BY <1>1, <1>2 DEF Range
  <2> QED
      BY <2>1, <2>2, <2>3
<1>5. ASSUME Sorted(s) PROVE Sorted(Tail(s))
      BY <1>1, <1>3, <1>5 DEF Sorted
<1>6. ASSUME Sorted(s), NEW x \in Range(s) PROVE Head(s).priority <= x.priority
  <2>1. PICK i \in 1..Len(s) : x = s[i]
        BY <1>1 DEF Range
  <2>2. s[i].priority \in Nat /\ s[1].priority \in Nat
        BY <1>1, ForwardingAssumption
  <2> QED
      BY <1>1, <1>2, <1>6, <2>1, <2>2 DEF Sorted
<1> QED
    BY <1>2, <1>3, <1>4, <1>5, <1>6

LEMMA RangeAppend ==
  ASSUME NEW s \in Seq(Servers), NEW x \in Servers
  PROVE  Append(s, x) \in Seq(Servers) /\ Range(Append(s, x)) = Range(s) \cup {x}
<1>1. /\ Append(s, x) \in Seq(Servers) /\ DOMAIN Append(s, x) = 1..(Len(s) + 1)
      /\ \A i \in 1..Len(s) : Append(s, x)[i] = s[i]
      /\ Append(s, x)[Len(s) + 1] = x
      /\ Len(s) \in Nat /\ DOMAIN s = 1..Len(s)
      OBVIOUS
<1>2. \A i \in 1..(Len(s) + 1) : i \in 1..Len(s) \/ i = Len(s) + 1
      BY <1>1
<1> QED
    BY <1>1, <1>2 DEF Range

(* Between two attempts the servers of the list read are the ones that     *)
(* failed and the ones still to try, the latter in order of priority.      *)
Outcome(t) ==
  \/ answer[t] = NoServer
  \/ answer[t] = ServFail /\ Range(failed[t]) = Range(list[t])
  \/ /\ answer[t] \in Range(list[t])
     /\ \A s \in Range(list[t]) :
          s.priority < answer[t].priority => s \in Range(failed[t])

Searching(t) ==
  /\ order[t] # <<>> /\ Sorted(order[t])
  /\ Range(list[t]) = Range(failed[t]) \cup Range(order[t])
  /\ answer[t] = NoServer
  /\ tpc[t] = "add" => tstamp[t] \in 0..hour

ThreadTyped ==
  /\ tpc \in [Threads -> {"idle", "try", "tcp", "clock", "add"}]
  /\ order \in [Threads -> Seq(Servers)] /\ list \in [Threads -> Seq(Servers)]
  /\ failed \in [Threads -> Seq(Servers)]
  /\ tstamp \in [Threads -> {NoHour} \cup 0..hour]
  /\ DOMAIN answer = Threads

ThreadsInv ==
  /\ ThreadTyped
  /\ \A t \in Threads : Outcome(t) /\ (tpc[t] # "idle" => Searching(t))

LEMMA ThreadsFrame ==
  ASSUME ThreadsInv, ListsInv, ListsInv', hour <= hour',
         UNCHANGED <<threadVars, queryHistory>>
  PROVE  ThreadsInv'
<1>1. UNCHANGED <<tpc, order, tstamp, list, failed, answer>>
      BY DEF threadVars, queryHistory
<1>2. 0..hour \subseteq 0..hour'
      BY DEF ListsInv, Hours
<1>3. ThreadTyped'
      BY <1>1, <1>2 DEF ThreadsInv, ThreadTyped
<1>4. \A t \in Threads : Outcome(t)' /\ (tpc'[t] # "idle" => Searching(t)')
      BY <1>1, <1>2 DEF ThreadsInv, Outcome, Searching
<1> QED
    BY <1>3, <1>4 DEF ThreadsInv

(* A step of one thread: the others keep their part.                       *)
LEMMA ThreadAlone ==
  ASSUME ThreadsInv, NEW t \in Threads, ThreadTyped', hour' = hour,
         \A u \in Threads \ {t} :
           /\ tpc'[u] = tpc[u] /\ order'[u] = order[u] /\ tstamp'[u] = tstamp[u]
           /\ list'[u] = list[u] /\ failed'[u] = failed[u] /\ answer'[u] = answer[u],
         Outcome(t)', tpc'[t] # "idle" => Searching(t)'
  PROVE  ThreadsInv'
<1>1. ASSUME NEW u \in Threads
      PROVE  Outcome(u)' /\ (tpc'[u] # "idle" => Searching(u)')
  <2>1. CASE u = t
        BY <2>1
  <2>2. CASE u # t
        BY <2>2 DEF ThreadsInv, Outcome, Searching
  <2> QED
      BY <2>1, <2>2
<1> QED
    BY <1>1 DEF ThreadsInv

LEMMA ForwardThreads ==
  ASSUME ThreadsInv, ListsInv, NEW t \in Threads, NEW o \in balanced_order(upstreams),
         Forward(t, o)
  PROVE  ThreadsInv'
<1>1. o \in Seq(Servers) /\ Sorted(o) /\ Range(o) = Range(upstreams)
      BY BalancedOrder DEF ListsInv
<1>2. /\ list' = [list EXCEPT ![t] = upstreams] /\ failed' = [failed EXCEPT ![t] = <<>>]
      /\ order' = [order EXCEPT ![t] = o]
      /\ UNCHANGED <<tstamp, hour>> /\ upstreams \in Seq(Servers)
      BY DEF Forward, QueryFrame, ListsInv
<1>3. CASE o = <<>>
  <2>1. answer' = [answer EXCEPT ![t] = ServFail] /\ tpc' = tpc /\ tpc[t] = "idle"
        BY <1>3 DEF Forward
  <2>2. ThreadTyped'
        BY <1>1, <1>2, <2>1 DEF ThreadsInv, ThreadTyped
  <2>3. answer'[t] = ServFail /\ failed'[t] = <<>> /\ list'[t] = upstreams
        BY <1>2, <2>1 DEF ThreadsInv, ThreadTyped
  <2>4. Range(<<>>) = {} /\ Range(o) = {}
        BY <1>3 DEF Range
  <2>5. Outcome(t)'
        BY <1>1, <2>3, <2>4 DEF Outcome
  <2> QED
      BY <1>2, <2>1, <2>2, <2>5, ThreadAlone DEF ThreadsInv, ThreadTyped
<1>4. CASE o # <<>>
  <2>1. answer' = [answer EXCEPT ![t] = NoServer] /\ tpc' = [tpc EXCEPT ![t] = "try"]
        BY <1>4 DEF Forward, At
  <2>2. ThreadTyped'
        BY <1>1, <1>2, <2>1 DEF ThreadsInv, ThreadTyped
  <2>3. /\ answer'[t] = NoServer /\ failed'[t] = <<>> /\ list'[t] = upstreams
        /\ order'[t] = o /\ tpc'[t] = "try"
        BY <1>2, <2>1 DEF ThreadsInv, ThreadTyped
  <2>4. Range(<<>>) = {}
        BY DEF Range
  <2>5. Outcome(t)' /\ Searching(t)'
        BY <1>1, <1>4, <2>3, <2>4 DEF Outcome, Searching
  <2> QED
      BY <1>2, <2>1, <2>2, <2>5, ThreadAlone DEF ThreadsInv, ThreadTyped
<1> QED
    BY <1>3, <1>4

LEMMA WaitThreads ==
  ASSUME ThreadsInv, ListsInv, NEW t \in Threads, Reply(t) \/ Truncated(t) \/ ReadClock(t)
  PROVE  ThreadsInv'
<1>1. /\ UNCHANGED <<order, list, failed, answer, hour>> /\ tpc[t] # "idle"
      /\ \E p \in {"clock", "tcp", "add"} : tpc' = [tpc EXCEPT ![t] = p]
      /\ tstamp' = tstamp \/ tstamp' = [tstamp EXCEPT ![t] = hour]
      /\ tpc' = [tpc EXCEPT ![t] = "add"] => tstamp' = [tstamp EXCEPT ![t] = hour]
      BY DEF Reply, Truncated, ReadClock, QueryFrame, queryHistory, At, ThreadsInv, ThreadTyped
<1>2. hour \in 0..hour
      BY DEF ListsInv, Hours
<1>3. ThreadTyped'
      BY <1>1, <1>2 DEF ThreadsInv, ThreadTyped
<1>4. Outcome(t)'
      BY <1>1 DEF ThreadsInv, Outcome
<1>5. Searching(t)'
  <2>1. tpc'[t] = "add" => tstamp'[t] = hour
        BY <1>1 DEF ThreadsInv, ThreadTyped
  <2>2. Searching(t)
        BY <1>1 DEF ThreadsInv
  <2> QED
      BY <1>1, <1>2, <2>1, <2>2 DEF Searching
<1> QED
    BY <1>1, <1>3, <1>4, <1>5, ThreadAlone DEF ThreadsInv, ThreadTyped

LEMMA SendFailsThreads ==
  ASSUME ThreadsInv, ListsInv, NEW t \in Threads, SendFails(t)
  PROVE  ThreadsInv'
<1> DEFINE h == Head(order[t])
           r == Tail(order[t])
<1>1. /\ order' = [order EXCEPT ![t] = r]
      /\ failed' = [failed EXCEPT ![t] = Append(failed[t], h)]
      /\ UNCHANGED <<tstamp, list, hour>> /\ tpc[t] # "idle"
      BY DEF SendFails, QueryFrame, ThreadsInv, ThreadTyped
<1>2. Searching(t) /\ order[t] \in Seq(Servers) /\ failed[t] \in Seq(Servers)
      BY <1>1 DEF ThreadsInv, ThreadTyped
<1>3. /\ h \in Servers /\ r \in Seq(Servers) /\ Sorted(r)
      /\ Range(order[t]) = {h} \cup Range(r)
      BY <1>2, RangeTail DEF Searching
<1>4. /\ Append(failed[t], h) \in Seq(Servers)
      /\ Range(Append(failed[t], h)) = Range(failed[t]) \cup {h}
      BY <1>2, <1>3, RangeAppend
<1> HIDE DEF h, r
<1>5. order'[t] = r /\ failed'[t] = Append(failed[t], h) /\ list'[t] = list[t]
      BY <1>1 DEF ThreadsInv, ThreadTyped
<1>6. Range(list'[t]) = Range(failed'[t]) \cup Range(r)
      BY <1>2, <1>3, <1>4, <1>5 DEF Searching
<1>7. CASE r = <<>>
  <2>1. tpc' = [tpc EXCEPT ![t] = "idle"] /\ answer' = [answer EXCEPT ![t] = ServFail]
        BY <1>7 DEF SendFails, At, r
  <2>2. ThreadTyped'
        BY <1>1, <1>3, <1>4, <2>1 DEF ThreadsInv, ThreadTyped
  <2>3. tpc'[t] = "idle" /\ answer'[t] = ServFail
        BY <2>1 DEF ThreadsInv, ThreadTyped
  <2>4. Range(r) = {}
        BY <1>7 DEF Range
  <2>5. Outcome(t)'
        BY <1>6, <2>3, <2>4 DEF Outcome
  <2> QED
      BY <1>1, <2>1, <2>2, <2>3, <2>5, ThreadAlone DEF ThreadsInv, ThreadTyped
<1>8. CASE r # <<>>
  <2>1. tpc' = [tpc EXCEPT ![t] = "try"] /\ answer' = answer
        BY <1>8 DEF SendFails, At, r
  <2>2. ThreadTyped'
        BY <1>1, <1>3, <1>4, <2>1 DEF ThreadsInv, ThreadTyped
  <2>3. tpc'[t] = "try" /\ answer'[t] = NoServer
        BY <2>1, <1>2 DEF ThreadsInv, ThreadTyped, Searching
  <2>4. Outcome(t)' /\ Searching(t)'
        BY <1>3, <1>5, <1>6, <1>8, <2>3 DEF Outcome, Searching
  <2> QED
      BY <1>1, <2>1, <2>2, <2>4, ThreadAlone DEF ThreadsInv, ThreadTyped
<1> QED
    BY <1>7, <1>8

LEMMA AddSampleThreads ==
  ASSUME ThreadsInv, ListsInv, NEW t \in Threads, AddSample(t)
  PROVE  ThreadsInv'
<1> DEFINE h == Head(order[t])
<1>1. /\ order' = [order EXCEPT ![t] = <<>>] /\ tstamp' = [tstamp EXCEPT ![t] = NoHour]
      /\ answer' = [answer EXCEPT ![t] = h] /\ tpc' = [tpc EXCEPT ![t] = "idle"]
      /\ UNCHANGED <<list, failed, hour>> /\ tpc[t] = "add"
      BY DEF AddSample, QueryFrame, At
<1>2. Searching(t) /\ order[t] \in Seq(Servers) /\ list[t] \in Seq(Servers)
      BY <1>1 DEF ThreadsInv, ThreadTyped
<1>3. /\ h \in Range(order[t]) /\ h \in Servers
      /\ \A x \in Range(order[t]) : h.priority <= x.priority
      BY <1>2, RangeTail DEF Searching
<1> HIDE DEF h
<1>4. ThreadTyped'
      BY <1>1 DEF ThreadsInv, ThreadTyped
<1>5. answer'[t] = h /\ tpc'[t] = "idle"
      BY <1>1 DEF ThreadsInv, ThreadTyped
<1>6. \A s \in Range(list[t]) : s.priority \in Nat
      BY <1>2, ForwardingAssumption DEF Range
<1>7. Outcome(t)'
  <2>1. h \in Range(list[t])
        BY <1>2, <1>3 DEF Searching
  <2>2. ASSUME NEW s \in Range(list[t]), s.priority < h.priority
        PROVE  s \in Range(failed[t])
        BY <1>2, <1>3, <1>6, <2>1, <2>2 DEF Searching
  <2> QED
      BY <1>1, <1>5, <2>1, <2>2 DEF Outcome
<1> QED
    BY <1>1, <1>4, <1>5, <1>7, ThreadAlone DEF ThreadsInv, ThreadTyped

LEMMA ThreadsStep == ThreadsInv /\ ListsInv /\ [Next]_vars => ThreadsInv'
<1> SUFFICES ASSUME ThreadsInv, ListsInv, [Next]_vars PROVE ThreadsInv'
    OBVIOUS
<1>0. ListsInv' /\ hour <= hour'
      BY ListsStep
<1>1. CASE \E t \in Threads : Query(t) \/ \E o \in balanced_order(upstreams) : Forward(t, o)
      BY <1>1, ForwardThreads, WaitThreads, SendFailsThreads, AddSampleThreads DEF Query
<1>2. CASE BeginPass \/ Prober \/ FlushFails
  <2>1. UNCHANGED <<threadVars, queryHistory>>
        BY <1>2 DEF BeginPass, Prober, FlushFails, FindTargets, ReadByAddress,
             ReadMarkClock, MarkProbed, ProbeFails, ProbeAnswers, AddProbe, FlushSwap,
             FlushStore, ProberFrame
  <2> QED
      BY <1>0, <2>1, ThreadsFrame
<1>3. CASE Interrupt \/ StopSwap \/ StopStore \/ StopFails
  <2>1. UNCHANGED <<threadVars, queryHistory>>
        BY <1>3 DEF Interrupt, StopSwap, StopStore, StopFails, MainFrame
  <2> QED
      BY <1>0, <2>1, ThreadsFrame
<1>4. CASE Exit \/ Crash
  <2>1. /\ tpc' = [t \in Threads |-> "idle"] /\ order' = [t \in Threads |-> <<>>]
        /\ tstamp' = [t \in Threads |-> NoHour]
        /\ list' = [t \in Threads |-> <<>>] /\ failed' = [t \in Threads |-> <<>>]
        /\ answer' = [t \in Threads |-> NoServer]
        BY <1>4 DEF Exit, Crash, End
  <2>2. ThreadTyped'
        BY <2>1 DEF ThreadTyped
  <2>3. \A t \in Threads : Outcome(t)' /\ tpc'[t] = "idle"
        BY <2>1 DEF Outcome
  <2> QED
      BY <2>2, <2>3 DEF ThreadsInv
<1>5. CASE Edits \/ Reload \/ Tick \/ UNCHANGED vars
  <2>1. UNCHANGED <<threadVars, queryHistory>>
        BY <1>5 DEF Edits, CreateUpstream, UpdateUpstream, DeleteUpstream, Request,
             Reload, Tick, vars
  <2> QED
      BY <1>0, <2>1, ThreadsFrame
<1> QED
    BY <1>1, <1>2, <1>3, <1>4, <1>5 DEF Next, Main

(* _forward: what a thread has tried and what it has still to try make up  *)
(* the list it read, in its order, for every interleaving.                 *)
THEOREM ThreadsInvariant == Spec => []ThreadsInv
<1>1. Init => ThreadsInv
  <2> SUFFICES ASSUME Init PROVE ThreadsInv
      OBVIOUS
  <2>1. ThreadTyped
        BY DEF Init, ThreadTyped
  <2>2. \A t \in Threads : Outcome(t) /\ tpc[t] = "idle"
        BY DEF Init, Outcome
  <2> QED
      BY <2>1, <2>2 DEF ThreadsInv
<1> QED
    BY <1>1, ListsInvariant, ThreadsStep, PTL DEF Spec

(* _forward: whatever the list, the number of threads and the failures, an *)
(* answer comes from a server of the list read, after all servers of a     *)
(* smaller priority number have failed, and SERVFAIL after all of them.    *)
THEOREM FailoverTheorem == Spec => []FailoverOrder
<1>1. ThreadsInv => FailoverOrder
  <2> SUFFICES ASSUME ThreadsInv, NEW t \in Threads
               PROVE  LET tried == Range(failed[t])
                          read == Range(list[t])
                      IN  CASE answer[t] = NoServer -> TRUE
                            [] answer[t] = ServFail -> tried = read
                            [] OTHER -> /\ answer[t] \in read
                                        /\ \A s \in read :
                                             s.priority < answer[t].priority => s \in tried
      BY DEF FailoverOrder
  <2>1. Outcome(t) /\ list[t] \in Seq(Servers)
        BY DEF ThreadsInv, ThreadTyped
  <2>2. Range(list[t]) \subseteq Servers
        BY <2>1 DEF Range
  <2>3. NoServer \notin Servers /\ ServFail \notin Servers /\ NoServer # ServFail
        BY ForwardingAssumption DEF NoServer, ServFail
  <2> QED
      BY <2>1, <2>2, <2>3 DEF Outcome
<1> QED
    BY <1>1, ThreadsInvariant, PTL

-----------------------------------------------------------------------------
(* The rtt thread and the coverage: types, and the order of its clocks.    *)
PassPlaces == {"map", "clock", "mark", "probe", "add"}

ProberTyped ==
  /\ ppc \in {"idle", "uncovered", "flush", "write"} \cup PassPlaces
  /\ plist \in Seq(Addresses)
  /\ targets \subseteq DOMAIN plist /\ behind \subseteq DOMAIN plist
  /\ ppc \in PassPlaces <=> targets # {}
  /\ phour \in {NoHour} \cup 0..hour /\ pstamp \in {NoHour} \cup 0..hour
  /\ ppc \in PassPlaces \cup {"uncovered"} => phour \in 0..hour /\ behind = {}
  /\ ppc = "uncovered" => pstamp = phour
  /\ ppc \in {"mark", "add"} => pstamp \in phour..hour
  /\ passes \in Nat /\ ends \in Nat

CoverTyped ==
  /\ covered_hour \in {NoHour} \cup 0..hour /\ covered \subseteq Addresses
  /\ covered_hour = NoHour => covered = {}
  /\ setbacks \in [Hours -> Nat]
  /\ probes \in [Addresses -> [Hours -> SUBSET (0..passes)]]

PInv == ProberTyped /\ CoverTyped

LEMMA MinOfNats ==
  ASSUME NEW S, S \subseteq Nat, S # {}
  PROVE  Min(S) \in S
<1> DEFINE R == OpToRel(<, Nat)
<1>1. IsWellFoundedOn(R, Nat)
      BY NatLessThanWellFounded
<1>2. \A x, y \in Nat : y < x => <<y, x>> \in R
      BY DEF OpToRel
<1> HIDE DEF R
<1>3. PICK m \in S : \A y \in S : ~(<<y, m>> \in R)
      BY <1>1, WFMin
<1>4. ASSUME NEW y \in S PROVE m <= y
  <2>1. y \in Nat /\ m \in Nat
        OBVIOUS
  <2>2. ~(y < m)
        BY <1>2, <1>3, <2>1
  <2> QED
      BY <2>1, <2>2
<1> QED
    BY <1>3, <1>4 DEF Min

LEMMA TargetTyped ==
  ASSUME ProberTyped, targets # {}
  PROVE  Min(targets) \in targets /\ Target \in Addresses
<1>1. targets \subseteq Nat /\ \A i \in DOMAIN plist : plist[i] \in Addresses
      BY DEF ProberTyped
<1>2. Min(targets) \in targets
      BY <1>1, MinOfNats
<1> QED
    BY <1>1, <1>2 DEF Target, ProberTyped

LEMMA HoursTyped ==
  ASSUME ListsInv
  PROVE  /\ MaxHour \in Nat /\ Hours = 0..MaxHour /\ hour \in Nat /\ hour <= MaxHour
         /\ 0..hour \subseteq Hours /\ NoHour = -1
BY ForwardingAssumption DEF ListsInv, Hours, NoHour

LEMMA SampleTyped ==
  ASSUME ThreadsInv, NEW t \in Threads, tpc[t] = "add"
  PROVE  tstamp[t] \in 0..hour /\ Head(order[t]).address \in Addresses
<1>1. Searching(t) /\ order[t] \in Seq(Servers)
      BY DEF ThreadsInv, ThreadTyped
<1>2. Head(order[t]) \in Servers
      BY <1>1, RangeTail DEF Searching
<1> QED
    BY <1>1, <1>2 DEF Searching, Addresses

(* What a mark does: the types stay, the counts of late marks only grow,   *)
(* and an address loses the current hour's coverage only with one more.    *)
Loose(a) == ~(covered_hour = hour /\ a \in covered)

LEMMA MarkEffect ==
  ASSUME ListsInv, PInv, NEW h \in 0..hour, NEW a \in Addresses, Mark(h, a), hour' = hour
  PROVE  /\ covered_hour' = h /\ covered' \subseteq Addresses /\ a \in covered'
         /\ \A b \in covered' : b = a \/ (b \in covered /\ covered_hour = h)
         /\ setbacks' \in [Hours -> Nat] /\ \A x \in Hours : setbacks[x] <= setbacks'[x]
         /\ h = hour => ~Loose(a)'
         /\ \A b \in Addresses : Loose(b)' => Loose(b) \/ setbacks'[hour] = setbacks[hour] + 1
<1>0. h \in Nat /\ hour \in Nat /\ hour \in Hours /\ 0..hour \subseteq Hours
      BY HoursTyped DEF ListsInv
<1>1. covered_hour' = h /\ covered' \subseteq Addresses /\ a \in covered'
      BY DEF Mark, PInv, CoverTyped
<1>2. \A b \in covered' : b = a \/ (b \in covered /\ covered_hour = h)
      BY DEF Mark
<1>3. setbacks \in [Hours -> Nat] /\ covered_hour \in {NoHour} \cup 0..hour
      BY DEF PInv, CoverTyped
<1>4. CASE h < covered_hour
  <2>1. covered_hour \in Hours
        BY <1>0, <1>3, <1>4 DEF NoHour
  <2>2. setbacks' = [setbacks EXCEPT ![covered_hour] = setbacks[covered_hour] + 1]
        BY <1>3, <1>4, <2>1 DEF Mark
  <2>3. setbacks' \in [Hours -> Nat] /\ \A x \in Hours : setbacks[x] <= setbacks'[x]
        BY <1>3, <2>1, <2>2
  <2>4. \A b \in Addresses : ~Loose(b) => setbacks'[hour] = setbacks[hour] + 1
        BY <1>0, <1>3, <2>2 DEF Loose
  <2>5. h = hour => ~Loose(a)'
        BY <1>1 DEF Loose
  <2> QED
      BY <1>1, <1>2, <2>3, <2>4, <2>5
<1>5. CASE ~(h < covered_hour)
  <2>1. setbacks' = setbacks
        BY <1>5 DEF Mark
  <2>2. \A x \in Hours : setbacks[x] <= setbacks[x]
        BY <1>3
  <2>3. ASSUME NEW b \in Addresses, ~Loose(b) PROVE ~Loose(b)'
    <3>1. covered_hour = hour /\ b \in covered
          BY <2>3 DEF Loose
    <3>2. h = hour
          BY <3>1, <1>0, <1>5
    <3>3. b \in covered'
          BY <3>1, <3>2 DEF Mark
    <3> QED
        BY <3>2, <3>3, <1>1 DEF Loose
  <2>4. h = hour => ~Loose(a)'
        BY <1>1 DEF Loose
  <2> QED
      BY <1>1, <1>2, <1>3, <2>1, <2>2, <2>3, <2>4
<1> QED
    BY <1>4, <1>5

-----------------------------------------------------------------------------
(* The invariant behind GapsClosed and ProbesBounded.                      *)
Closed(a) == \E h \in phour..MaxHour : Seen(a, h)
Room(a, h) == Cardinality(probes[a][h]) <= setbacks[h] + ends

(* Coverage: what counts as covered was seen; an address that is not       *)
(* covered in the current hour has not used up its probes.                 *)
CoverInv ==
  /\ CoverTyped
  /\ \A a \in covered : Seen(a, covered_hour)
  /\ ProbesBounded
  /\ \A a \in Addresses, h \in Hours : h > hour => probes[a][h] = {}
  /\ \A a \in Addresses : Loose(a) => Room(a, hour)

(* A pass: what it need not probe, or has probed, is closed; for what it   *)
(* has still to probe there is room in the hour the pass began in, and in  *)
(* a later hour no other pass can have come first.                         *)
PassInv ==
  /\ ProberTyped
  /\ ppc \in PassPlaces \cup {"flush"} =>
       \A i \in DOMAIN plist \ (targets \cup behind) : Closed(plist[i])
  /\ ppc \in {"probe", "add"} => Closed(Target)
  /\ ppc \in PassPlaces \cup {"uncovered"} =>
       \A a \in Addresses, h \in Hours : h > phour => probes[a][h] \subseteq {passes}
  /\ (ppc \in PassPlaces /\ (hour = phour \/ (ppc = "mark" /\ pstamp = phour))) =>
       \A i \in targets : passes \in probes[plist[i]][phour] \/ Room(plist[i], phour)

LEMMA ProbesFinite ==
  ASSUME CoverTyped, passes \in Nat, NEW a \in Addresses, NEW h \in Hours
  PROVE  /\ IsFiniteSet(probes[a][h]) /\ Cardinality(probes[a][h]) \in Nat
         /\ setbacks[h] \in Nat
<1>1. probes[a][h] \in SUBSET (0..passes)
      BY DEF CoverTyped
<1>2. IsFiniteSet(0..passes)
      BY FS_Interval
<1>3. IsFiniteSet(probes[a][h])
      BY <1>1, <1>2, FS_Subset
<1> QED
    BY <1>3, FS_CardinalityType DEF CoverTyped

LEMMA CoverSame ==
  ASSUME CoverInv, passes \in Nat, passes' \in Nat, passes <= passes',
         UNCHANGED <<hour, covered_hour, covered, setbacks, probes, filed, skipped, ends>>
  PROVE  CoverInv'
<1>1. 0..passes \subseteq 0..passes'
      OBVIOUS
<1>2. CoverTyped'
      BY <1>1 DEF CoverInv, CoverTyped
<1> QED
    BY <1>2 DEF CoverInv, Seen, ProbesBounded, Loose, Room

LEMMA CoverAdd ==
  ASSUME ListsInv, CoverInv, ProberTyped, NEW h \in 0..hour, NEW a \in Addresses,
         Add(h, a), UNCHANGED <<hour, probes, skipped, ends, passes>>
  PROVE  CoverInv' /\ filed \subseteq filed' /\ \A x \in Hours : setbacks[x] <= setbacks'[x]
<1>0. PInv /\ hour \in Hours /\ Mark(h, a) /\ filed' = filed \cup {<<h, a>>}
      BY DEF PInv, CoverInv, ListsInv, Add
<1>1. /\ covered_hour' = h /\ covered' \subseteq Addresses
      /\ \A b \in covered' : b = a \/ (b \in covered /\ covered_hour = h)
      /\ setbacks' \in [Hours -> Nat] /\ \A x \in Hours : setbacks[x] <= setbacks'[x]
      /\ \A b \in Addresses : Loose(b)' => Loose(b) \/ setbacks'[hour] = setbacks[hour] + 1
      BY <1>0, MarkEffect
<1>2. h # NoHour
      BY HoursTyped
<1>3. CoverTyped'
      BY <1>1, <1>2 DEF CoverInv, CoverTyped
<1>4. \A b \in covered' : Seen(b, covered_hour)'
      BY <1>0, <1>1 DEF CoverInv, Seen
<1>5. passes \in Nat /\ ends \in Nat
      BY DEF ProberTyped
<1>6. ASSUME NEW b \in Addresses, NEW x \in Hours
      PROVE  Cardinality(probes'[b][x]) <= 1 + setbacks'[x] + ends'
  <2>1. Cardinality(probes[b][x]) <= 1 + setbacks[x] + ends
        BY DEF CoverInv, ProbesBounded
  <2>2. Cardinality(probes[b][x]) \in Nat /\ setbacks[x] \in Nat /\ setbacks'[x] \in Nat
        BY <1>1, <1>5, ProbesFinite DEF CoverInv
  <2> QED
      BY <2>1, <2>2, <1>1, <1>5
<1>7. ASSUME NEW b \in Addresses, Loose(b)'
      PROVE  Room(b, hour)'
  <2>1. /\ Cardinality(probes[b][hour]) \in Nat
        /\ setbacks[hour] \in Nat /\ setbacks'[hour] \in Nat
        BY <1>0, <1>1, <1>5, ProbesFinite DEF CoverInv
  <2>2. CASE Loose(b)
        BY <2>1, <2>2, <1>0, <1>1, <1>5 DEF CoverInv, Room
  <2>3. CASE setbacks'[hour] = setbacks[hour] + 1
        BY <2>1, <2>3, <1>0, <1>5 DEF CoverInv, ProbesBounded, Room
  <2> QED
      BY <1>1, <1>7, <2>2, <2>3
<1> QED
    BY <1>0, <1>1, <1>3, <1>4, <1>6, <1>7 DEF CoverInv, ProbesBounded

LEMMA CoverTick ==
  ASSUME ListsInv, ListsInv', CoverInv, ProberTyped, hour' = hour + 1,
         UNCHANGED <<covered_hour, covered, setbacks, probes, filed, skipped, ends, passes>>
  PROVE  CoverInv'
<1>1. /\ hour \in Nat /\ hour' \in Hours /\ passes \in Nat /\ ends \in Nat
      /\ 0..hour \subseteq 0..hour' /\ Hours \subseteq Nat
      BY HoursTyped DEF ListsInv, ProberTyped
<1>2. CoverTyped'
      BY <1>1 DEF CoverInv, CoverTyped
<1>3. ASSUME NEW a \in Addresses, NEW h \in Hours, h > hour'
      PROVE  probes'[a][h] = {}
  <2>1. h > hour
        BY <1>1, <1>3
  <2> QED
      BY <2>1 DEF CoverInv
<1>4. ASSUME NEW a \in Addresses PROVE Room(a, hour)'
  <2>1. probes'[a][hour'] = {}
        BY <1>1 DEF CoverInv
  <2>2. Cardinality({}) = 0 /\ setbacks'[hour'] \in Nat
        BY <1>1, FS_EmptySet DEF CoverInv, CoverTyped
  <2> QED
      BY <2>1, <2>2, <1>1 DEF Room
<1> QED
    BY <1>2, <1>3, <1>4 DEF CoverInv, Seen, ProbesBounded

LEMMA CoverEnd ==
  ASSUME ListsInv, CoverInv, ProberTyped, End
  PROVE  CoverInv'
<1>0. /\ passes \in Nat /\ ends \in Nat /\ ends' = ends + 1 /\ hour \in Hours
      /\ covered_hour' = NoHour /\ covered' = {}
      /\ UNCHANGED <<hour, setbacks, probes, filed, skipped, passes>>
      BY DEF ListsInv, ProberTyped, End, bounds
<1>1. CoverTyped'
      BY <1>0 DEF CoverInv, CoverTyped
<1>2. ASSUME NEW a \in Addresses, NEW h \in Hours
      PROVE  Cardinality(probes'[a][h]) <= setbacks'[h] + ends'
  <2>1. Cardinality(probes[a][h]) \in Nat /\ setbacks[h] \in Nat
        BY <1>0, ProbesFinite DEF CoverInv
  <2>2. Cardinality(probes[a][h]) <= 1 + setbacks[h] + ends
        BY DEF CoverInv, ProbesBounded
  <2> QED
      BY <1>0, <2>1, <2>2
<1>3. ASSUME NEW a \in Addresses, NEW h \in Hours
      PROVE  Cardinality(probes'[a][h]) <= 1 + setbacks'[h] + ends'
  <2>1. Cardinality(probes'[a][h]) \in Nat /\ setbacks'[h] \in Nat
        BY <1>0, ProbesFinite DEF CoverInv
  <2> QED
      BY <1>0, <1>2, <2>1
<1> QED
    BY <1>0, <1>1, <1>2, <1>3 DEF CoverInv, ProbesBounded, Room

LEMMA CoverMarkProbed ==
  ASSUME ListsInv, CoverInv, PassInv, MarkProbed
  PROVE  CoverInv'
<1> PICK a : a = Target
    OBVIOUS
<1> PICK h : h = pstamp
    OBVIOUS
<1>0. /\ ppc = "mark" /\ targets # {} /\ h \in phour..hour /\ phour \in 0..hour
      /\ passes \in Nat /\ ends \in Nat
      /\ UNCHANGED <<hour, passes, ends, filed>>
      BY DEF MarkProbed, PassInv, ProberTyped, PassPlaces, ProberFrame, mainVars
<1>1. Min(targets) \in targets /\ a \in Addresses
      BY <1>0, TargetTyped DEF PassInv
<1>2. h \in 0..hour /\ h \in Hours /\ hour \in Hours /\ hour \in Nat /\ Hours \subseteq Nat
      BY <1>0, HoursTyped DEF ListsInv
<1>3. PInv /\ Mark(h, a)
      BY DEF PInv, PassInv, CoverInv, MarkProbed
<1>4. /\ covered_hour' = h /\ covered' \subseteq Addresses
      /\ \A b \in covered' : b = a \/ (b \in covered /\ covered_hour = h)
      /\ setbacks' \in [Hours -> Nat] /\ \A x \in Hours : setbacks[x] <= setbacks'[x]
      /\ h = hour => ~Loose(a)'
      /\ \A b \in Addresses : Loose(b)' => Loose(b) \/ setbacks'[hour] = setbacks[hour] + 1
      BY <1>0, <1>1, <1>2, <1>3, MarkEffect
<1>5. h # NoHour
      BY <1>2, HoursTyped
<1>6. \/ /\ probes' = [probes EXCEPT ![a][h] = probes[a][h] \cup {passes}]
         /\ skipped' = skipped
      \/ probes' = probes /\ skipped' = skipped \cup {<<h, a>>}
      BY <1>1, <1>2 DEF MarkProbed, CoverInv, CoverTyped
<1>7. probes \in [Addresses -> [Hours -> SUBSET (0..passes)]] /\ setbacks \in [Hours -> Nat]
      BY DEF CoverInv, CoverTyped
<1>8. /\ \A b \in Addresses, x \in Hours : (b # a \/ x # h) => probes'[b][x] = probes[b][x]
      /\ probes'[a][h] = probes[a][h] \cup {passes} \/ probes'[a][h] = probes[a][h]
      /\ Seen(a, h)'
  <2>1. CASE /\ probes' = [probes EXCEPT ![a][h] = probes[a][h] \cup {passes}]
             /\ skipped' = skipped
    <3>1. probes'[a][h] = probes[a][h] \cup {passes}
          BY <1>1, <1>2, <1>7, <2>1
    <3>2. ASSUME NEW b \in Addresses, NEW x \in Hours, b # a \/ x # h
          PROVE  probes'[b][x] = probes[b][x]
          BY <1>1, <1>2, <1>7, <2>1, <3>2
    <3> QED
        BY <3>1, <3>2 DEF Seen
  <2>2. CASE probes' = probes /\ skipped' = skipped \cup {<<h, a>>}
        BY <2>2 DEF Seen
  <2> QED
      BY <1>6, <2>1, <2>2
<1>9. CoverTyped'
      BY <1>0, <1>1, <1>2, <1>4, <1>5, <1>6, <1>7 DEF CoverInv, CoverTyped
<1>10. \A b \in covered' : Seen(b, covered_hour)'
  <2> TAKE b \in covered'
  <2>1. CASE b = a
        BY <2>1, <1>4, <1>8
  <2>2. CASE b # a
    <3>1. b \in Addresses /\ Seen(b, h)
          BY <2>2, <1>4 DEF CoverInv
    <3>2. probes'[b][h] = probes[b][h] /\ skipped \subseteq skipped'
          BY <2>2, <3>1, <1>2, <1>6, <1>8
    <3> QED
        BY <3>1, <3>2, <1>0, <1>4 DEF Seen
  <2> QED
      BY <2>1, <2>2
<1>11. passes \in probes[a][h] \/ Cardinality(probes[a][h]) <= setbacks[h] + ends
  <2>1. CASE h = phour
    <3>1. \A i \in targets : passes \in probes[plist[i]][phour] \/ Room(plist[i], phour)
          BY <1>0, <2>1 DEF PassInv, PassPlaces
    <3>2. a = plist[Min(targets)]
          BY DEF Target
    <3> QED
        BY <2>1, <3>1, <3>2, <1>1 DEF Room
  <2>2. CASE h > phour
    <3>1. probes[a][h] \subseteq {passes}
          BY <1>0, <1>1, <1>2, <2>2 DEF PassInv, PassPlaces
    <3>2. probes[a][h] = {} \/ passes \in probes[a][h]
          BY <3>1
    <3>3. Cardinality({}) = 0 /\ setbacks[h] \in Nat
          BY <1>2, <1>7, FS_EmptySet
    <3>4. CASE probes[a][h] = {}
      <4>1. Cardinality(probes[a][h]) = 0
            BY <3>3, <3>4
      <4> QED
          BY <4>1, <3>3, <1>0
    <3> QED
        BY <3>2, <3>4
  <2> QED
      BY <2>1, <2>2, <1>0, <1>2
<1>12. ASSUME NEW b \in Addresses, NEW x \in Hours
       PROVE  Cardinality(probes'[b][x]) <= 1 + setbacks'[x] + ends'
  <2>1. Cardinality(probes[b][x]) <= 1 + setbacks[x] + ends
        BY DEF CoverInv, ProbesBounded
  <2>2. /\ IsFiniteSet(probes[b][x]) /\ Cardinality(probes[b][x]) \in Nat
        /\ setbacks[x] \in Nat /\ setbacks'[x] \in Nat /\ setbacks[x] <= setbacks'[x]
        BY <1>0, <1>4, ProbesFinite DEF CoverInv
  <2>3. CASE probes'[b][x] = probes[b][x]
        BY <2>1, <2>2, <2>3, <1>0
  <2>4. CASE /\ b = a /\ x = h /\ probes'[a][h] = probes[a][h] \cup {passes}
             /\ passes \notin probes[a][h]
    <3>1. Cardinality(probes[b][x] \cup {passes}) = Cardinality(probes[b][x]) + 1
          BY <2>2, <2>4, FS_AddElement
    <3>2. Cardinality(probes[b][x]) <= setbacks[x] + ends
          BY <2>4, <1>11
    <3> QED
        BY <3>1, <3>2, <2>2, <2>4, <1>0
  <2>5. passes \in probes[a][h] => probes[a][h] \cup {passes} = probes[a][h]
        OBVIOUS
  <2> QED
      BY <2>3, <2>4, <2>5, <1>8
<1>13. ASSUME NEW b \in Addresses, NEW x \in Hours, x > hour
       PROVE  probes'[b][x] = {}
  <2>1. x # h /\ probes[b][x] = {}
        BY <1>2, <1>13 DEF CoverInv
  <2> QED
      BY <2>1, <1>8
<1>14. ASSUME NEW b \in Addresses, Loose(b)'
       PROVE  Room(b, hour)'
  <2>1. /\ Cardinality(probes[b][hour]) \in Nat
        /\ setbacks[hour] \in Nat /\ setbacks'[hour] \in Nat
        BY <1>0, <1>2, <1>4, ProbesFinite DEF CoverInv
  <2>2. probes'[b][hour] = probes[b][hour]
        BY <1>2, <1>4, <1>8, <1>14
  <2>3. CASE Loose(b)
        BY <2>1, <2>2, <2>3, <1>0, <1>2, <1>4 DEF CoverInv, Room
  <2>4. CASE setbacks'[hour] = setbacks[hour] + 1
        BY <2>1, <2>2, <2>4, <1>0, <1>2 DEF CoverInv, ProbesBounded, Room
  <2> QED
      BY <1>4, <1>14, <2>3, <2>4
<1> QED
    BY <1>0, <1>9, <1>10, <1>12, <1>13, <1>14 DEF CoverInv, ProbesBounded

-----------------------------------------------------------------------------
(* The steps and the pass.                                                 *)
Grown ==
  /\ filed \subseteq filed' /\ skipped \subseteq skipped' /\ ends' = ends
  /\ \A h \in Hours : setbacks[h] <= setbacks'[h]
  /\ setbacks' \in [Hours -> Nat]

LEMMA ClosedKept ==
  ASSUME NEW a, Closed(a), Grown, UNCHANGED <<probes, phour>>
  PROVE  Closed(a)'
BY DEF Closed, Seen, Grown

LEMMA RoomKept ==
  ASSUME CoverInv, ProberTyped, NEW a \in Addresses, NEW h \in Hours,
         Room(a, h), Grown, UNCHANGED probes
  PROVE  Room(a, h)'
<1>1. /\ Cardinality(probes[a][h]) \in Nat /\ setbacks[h] \in Nat /\ setbacks'[h] \in Nat
      /\ ends \in Nat
      BY ProbesFinite DEF CoverInv, ProberTyped, Grown
<1> QED
    BY <1>1 DEF Room, Grown

(* The pass is not disturbed by what other threads do, nor by the clock.   *)
LEMMA PassApart ==
  ASSUME ListsInv, ListsInv', CoverInv, PassInv, Grown, hour <= hour',
         UNCHANGED <<ppc, targets, pstamp, plist, phour, behind, passes, probes>>
  PROVE  PassInv'
<1>0. hour \in Nat /\ hour' \in Nat /\ 0..hour \subseteq 0..hour' /\ 0..hour \subseteq Hours
      BY HoursTyped DEF ListsInv, Hours
<1>1. ProberTyped'
  <2>1. ppc \in {"mark", "add"} => pstamp \in phour..hour'
        BY <1>0 DEF PassInv, ProberTyped, PassPlaces
  <2> QED
      BY <1>0, <2>1 DEF PassInv, ProberTyped, Grown
<1>2. ppc \in PassPlaces \cup {"flush"} =>
        \A i \in DOMAIN plist \ (targets \cup behind) : Closed(plist[i])'
      BY ClosedKept DEF PassInv
<1>3. ppc \in {"probe", "add"} => Closed(Target)'
  <2>1. Target' = Target
        BY DEF Target
  <2> QED
      BY <2>1, ClosedKept DEF PassInv
<1>4. ASSUME ppc \in PassPlaces, hour' = phour \/ (ppc = "mark" /\ pstamp = phour),
             NEW i \in targets
      PROVE  passes \in probes[plist[i]][phour] \/ Room(plist[i], phour)'
  <2>1. phour \in 0..hour /\ phour \in Hours /\ plist[i] \in Addresses
        BY <1>0, <1>4 DEF PassInv, ProberTyped
  <2>2. hour = phour \/ (ppc = "mark" /\ pstamp = phour)
        BY <1>0, <1>4, <2>1
  <2>3. passes \in probes[plist[i]][phour] \/ Room(plist[i], phour)
        BY <1>4, <2>2 DEF PassInv
  <2> QED
      BY <2>1, <2>3, RoomKept DEF PassInv
<1> QED
    BY <1>1, <1>2, <1>3, <1>4 DEF PassInv

LEMMA PassRest ==
  ASSUME ListsInv', passes' \in Nat, ends' \in Nat, targets' = {},
         ppc' \in {"idle", "flush", "write"}, plist' = <<>>, behind' = {},
         phour' \in {NoHour} \cup 0..hour', pstamp' \in {NoHour} \cup 0..hour'
  PROVE  PassInv'
<1>1. plist' \in Seq(Addresses) /\ DOMAIN plist' = {} /\ behind' \subseteq {}
      OBVIOUS
<1>2. ppc' \notin PassPlaces
      BY DEF PassPlaces
<1> QED
    BY <1>1, <1>2 DEF PassInv, ProberTyped

LEMMA BeginPassKeeps ==
  ASSUME ListsInv, CoverInv, PassInv, BeginPass
  PROVE  CoverInv' /\ PassInv'
<1>0. /\ ppc = "idle" /\ ppc' = "uncovered" /\ passes' = passes + 1
      /\ plist' = AddressesOf(upstreams) /\ phour' = hour /\ pstamp' = hour /\ behind' = {}
      /\ UNCHANGED <<targets, hour, ends, probes, filed, skipped, setbacks, covered, covered_hour>>
      BY DEF BeginPass, NoMark, ProberFrame, mainVars, rttVars
<1>1. passes \in Nat /\ ends \in Nat /\ targets = {} /\ hour \in Nat
      BY <1>0, HoursTyped DEF PassInv, ProberTyped, PassPlaces
<1>2. passes' \in Nat /\ passes <= passes'
      BY <1>0, <1>1
<1>3. CoverInv'
      BY <1>0, <1>1, <1>2, CoverSame
<1>4. plist' \in Seq(Addresses)
      BY <1>0 DEF AddressesOf, Addresses, ListsInv
<1>5. ProberTyped'
      BY <1>0, <1>1, <1>2, <1>4 DEF ProberTyped, PassPlaces
<1>6. \A a \in Addresses, h \in Hours : h > phour' => probes'[a][h] \subseteq {passes'}
      BY <1>0 DEF CoverInv
<1> QED
    BY <1>0, <1>3, <1>5, <1>6 DEF PassInv, PassPlaces

LEMMA FindTargetsKeeps ==
  ASSUME ListsInv, CoverInv, PassInv, FindTargets
  PROVE  CoverInv' /\ PassInv'
<1>0. /\ ppc = "uncovered" /\ targets' = uncovered(pstamp, plist)
      /\ ppc' = IF targets' = {} THEN "flush" ELSE "map"
      /\ UNCHANGED <<pstamp, plist, phour, behind, passes, hour, ends, probes, filed, skipped,
                     setbacks, covered, covered_hour>>
      BY DEF FindTargets, NoMark, ProberFrame, mainVars, rttVars, passHistory
<1>1. /\ passes \in Nat /\ passes <= passes /\ phour \in 0..hour /\ pstamp = phour
      /\ plist \in Seq(Addresses)
      BY <1>0 DEF PassInv, ProberTyped, PassPlaces
<1>2. CoverInv'
      BY <1>0, <1>1, CoverSame
<1>3. targets' \subseteq DOMAIN plist
      BY <1>0 DEF uncovered
<1>4. ProberTyped'
      BY <1>0, <1>1, <1>3 DEF PassInv, ProberTyped, PassPlaces
<1>5. ASSUME NEW i \in DOMAIN plist \ targets'
      PROVE  Closed(plist[i])'
  <2>1. covered_hour = phour /\ plist[i] \in covered
        BY <1>0, <1>1, <1>5 DEF uncovered
  <2>2. Seen(plist[i], phour)
        BY <2>1 DEF CoverInv
  <2>3. phour \in phour..MaxHour
        BY <1>1, HoursTyped
  <2> QED
      BY <1>0, <2>2, <2>3 DEF Closed, Seen
<1>6. ASSUME hour = phour, NEW i \in targets'
      PROVE  Room(plist[i], phour)'
  <2>1. plist[i] \in Addresses /\ Loose(plist[i])
        BY <1>0, <1>1, <1>3, <1>6 DEF uncovered, Loose
  <2>2. Room(plist[i], hour)
        BY <2>1 DEF CoverInv
  <2> QED
      BY <1>0, <1>6, <2>2 DEF Room
<1>7. ppc' # "mark" /\ ppc' \notin {"probe", "add"}
      BY <1>0
<1>8. \A a \in Addresses, h \in Hours : h > phour' => probes'[a][h] \subseteq {passes'}
      BY <1>0 DEF PassInv
<1> QED
    BY <1>0, <1>2, <1>4, <1>5, <1>6, <1>7, <1>8 DEF PassInv

LEMMA ClocksKeep ==
  ASSUME ListsInv, CoverInv, PassInv, ReadByAddress \/ ReadMarkClock \/ ProbeAnswers
  PROVE  CoverInv' /\ PassInv'
<1>0. /\ UNCHANGED <<targets, plist, phour, behind, passes, hour, ends, probes, filed, skipped,
                     setbacks, covered, covered_hour>>
      /\ \/ ppc = "map" /\ ppc' = "clock" /\ pstamp' = pstamp
         \/ ppc = "clock" /\ ppc' = "mark" /\ pstamp' = hour
         \/ ppc = "probe" /\ ppc' = "add" /\ pstamp' = hour
      BY DEF ReadByAddress, ReadMarkClock, ProbeAnswers, NoMark, ProberFrame, mainVars,
             rttVars, passHistory
<1>1. /\ passes \in Nat /\ passes <= passes /\ phour \in 0..hour /\ hour \in Nat
      /\ ppc \in PassPlaces /\ ppc' \in PassPlaces
      BY <1>0, HoursTyped DEF PassInv, ProberTyped, PassPlaces
<1>2. CoverInv'
      BY <1>0, <1>1, CoverSame
<1>3. hour \in 0..hour /\ hour \in phour..hour
      BY <1>1
<1>4. ProberTyped'
      BY <1>0, <1>1, <1>3 DEF PassInv, ProberTyped
<1>5. \A i \in DOMAIN plist \ (targets \cup behind) : Closed(plist[i])'
      BY <1>0, <1>1 DEF PassInv, Closed, Seen
<1>6. ppc' \in {"probe", "add"} => Closed(Target)'
      BY <1>0 DEF PassInv, Closed, Seen, Target
<1>7. (hour' = phour' \/ (ppc' = "mark" /\ pstamp' = phour')) => hour = phour
      BY <1>0
<1>8. hour = phour => \A i \in targets : passes \in probes[plist[i]][phour] \/ Room(plist[i], phour)
      BY <1>1 DEF PassInv
<1> QED
    BY <1>0, <1>1, <1>2, <1>4, <1>5, <1>6, <1>7, <1>8 DEF PassInv, Room

LEMMA NextTargetKeeps ==
  ASSUME ListsInv, CoverInv, PassInv, ppc \in {"probe", "add"}, NextTarget, Grown,
         UNCHANGED <<pstamp, plist, phour, behind, passes, hour, probes>>
  PROVE  PassInv'
<1>0. ppc \in PassPlaces /\ targets # {} /\ targets \subseteq DOMAIN plist
      BY DEF PassInv, ProberTyped, PassPlaces
<1>1. Min(targets) \in targets
      BY <1>0, TargetTyped DEF PassInv
<1>2. /\ targets' = targets \ {Min(targets)}
      /\ ppc' = IF targets' = {} THEN "flush" ELSE "clock"
      BY DEF NextTarget
<1>3. ProberTyped'
      BY <1>0, <1>2 DEF PassInv, ProberTyped, PassPlaces, Grown
<1>4. ASSUME NEW i \in DOMAIN plist \ (targets' \cup behind) PROVE Closed(plist[i])'
  <2>1. i = Min(targets) \/ i \in DOMAIN plist \ (targets \cup behind)
        BY <1>2
  <2>2. Closed(plist[i])
        BY <1>0, <2>1 DEF PassInv, Target
  <2> QED
      BY <2>2, ClosedKept
<1>5. ASSUME NEW i \in targets', hour = phour
      PROVE  passes \in probes[plist[i]][phour] \/ Room(plist[i], phour)'
  <2>1. i \in targets /\ plist[i] \in Addresses /\ phour \in Hours
        BY <1>0, <1>2, <1>5, HoursTyped DEF PassInv, ProberTyped
  <2>2. passes \in probes[plist[i]][phour] \/ Room(plist[i], phour)
        BY <1>0, <1>5, <2>1 DEF PassInv
  <2> QED
      BY <2>1, <2>2, RoomKept DEF PassInv
<1>6. ppc' \notin {"mark", "probe", "add", "uncovered"}
      BY <1>2
<1>7. \A a \in Addresses, h \in Hours : h > phour' => probes'[a][h] \subseteq {passes'}
      BY <1>0 DEF PassInv
<1> QED
    BY <1>3, <1>4, <1>5, <1>6, <1>7 DEF PassInv

LEMMA ProbeFailsKeeps ==
  ASSUME ListsInv, CoverInv, PassInv, ProbeFails
  PROVE  CoverInv' /\ PassInv'
<1>0. /\ ppc = "probe" /\ NextTarget
      /\ UNCHANGED <<pstamp, plist, phour, behind, passes, hour, ends, probes, filed, skipped,
                     setbacks, covered, covered_hour>>
      BY DEF ProbeFails, NoMark, ProberFrame, mainVars, rttVars, passHistory
<1>1. passes \in Nat /\ passes <= passes
      BY DEF PassInv, ProberTyped
<1>2. CoverInv'
      BY <1>0, <1>1, CoverSame
<1>3. Grown
      BY <1>0 DEF Grown, CoverInv, CoverTyped
<1> QED
    BY <1>0, <1>2, <1>3, NextTargetKeeps

LEMMA AddProbeKeeps ==
  ASSUME ListsInv, CoverInv, PassInv, AddProbe
  PROVE  CoverInv' /\ PassInv'
<1>0. /\ ppc = "add" /\ NextTarget /\ Add(pstamp, Target)
      /\ UNCHANGED <<pstamp, plist, phour, behind, passes, hour, ends, probes, skipped>>
      BY DEF AddProbe, ProberFrame, mainVars, passHistory
<1>1. /\ targets # {} /\ pstamp \in phour..hour /\ phour \in 0..hour /\ ProberTyped
      BY <1>0 DEF PassInv, ProberTyped, PassPlaces
<1>2. Target \in Addresses /\ pstamp \in 0..hour
      BY <1>1, TargetTyped
<1>3. CoverInv' /\ filed \subseteq filed' /\ \A x \in Hours : setbacks[x] <= setbacks'[x]
      BY <1>0, <1>1, <1>2, CoverAdd
<1>4. Grown
      BY <1>0, <1>3 DEF Grown, CoverInv, CoverTyped
<1> QED
    BY <1>0, <1>3, <1>4, NextTargetKeeps

LEMMA MarkProbedKeeps ==
  ASSUME ListsInv, CoverInv, PassInv, MarkProbed
  PROVE  CoverInv' /\ PassInv'
<1> PICK a : a = Target
    OBVIOUS
<1> PICK h : h = pstamp
    OBVIOUS
<1>0. /\ ppc = "mark" /\ targets # {} /\ h \in phour..hour /\ phour \in 0..hour
      /\ targets \subseteq DOMAIN plist /\ \A i \in DOMAIN plist : plist[i] \in Addresses
      /\ passes \in Nat /\ ends \in Nat
      /\ UNCHANGED <<hour, passes, ends, filed, phour, pstamp>>
      BY DEF MarkProbed, PassInv, ProberTyped, PassPlaces, ProberFrame, mainVars
<1>1. CoverInv'
      BY CoverMarkProbed
<1>2. CASE a \notin by_address
  <2>1. /\ ppc' = "flush" /\ targets' = {} /\ behind' = targets \ {Min(targets)}
        /\ skipped' = skipped \cup {<<h, a>>} /\ UNCHANGED <<plist, probes>>
        BY <1>2 DEF MarkProbed
  <2>2. ProberTyped'
        BY <1>0, <2>1 DEF PassInv, ProberTyped, PassPlaces
  <2>3. h \in phour..MaxHour
        BY <1>0, HoursTyped
  <2>4. ASSUME NEW i \in DOMAIN plist \ behind' PROVE Closed(plist[i])'
    <3>1. CASE i = Min(targets)
      <4>1. Seen(plist[i], h)'
            BY <2>1, <3>1 DEF Seen, Target
      <4> QED
          BY <1>0, <2>1, <2>3, <4>1 DEF Closed
    <3>2. CASE i # Min(targets)
      <4>1. i \notin targets
            BY <2>1, <2>4, <3>2
      <4>2. Closed(plist[i])
            BY <1>0, <2>4, <4>1 DEF PassInv, ProberTyped, PassPlaces
      <4> QED
          BY <1>0, <2>1, <4>2 DEF Closed, Seen
    <3> QED
        BY <3>1, <3>2
  <2>5. ppc' \notin PassPlaces \cup {"uncovered"}
        BY <2>1 DEF PassPlaces
  <2> QED
      BY <1>1, <2>1, <2>2, <2>4, <2>5 DEF PassInv, PassPlaces
<1>3. CASE a \in by_address
  <2>1. /\ ppc' = "probe" /\ UNCHANGED <<targets, plist, behind, skipped>>
        /\ probes' = [probes EXCEPT ![a][h] = probes[a][h] \cup {passes}]
        BY <1>3 DEF MarkProbed
  <2>2. /\ a \in Addresses /\ h \in Hours /\ phour \in Hours /\ h \in phour..MaxHour
        /\ Hours \subseteq Nat
        BY <1>0, HoursTyped, TargetTyped DEF PassInv
  <2>3. /\ probes \in [Addresses -> [Hours -> SUBSET (0..passes)]]
        /\ setbacks \in [Hours -> Nat] /\ setbacks' \in [Hours -> Nat]
        BY <1>1 DEF CoverInv, CoverTyped
  <2>4. probes'[a][h] = probes[a][h] \cup {passes}
        BY <2>1, <2>2, <2>3
  <2>5. ASSUME NEW b \in Addresses, NEW x \in Hours, b # a \/ x # h
        PROVE  probes'[b][x] = probes[b][x]
        BY <2>1, <2>2, <2>3, <2>5
  <2>6. ProberTyped'
        BY <1>0, <2>1 DEF PassInv, ProberTyped, PassPlaces
  <2>7. ASSUME NEW b \in Addresses, Closed(b) PROVE Closed(b)'
    <3>1. PICK x \in phour..MaxHour : Seen(b, x)
          BY <2>7 DEF Closed
    <3>2. x \in Hours
          BY <1>0, HoursTyped
    <3>3. probes[b][x] \subseteq probes'[b][x]
          BY <2>4, <2>5, <3>2
    <3>4. Seen(b, x)'
          BY <3>1, <3>3, <1>0, <2>1 DEF Seen
    <3> QED
        BY <1>0, <3>4 DEF Closed
  <2>8. \A i \in DOMAIN plist \ (targets \cup behind) : Closed(plist[i])'
    <3> TAKE i \in DOMAIN plist \ (targets \cup behind)
    <3>1. Closed(plist[i]) /\ plist[i] \in Addresses
          BY <1>0 DEF PassInv, PassPlaces
    <3> QED
        BY <3>1, <2>1, <2>7
  <2>9. Closed(Target)'
    <3>1. Target' = a
          BY <2>1 DEF Target
    <3>2. Seen(a, h)'
          BY <2>4 DEF Seen
    <3> QED
        BY <1>0, <2>2, <3>1, <3>2 DEF Closed
  <2>10. ASSUME NEW b \in Addresses, NEW x \in Hours, x > phour
         PROVE  probes'[b][x] \subseteq {passes}
    <3>1. probes[b][x] \subseteq {passes}
          BY <1>0, <2>10 DEF PassInv, PassPlaces
    <3> QED
        BY <3>1, <2>4, <2>5
  <2>11. ASSUME NEW i \in targets, hour = phour
         PROVE  passes \in probes'[plist[i]][phour] \/ Room(plist[i], phour)'
    <3> PICK b : b = plist[i]
        OBVIOUS
    <3>1. b \in Addresses /\ phour \in Hours
          BY <1>0, <2>2
    <3>2. passes \in probes[b][phour] \/ Room(b, phour)
          BY <1>0, <2>11 DEF PassInv, PassPlaces
    <3>3. CASE b = a /\ phour = h
          BY <3>3, <2>4
    <3>4. CASE b # a \/ phour # h
      <4>1. probes'[b][phour] = probes[b][phour]
            BY <3>1, <3>4, <2>5
      <4>2. setbacks[phour] <= setbacks'[phour]
        <5>1. PInv /\ Mark(h, a) /\ h \in 0..hour
              BY <1>0 DEF PInv, PassInv, CoverInv, MarkProbed
        <5> QED
            BY <5>1, <1>0, <2>2, MarkEffect
      <4>3. Cardinality(probes[b][phour]) \in Nat /\ setbacks[phour] \in Nat
            BY <1>0, <3>1, ProbesFinite DEF CoverInv
      <4>4. Room(b, phour) => Cardinality(probes'[b][phour]) <= setbacks'[phour] + ends
            BY <1>0, <3>1, <2>3, <4>1, <4>2, <4>3 DEF Room
      <4> QED
          BY <1>0, <2>1, <3>2, <4>1, <4>4 DEF Room
    <3> QED
        BY <3>3, <3>4
  <2>12. ppc' # "mark"
        BY <2>1
  <2> QED
      BY <1>0, <1>1, <2>1, <2>6, <2>8, <2>9, <2>10, <2>11, <2>12 DEF PassInv
<1> QED
    BY <1>2, <1>3

LEMMA FlushKeeps ==
  ASSUME ListsInv, ListsInv', CoverInv, PassInv, FlushSwap \/ FlushStore \/ FlushFails
  PROVE  CoverInv' /\ PassInv'
<1>0. /\ ppc \in {"flush", "write"} /\ ppc' \in {"idle", "write"}
      /\ UNCHANGED <<targets, passes, hour, ends, probes, filed, skipped,
                     setbacks, covered, covered_hour>>
      /\ \/ plist' = <<>> /\ phour' = NoHour /\ pstamp' = NoHour /\ behind' = {}
         \/ UNCHANGED <<plist, phour, pstamp, behind>>
      BY DEF FlushSwap, FlushStore, FlushFails, NoMark, ProberFrame, mainVars,
             rttVars, passHistory
<1>1. passes \in Nat /\ passes <= passes /\ targets = {}
      BY <1>0 DEF PassInv, ProberTyped, PassPlaces
<1>2. CoverInv'
      BY <1>0, <1>1, CoverSame
<1>3. plist' \in Seq(Addresses)
  <2>1. plist \in Seq(Addresses) /\ <<>> \in Seq(Addresses)
        BY DEF PassInv, ProberTyped
  <2>2. plist' = <<>> \/ plist' = plist
        BY <1>0
  <2> QED
      BY <2>1, <2>2
<1>4. ProberTyped'
      BY <1>0, <1>1, <1>3 DEF PassInv, ProberTyped, PassPlaces
<1> QED
    BY <1>0, <1>2, <1>4 DEF PassInv, PassPlaces

LEMMA EndKeeps ==
  ASSUME ListsInv, ListsInv', CoverInv, PassInv, End
  PROVE  CoverInv' /\ PassInv'
<1>1. CoverInv'
      BY CoverEnd DEF PassInv
<1>2. /\ passes' \in Nat /\ ends' \in Nat /\ targets' = {} /\ ppc' = "idle"
      /\ plist' = <<>> /\ phour' = NoHour /\ pstamp' = NoHour /\ behind' = {}
      BY DEF PassInv, ProberTyped, End, bounds
<1> QED
    BY <1>1, <1>2, PassRest

LEMMA SampleKeeps ==
  ASSUME ListsInv, ListsInv', ThreadsInv, CoverInv, PassInv, NEW t \in Threads, AddSample(t)
  PROVE  CoverInv' /\ PassInv'
<1> PICK a : a = Head(order[t]).address
    OBVIOUS
<1> PICK h : h = tstamp[t]
    OBVIOUS
<1>0. /\ tpc[t] = "add" /\ Add(h, a)
      /\ UNCHANGED <<ppc, targets, pstamp, plist, phour, behind, passes, hour, ends, probes, skipped>>
      BY DEF AddSample, QueryFrame, mainVars, proberVars, passHistory
<1>1. h \in 0..hour /\ a \in Addresses
      BY <1>0, SampleTyped
<1>2. CoverInv' /\ filed \subseteq filed' /\ \A x \in Hours : setbacks[x] <= setbacks'[x]
      BY <1>0, <1>1, CoverAdd DEF PassInv
<1>3. Grown
      BY <1>0, <1>2 DEF Grown, CoverInv, CoverTyped
<1>4. hour <= hour'
      BY <1>0, HoursTyped
<1> QED
    BY <1>0, <1>2, <1>3, <1>4, PassApart

(* Everything else leaves the coverage and the pass alone, or turns the    *)
(* hour.                                                                   *)
LEMMA ApartKeeps ==
  ASSUME ListsInv, ListsInv', CoverInv, PassInv, hour' = hour \/ hour' = hour + 1,
         UNCHANGED <<ppc, targets, pstamp, plist, phour, behind, passes, probes, filed, skipped,
                     ends, setbacks, covered, covered_hour>>
  PROVE  CoverInv' /\ PassInv'
<1>0. hour \in Nat /\ hour <= hour' /\ passes \in Nat /\ passes <= passes
      BY HoursTyped DEF PassInv, ProberTyped
<1>1. hour' = hour => CoverInv'
      BY <1>0, CoverSame
<1>2. hour' = hour + 1 => CoverInv'
      BY CoverTick DEF PassInv
<1>3. Grown
      BY <1>0 DEF Grown, CoverInv, CoverTyped
<1>4. PassInv'
      BY <1>0, <1>3, PassApart
<1> QED
    BY <1>1, <1>2, <1>4

LEMMA RttStep ==
  CoverInv /\ PassInv /\ ThreadsInv /\ ListsInv /\ [Next]_vars => CoverInv' /\ PassInv'
<1> SUFFICES ASSUME CoverInv, PassInv, ThreadsInv, ListsInv, [Next]_vars
             PROVE  CoverInv' /\ PassInv'
    OBVIOUS
<1>0. ListsInv'
      BY ListsStep
<1> DEFINE Apart == /\ hour' = hour \/ hour' = hour + 1
                    /\ UNCHANGED <<ppc, targets, pstamp, plist, phour, behind, passes, probes, filed,
                                   skipped, ends, setbacks, covered, covered_hour>>
<1>1. ASSUME NEW t \in Threads, Query(t) \/ \E o \in balanced_order(upstreams) : Forward(t, o)
      PROVE  CoverInv' /\ PassInv'
  <2>1. CASE AddSample(t)
        BY <1>0, <2>1, SampleKeeps
  <2>2. CASE ~AddSample(t)
    <3>1. Apart
          BY <1>1, <2>2 DEF Query, Forward, Reply, Truncated, SendFails, ReadClock,
               NoMark, QueryFrame, mainVars, rttVars, proberVars, passHistory
    <3> QED
        BY <1>0, <3>1, ApartKeeps
  <2> QED
      BY <2>1, <2>2
<1>2. CASE BeginPass \/ Prober \/ FlushFails
      BY <1>0, <1>2, BeginPassKeeps, FindTargetsKeeps, ClocksKeep, MarkProbedKeeps,
         ProbeFailsKeeps, AddProbeKeeps, FlushKeeps DEF Prober
<1>3. CASE Interrupt \/ StopSwap \/ StopStore \/ StopFails
  <2>1. Apart
        BY <1>3 DEF Interrupt, StopSwap, StopStore, StopFails, NoMark, MainFrame,
             rttVars, proberVars, passHistory, bounds
  <2> QED
      BY <1>0, <2>1, ApartKeeps
<1>4. CASE Exit \/ Crash
      BY <1>0, <1>4, EndKeeps DEF Exit, Crash
<1>5. CASE Edits \/ Reload \/ Tick \/ UNCHANGED vars
  <2>1. Apart
        BY <1>5 DEF Edits, CreateUpstream, UpdateUpstream, DeleteUpstream, Request,
             Reload, Tick, vars, rttVars, proberVars, passHistory, mainVars, bounds
  <2> QED
      BY <1>0, <2>1, ApartKeeps
<1> QED
    BY <1>1, <1>2, <1>3, <1>4, <1>5 DEF Next, Main

(* The coverage and the pass in progress agree, in every reachable state.  *)
THEOREM RttInvariant == Spec => [](CoverInv /\ PassInv)
<1>1. Init => CoverInv /\ PassInv
  <2> SUFFICES ASSUME Init PROVE CoverInv /\ PassInv
      OBVIOUS
  <2>0. /\ hour = 0 /\ covered_hour = NoHour /\ covered = {} /\ ppc = "idle"
        /\ targets = {} /\ plist = <<>> /\ phour = NoHour /\ pstamp = NoHour /\ behind = {}
        /\ passes = 0 /\ ends = 0 /\ setbacks = [h \in Hours |-> 0]
        /\ probes = [a \in Addresses |-> [h \in Hours |-> {}]]
        BY DEF Init
  <2>1. CoverTyped
        BY <2>0 DEF CoverTyped
  <2>2. /\ \A a \in Addresses, h \in Hours : probes[a][h] = {} /\ setbacks[h] = 0
        /\ Cardinality({}) = 0 /\ hour \in Hours
        BY <2>0, FS_EmptySet, ForwardingAssumption DEF Hours
  <2>3. ProbesBounded /\ \A a \in Addresses : Room(a, hour)
    <3>1. ASSUME NEW a \in Addresses, NEW h \in Hours
          PROVE  Cardinality(probes[a][h]) = 0 /\ setbacks[h] = 0
          BY <2>2
    <3> QED
        BY <2>0, <2>2, <3>1 DEF ProbesBounded, Room
  <2>4. ProberTyped
        BY <2>0 DEF ProberTyped, PassPlaces
  <2> QED
      BY <2>0, <2>1, <2>2, <2>3, <2>4 DEF CoverInv, PassInv, PassPlaces
<1> QED
    BY <1>1, ListsInvariant, ThreadsInvariant, RttStep, PTL DEF Spec

(* _probe_rtt_gaps: whatever the clock, the list and the server threads do *)
(* meanwhile, what counts as covered was measured or probed in that hour,  *)
(* and so was, in a pass that goes on to its flush, every upstream it      *)
(* found listed, except the one whose disappearance broke the pass off and *)
(* those behind it.                                                        *)
THEOREM GapsTheorem == Spec => []GapsClosed
<1>1. CoverInv /\ PassInv => GapsClosed
  <2> SUFFICES ASSUME CoverInv, PassInv PROVE GapsClosed
      OBVIOUS
  <2>1. \A a \in covered : Seen(a, covered_hour)
        BY DEF CoverInv
  <2>2. ASSUME ppc = "flush", NEW i \in DOMAIN plist \ behind PROVE Closed(plist[i])
    <3>1. targets = {}
          BY <2>2 DEF PassInv, ProberTyped, PassPlaces
    <3> QED
        BY <2>2, <3>1 DEF PassInv
  <2> QED
      BY <2>1, <2>2 DEF GapsClosed, Closed
<1> QED
    BY <1>1, RttInvariant, PTL

(* _probe_rtt_gaps, mark_probed: an address is probed by at most one pass  *)
(* of an hour, and one more for each late mark that dropped the hour's     *)
(* coverage and for each end of the worker.                                *)
THEOREM ProbesTheorem == Spec => []ProbesBounded
<1>1. CoverInv => ProbesBounded
      BY DEF CoverInv
<1> QED
    BY <1>1, RttInvariant, PTL

-----------------------------------------------------------------------------
(* The samples.  A snapshot is held only while it is being written, so     *)
(* that taking a new one drops nothing.                                    *)
Samples == Nat \X Addresses

Kept == data \cup flight \cup mflight \cup stored \cup lost

SamplesInv ==
  /\ filed \subseteq Samples /\ data \subseteq Samples
  /\ flight \subseteq Samples /\ mflight \subseteq Samples
  /\ ppc # "write" => flight = {}
  /\ mpc # "write" => mflight = {}
  /\ SamplesKept

(* A step that files nothing and drops from the five places only what has  *)
(* left the hours the table covers.                                        *)
LEMMA SamplesStay ==
  ASSUME SamplesInv, ListsInv, ListsInv', hour <= hour', filed' = filed,
         \A s \in Kept : s[1] + Retention > hour => s \in Kept'
  PROVE  SamplesKept'
<1> SUFFICES ASSUME NEW s \in filed, s[1] + Retention > hour'
             PROVE  s \in Kept'
    BY DEF SamplesKept, Kept
<1>1. s[1] \in Nat /\ Retention \in Nat /\ hour \in Nat /\ hour' \in Nat
      BY ForwardingAssumption DEF SamplesInv, Samples, ListsInv, Hours
<1>2. s[1] + Retention > hour
      BY <1>1
<1> QED
    BY <1>2 DEF SamplesInv, SamplesKept, Kept

(* record_upstream_rtt keeps every sample of the hours the table covers.   *)
LEMMA RecordKeeps ==
  ASSUME NEW S, NEW edge \in BOOLEAN, NEW s \in stored \cup S, s[1] + Retention > hour
  PROVE  s \in record_upstream_rtt(S, edge)
BY DEF record_upstream_rtt

LEMMA SamplesAdd ==
  ASSUME SamplesInv, NEW h \in 0..hour, NEW a \in Addresses, Add(h, a),
         UNCHANGED <<hour, flight, mflight, stored, lost, mpc>>,
         ppc' = "write" <=> ppc = "write"
  PROVE  SamplesInv'
<1>1. data' = data \cup {<<h, a>>} /\ filed' = filed \cup {<<h, a>>}
      BY DEF Add
<1>2. <<h, a>> \in Samples
      BY DEF Samples
<1>3. SamplesKept'
      BY <1>1 DEF SamplesInv, SamplesKept
<1> QED
    BY <1>1, <1>2, <1>3 DEF SamplesInv

LEMMA SamplesStep ==
  SamplesInv /\ PassInv /\ ThreadsInv /\ ListsInv /\ [Next]_vars => SamplesInv'
<1> SUFFICES ASSUME SamplesInv, PassInv, ThreadsInv, ListsInv, [Next]_vars
             PROVE  SamplesInv'
    OBVIOUS
<1>0. ListsInv' /\ hour <= hour'
      BY ListsStep
<1> DEFINE Same == /\ UNCHANGED <<data, filed, flight, mflight, stored, lost, mpc>>
                   /\ ppc' = "write" <=> ppc = "write"
<1>1. CASE Same
  <2>1. SamplesKept'
        BY <1>0, <1>1, SamplesStay DEF Kept
  <2> QED
      BY <1>1, <2>1 DEF SamplesInv
<1>2. ASSUME NEW t \in Threads, Query(t) \/ \E o \in balanced_order(upstreams) : Forward(t, o)
      PROVE  SamplesInv'
  <2>1. CASE AddSample(t)
    <3>1. /\ Add(tstamp[t], Head(order[t]).address) /\ tpc[t] = "add"
          /\ UNCHANGED <<hour, flight, mflight, stored, lost, mpc, ppc>>
          BY <2>1 DEF AddSample, QueryFrame, tableVars, mainVars, proberVars
    <3>2. tstamp[t] \in 0..hour /\ Head(order[t]).address \in Addresses
          BY <3>1, SampleTyped
    <3> QED
        BY <3>1, <3>2, SamplesAdd
  <2>2. CASE ~AddSample(t)
    <3>1. Same
          BY <1>2, <2>2 DEF Query, Forward, Reply, Truncated, SendFails, ReadClock,
               NoMark, QueryFrame, mainVars, rttVars, proberVars, tableVars
    <3> QED
        BY <1>1, <3>1
  <2> QED
      BY <2>1, <2>2
<1>3. CASE BeginPass \/ FindTargets \/ ReadByAddress \/ ReadMarkClock \/ MarkProbed
           \/ ProbeFails \/ ProbeAnswers
  <2>1. Same
        BY <1>3 DEF BeginPass, FindTargets, ReadByAddress, ReadMarkClock, MarkProbed,
             ProbeFails, ProbeAnswers, NextTarget, NoMark, ProberFrame, mainVars, rttVars,
             tableVars
  <2> QED
      BY <1>1, <2>1
<1>4. CASE AddProbe
  <2>1. /\ Add(pstamp, Target) /\ ppc = "add" /\ ppc' \in {"flush", "clock"}
        /\ UNCHANGED <<hour, flight, mflight, stored, lost, mpc>>
        BY <1>4 DEF AddProbe, NextTarget, ProberFrame, tableVars, mainVars
  <2>2. targets # {} /\ pstamp \in phour..hour /\ phour \in 0..hour /\ ProberTyped
        BY <2>1 DEF PassInv, ProberTyped, PassPlaces
  <2>3. Target \in Addresses /\ pstamp \in 0..hour
        BY <2>2, TargetTyped
  <2> QED
      BY <2>1, <2>3, SamplesAdd
<1>5. CASE FlushSwap
  <2>1. /\ ppc = "flush" /\ flight' = data /\ data' = {}
        /\ ppc' = IF data = {} THEN "idle" ELSE "write"
        /\ UNCHANGED <<filed, mflight, stored, lost, mpc>>
        BY <1>5 DEF FlushSwap, ProberFrame, mainVars
  <2>2. flight = {}
        BY <2>1 DEF SamplesInv
  <2>3. Kept' = Kept
        BY <2>1, <2>2 DEF Kept
  <2>4. SamplesKept'
        BY <1>0, <2>1, <2>3, SamplesStay
  <2> QED
      BY <2>1, <2>4 DEF SamplesInv
<1>6. CASE FlushStore
  <2>1. /\ ppc = "write" /\ ppc' = "idle" /\ flight' = {}
        /\ UNCHANGED <<data, filed, mflight, lost, mpc>>
        BY <1>6 DEF FlushStore, NoMark, rttVars, ProberFrame, mainVars
  <2>2. PICK edge \in BOOLEAN : stored' = record_upstream_rtt(flight, edge)
        BY <1>6 DEF FlushStore
  <2>3. \A s \in Kept : s[1] + Retention > hour => s \in Kept'
        BY <2>1, <2>2, RecordKeeps DEF Kept
  <2>4. SamplesKept'
        BY <1>0, <2>1, <2>3, SamplesStay
  <2> QED
      BY <2>1, <2>4 DEF SamplesInv
<1>7. CASE FlushFails
  <2>1. /\ ppc = "write" /\ ppc' = "idle" /\ flight' = {} /\ lost' = lost \cup flight
        /\ UNCHANGED <<data, filed, mflight, stored, mpc>>
        BY <1>7 DEF FlushFails, NoMark, rttVars, ProberFrame, mainVars
  <2>2. Kept' = Kept
        BY <2>1 DEF Kept
  <2>3. SamplesKept'
        BY <1>0, <2>1, <2>2, SamplesStay
  <2> QED
      BY <2>1, <2>3 DEF SamplesInv
<1>8. CASE Interrupt
  <2>1. /\ mpc = "run" /\ mpc' = "stop"
        /\ UNCHANGED <<data, filed, flight, mflight, stored, lost, ppc>>
        BY <1>8 DEF Interrupt, NoMark, MainFrame, rttVars, tableVars, proberVars
  <2>2. SamplesKept'
        BY <1>0, <2>1, SamplesStay DEF Kept
  <2> QED
      BY <2>1, <2>2 DEF SamplesInv
<1>9. CASE StopSwap
  <2>1. /\ mpc = "stop" /\ mflight' = data /\ data' = {}
        /\ mpc' = IF data = {} THEN "exit" ELSE "write"
        /\ UNCHANGED <<filed, flight, stored, lost, ppc>>
        BY <1>9 DEF StopSwap, MainFrame, proberVars, tableVars
  <2>2. mflight = {}
        BY <2>1 DEF SamplesInv
  <2>3. Kept' = Kept
        BY <2>1, <2>2 DEF Kept
  <2>4. SamplesKept'
        BY <1>0, <2>1, <2>3, SamplesStay
  <2> QED
      BY <2>1, <2>4 DEF SamplesInv
<1>10. CASE StopStore
  <2>1. /\ mpc = "write" /\ mpc' = "exit" /\ mflight' = {}
        /\ UNCHANGED <<data, filed, flight, lost, ppc>>
        BY <1>10 DEF StopStore, NoMark, rttVars, MainFrame, proberVars
  <2>2. PICK edge \in BOOLEAN : stored' = record_upstream_rtt(mflight, edge)
        BY <1>10 DEF StopStore
  <2>3. \A s \in Kept : s[1] + Retention > hour => s \in Kept'
        BY <2>1, <2>2, RecordKeeps DEF Kept
  <2>4. SamplesKept'
        BY <1>0, <2>1, <2>3, SamplesStay
  <2> QED
      BY <2>1, <2>4 DEF SamplesInv
<1>11. CASE StopFails
  <2>1. /\ mpc = "write" /\ mpc' = "exit" /\ mflight' = {} /\ lost' = lost \cup mflight
        /\ UNCHANGED <<data, filed, flight, stored, ppc>>
        BY <1>11 DEF StopFails, NoMark, rttVars, proberVars
  <2>2. Kept' = Kept
        BY <2>1 DEF Kept
  <2>3. SamplesKept'
        BY <1>0, <2>1, <2>2, SamplesStay
  <2> QED
      BY <2>1, <2>3 DEF SamplesInv
<1>12. CASE Exit \/ Crash
  <2>1. /\ lost' = lost \cup data \cup flight \cup mflight
        /\ data' = {} /\ flight' = {} /\ mflight' = {} /\ UNCHANGED <<filed, stored>>
        BY <1>12 DEF Exit, Crash, End
  <2>2. Kept' = Kept
        BY <2>1 DEF Kept
  <2>3. SamplesKept'
        BY <1>0, <2>1, <2>2, SamplesStay
  <2> QED
      BY <2>1, <2>3 DEF SamplesInv
<1>13. CASE Edits \/ Reload \/ Tick \/ UNCHANGED vars
  <2>1. Same
        BY <1>13 DEF Edits, CreateUpstream, UpdateUpstream, DeleteUpstream, Request,
             Reload, Tick, vars, rttVars, proberVars, tableVars, mainVars
  <2> QED
      BY <1>1, <2>1
<1> QED
    BY <1>2, <1>3, <1>4, <1>5, <1>6, <1>7, <1>8, <1>9, <1>10, <1>11, <1>12, <1>13
    DEF Next, Main, Prober

(* UpstreamRttBuffer and record_upstream_rtt: a sample of an hour the      *)
(* table covers is never missing, whichever threads flush and when, unless *)
(* its write failed or the process ended with it.                          *)
THEOREM SamplesTheorem == Spec => []SamplesKept
<1>1. Init => SamplesInv
      BY DEF Init, SamplesInv, SamplesKept
<1>2. SamplesInv => SamplesKept
      BY DEF SamplesInv
<1> QED
    BY <1>1, <1>2, ListsInvariant, ThreadsInvariant, RttInvariant, SamplesStep, PTL DEF Spec

-----------------------------------------------------------------------------
(* The types that the arguments above do not need: every sample is one of  *)
(* an hour that has come and of an upstream's address, wherever it is.     *)
SamplesIn(S) == S \subseteq (0..hour) \X Addresses

RestTyped ==
  /\ SamplesIn(data) /\ SamplesIn(flight) /\ SamplesIn(mflight)
  /\ SamplesIn(stored) /\ SamplesIn(filed) /\ SamplesIn(lost)
  /\ by_address \subseteq Addresses
  /\ mpc \in {"run", "stop", "write", "exit"} /\ ends \in 0..MaxEnds

LEMMA SampleAdded ==
  ASSUME RestTyped, NEW h \in 0..hour, NEW a \in Addresses, Add(h, a), hour' = hour
  PROVE  SamplesIn(data)' /\ SamplesIn(filed)'
BY DEF RestTyped, SamplesIn, Add

LEMMA RecordIn ==
  ASSUME NEW S, SamplesIn(S), SamplesIn(stored), NEW edge
  PROVE  SamplesIn(record_upstream_rtt(S, edge))
BY DEF SamplesIn, record_upstream_rtt

LEMMA RestStep ==
  ASSUME RestTyped, ListsInv, ListsInv', hour <= hour', ThreadsInv, PassInv, [Next]_vars
  PROVE  RestTyped'
<1> DEFINE Samples6 == UNCHANGED <<data, flight, mflight, stored, filed, lost>>
<1> USE DEF SamplesIn
<1>1. CASE UNCHANGED <<data, flight, mflight, stored, filed, lost, by_address, mpc, ends>>
  <2>1. 0..hour \subseteq 0..hour'
        BY DEF ListsInv, Hours
  <2> QED
      BY <1>1, <2>1 DEF RestTyped
<1>2. CASE \E t \in Threads : \/ Reply(t) \/ Truncated(t) \/ SendFails(t) \/ ReadClock(t)
                             \/ \E o \in balanced_order(upstreams) : Forward(t, o)
      BY <1>1, <1>2 DEF Forward, Reply, Truncated, SendFails, ReadClock, QueryFrame,
           NoMark, rttVars, tableVars, proberVars, mainVars
<1>3. ASSUME NEW t \in Threads, AddSample(t) PROVE RestTyped'
  <2>1. /\ Add(tstamp[t], Head(order[t]).address)
        /\ UNCHANGED <<hour, flight, mflight, stored, lost, by_address, mpc, ends>>
        BY <1>3 DEF AddSample, QueryFrame, tableVars, proberVars, mainVars
  <2>2. tstamp[t] \in 0..hour /\ Head(order[t]).address \in Addresses
        BY <1>3, SampleTyped DEF AddSample
  <2>3. SamplesIn(data)' /\ SamplesIn(filed)'
        BY <2>1, <2>2, SampleAdded
  <2> QED
      BY <2>1, <2>3 DEF RestTyped
<1>4. CASE \/ BeginPass \/ FindTargets \/ ReadMarkClock \/ MarkProbed \/ ProbeFails
           \/ ProbeAnswers
      BY <1>1, <1>4 DEF BeginPass, FindTargets, ReadMarkClock, MarkProbed, ProbeFails,
           ProbeAnswers, ProberFrame, NoMark, rttVars, tableVars, mainVars
<1>5. CASE ReadByAddress
  <2>1. /\ Samples6 /\ UNCHANGED <<hour, mpc, ends>>
        /\ by_address' = {s.address : s \in Range(upstreams)}
        BY <1>5 DEF ReadByAddress, ProberFrame, NoMark, rttVars, tableVars, mainVars
  <2>2. Range(upstreams) \subseteq Servers
        BY DEF ListsInv, Range
  <2>3. by_address' \subseteq Addresses
        BY <2>1, <2>2 DEF Addresses
  <2> QED
      BY <2>1, <2>3 DEF RestTyped
<1>6. CASE AddProbe
  <2>1. /\ Add(pstamp, Target) /\ ppc = "add"
        /\ UNCHANGED <<hour, flight, mflight, stored, lost, by_address, mpc, ends>>
        BY <1>6 DEF AddProbe, ProberFrame, tableVars, mainVars
  <2>2. pstamp \in phour..hour /\ phour \in 0..hour /\ targets # {}
        BY <2>1 DEF PassInv, ProberTyped, PassPlaces
  <2>3. pstamp \in 0..hour /\ Target \in Addresses
        BY <2>2, TargetTyped DEF PassInv, ListsInv, Hours
  <2>4. SamplesIn(data)' /\ SamplesIn(filed)'
        BY <2>1, <2>3, SampleAdded
  <2> QED
      BY <2>1, <2>4 DEF RestTyped
<1>7. CASE FlushSwap
      BY <1>7 DEF FlushSwap, RestTyped, ProberFrame, mainVars
<1>8. CASE FlushStore
  <2>1. PICK edge \in BOOLEAN : stored' = record_upstream_rtt(flight, edge)
        BY <1>8 DEF FlushStore
  <2>2. SamplesIn(record_upstream_rtt(flight, edge))
        BY RecordIn DEF RestTyped
  <2>3. flight' = {} /\ UNCHANGED <<hour, data, mflight, filed, lost, by_address, mpc, ends>>
        BY <1>8 DEF FlushStore, ProberFrame, NoMark, rttVars, mainVars
  <2> QED
      BY <2>1, <2>2, <2>3 DEF RestTyped
<1>9. CASE FlushFails
      BY <1>9 DEF FlushFails, RestTyped, ProberFrame, NoMark, rttVars, mainVars
<1>10. CASE Interrupt \/ StopSwap \/ StopFails
       BY <1>10 DEF Interrupt, StopSwap, StopFails, RestTyped, MainFrame, NoMark, rttVars,
            tableVars, proberVars
<1>11. CASE StopStore
  <2>1. PICK edge \in BOOLEAN : stored' = record_upstream_rtt(mflight, edge)
        BY <1>11 DEF StopStore
  <2>2. SamplesIn(record_upstream_rtt(mflight, edge))
        BY RecordIn DEF RestTyped
  <2>3. /\ mflight' = {} /\ mpc' = "exit"
        /\ UNCHANGED <<hour, data, flight, filed, lost, by_address, ends>>
        BY <1>11 DEF StopStore, MainFrame, NoMark, rttVars, proberVars
  <2> QED
      BY <2>1, <2>2, <2>3 DEF RestTyped
<1>12. CASE Exit \/ Crash
  <2>1. /\ ends < MaxEnds /\ ends' = ends + 1 /\ mpc' = "run" /\ by_address' = {}
        /\ lost' = lost \cup data \cup flight \cup mflight
        /\ data' = {} /\ flight' = {} /\ mflight' = {} /\ UNCHANGED <<hour, filed, stored>>
        BY <1>12 DEF Exit, Crash, End
  <2>2. ends' \in 0..MaxEnds
        BY <2>1, ForwardingAssumption DEF RestTyped
  <2> QED
      BY <2>1, <2>2 DEF RestTyped
<1>13. CASE Edits \/ Reload \/ Tick \/ UNCHANGED vars
       BY <1>1, <1>13 DEF Edits, CreateUpstream, UpdateUpstream, DeleteUpstream, Request,
            Reload, Tick, vars, rttVars, proberVars, tableVars, mainVars
<1> QED
    BY <1>2, <1>3, <1>4, <1>5, <1>6, <1>7, <1>8, <1>9, <1>10, <1>11, <1>12, <1>13
    DEF Next, Main, Prober, Query

(* Every variable keeps its type: a busy thread has a server left to try,  *)
(* a pass has a target exactly in the places that use one, and no clock    *)
(* reading, covered hour or sample is ahead of the clock.                  *)
THEOREM TypeTheorem == Spec => []TypeOK
<1>1. Init => RestTyped
      BY ForwardingAssumption DEF Init, RestTyped, SamplesIn
<1>2. ListsInv /\ ThreadsInv /\ CoverInv /\ PassInv /\ RestTyped => TypeOK
      BY DEF ListsInv, ThreadsInv, ThreadTyped, Searching, CoverInv, CoverTyped, PassInv,
             ProberTyped, PassPlaces, RestTyped, SamplesIn, TypeOK
<1> QED
    BY <1>1, <1>2, ListsInvariant, ThreadsInvariant, RttInvariant, ListsStep, RestStep, PTL
    DEF Spec
=============================================================================
