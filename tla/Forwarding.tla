---------------------------- MODULE Forwarding ----------------------------
(***************************************************************************)
(* Forwarding to the upstream resolvers: the rows an operator edits, the   *)
(* published list, the failover of a query along it, and the round-trip    *)
(* statistics: which addresses are covered in an hour and the probes that  *)
(* close the gaps just before each flush.                                  *)
(*                                                                         *)
(* UpstreamRttBuffer reads the clock before it takes its lock, so that the *)
(* hour may turn in between; the gap prober reads the list twice.  Samples *)
(* are represented by the <<hour, address>> they are counted under.  At a   *)
(* shutdown the main thread flushes too, beside the rtt thread; what is in *)
(* memory when the worker ends is gone, the hour's coverage included.      *)
(***************************************************************************)
EXTENDS Integers, Sequences, FiniteSets, FiniteSetsExt, Functions

CONSTANTS
  Threads,     \* server threads
  Ids,         \* row ids, positive numbers
  Servers,     \* [address, protocol, priority] a row may hold
  Bodies,      \* the rows a request may write
  Initial,     \* the tables, rows by id, that a start of the worker may find
  Retention,   \* RETENTION_HOURS
  MaxQueries,  \* bound: forwarded queries
  MaxHour,     \* bound: hours that pass
  MaxOps,      \* bound: requests that change a row
  MaxPasses,   \* bound: gap-probing passes
  MaxFailures, \* bound: writes that fail
  MaxEnds      \* bound: ends of the worker, by a shutdown or a crash

NoServer == [address |-> "none", protocol |-> "none", priority |-> 0]
ServFail == [NoServer EXCEPT !.address = "servfail"]
NoRow == [server |-> NoServer, enabled |-> FALSE]
Row == [server : Servers, enabled : BOOLEAN]
Addresses == {s.address : s \in Servers}

ASSUME ForwardingAssumption ==
  /\ Ids \subseteq Nat \ {0} /\ 1 \in Ids /\ IsFiniteSet(Ids)
  /\ \A s \in Servers : s.protocol \in {"udp", "tcp"} /\ s.priority \in Nat
  /\ Bodies \subseteq Row /\ Initial \subseteq [Ids -> Row \cup {NoRow}]
  /\ Retention \in Nat \ {0}
  /\ {MaxQueries, MaxHour, MaxOps, MaxPasses, MaxFailures, MaxEnds} \subseteq Nat

VARIABLES
  rows,                   \* config.db: the upstreams
  upstreams,              \* the published list (RuntimeState.upstreams)
  hour,                   \* the wall clock, in hours
  tpc, order, tstamp,     \* per thread: place, upstreams still to try, clock
  covered_hour, covered,  \* which addresses need no probe in which hour
  data, flight, stored,   \* <<hour, address>> with samples: in the buffer,
                          \* in a snapshot, in the table
  ppc, targets, by_address, pstamp,  \* the rtt thread: place and locals
  mpc, mflight,           \* the main thread: place, and its own snapshot
  queries, ops, passes, failures, ends,    \* counters for the bounds
  list, failed, answer,   \* history: per thread, the list read, the servers
                          \* that failed, the outcome
  plist, phour,           \* history: what the pass covers and since when
  behind,                 \* history: the targets a pass broke off before,
                          \* as positions in plist
  filed, lost,            \* history: all samples; those whose write failed
                          \* or that a process took with it
  probes, setbacks,       \* history: the passes that probed an address in an
                          \* hour, and late marks that dropped its coverage
  skipped                 \* history: <<hour, address>> marked, never probed

rttVars == <<covered_hour, covered, data>>
tableVars == <<flight, stored, lost>>
threadVars == <<tpc, order, tstamp>>
proberVars == <<ppc, targets, by_address, pstamp>>
mainVars == <<mpc, mflight, ends>>
bounds == <<queries, ops, passes, failures>>
queryHistory == <<list, failed, answer>>
passHistory == <<plist, phour, behind, probes, skipped>>
vars == <<rows, upstreams, hour, threadVars, rttVars, tableVars, proberVars,
          mainVars, bounds, queryHistory, passHistory, filed, setbacks>>

NoHour == -1
Hours == 0..MaxHour

(* Enabled rows in order of priority, then id.                             *)
Before(i, j) ==
  \/ rows[i].server.priority < rows[j].server.priority
  \/ rows[i].server.priority = rows[j].server.priority /\ i <= j

load_upstreams ==
  LET E == {i \in Ids : rows[i].enabled}
      rank(i) == Cardinality({j \in E : Before(j, i)})
  IN  [n \in 1..Cardinality(E) |-> rows[CHOOSE i \in E : rank(i) = n].server]

Init ==
  /\ rows \in Initial
  /\ upstreams = load_upstreams /\ hour = 0
  /\ tpc = [t \in Threads |-> "idle"] /\ order = [t \in Threads |-> <<>>]
  /\ tstamp = [t \in Threads |-> NoHour]
  /\ covered_hour = NoHour /\ covered = {}
  /\ data = {} /\ flight = {} /\ stored = {}
  /\ ppc = "idle" /\ targets = {} /\ by_address = {} /\ pstamp = NoHour
  /\ mpc = "run" /\ mflight = {}
  /\ queries = 0 /\ ops = 0 /\ passes = 0 /\ failures = 0 /\ ends = 0
  /\ list = [t \in Threads |-> <<>>] /\ failed = [t \in Threads |-> <<>>]
  /\ answer = [t \in Threads |-> NoServer]
  /\ plist = <<>> /\ phour = NoHour /\ behind = {} /\ filed = {} /\ lost = {}
  /\ probes = [a \in Addresses |-> [h \in Hours |-> {}]]
  /\ setbacks = [h \in Hours |-> 0] /\ skipped = {}

-----------------------------------------------------------------------------
(* The operator's rows, and their publication by the next reload.          *)
Request(new) ==
  /\ ops < MaxOps /\ ops' = ops + 1
  /\ rows' = new
  /\ UNCHANGED <<upstreams, hour, threadVars, rttVars, tableVars, proberVars, mainVars>>
  /\ UNCHANGED <<queries, passes, failures, queryHistory, passHistory, filed, setbacks>>

Existing == {i \in Ids : rows[i] # NoRow}
NewId == IF Existing = {} THEN 1 ELSE Max(Existing) + 1

CreateUpstream(row) == NewId \in Ids /\ Request([rows EXCEPT ![NewId] = row])

UpdateUpstream(i, row) ==
  rows[i] # NoRow /\ row # rows[i] /\ Request([rows EXCEPT ![i] = row])

DeleteUpstream(i) == rows[i] # NoRow /\ Request([rows EXCEPT ![i] = NoRow])

Reload ==
  /\ upstreams' = load_upstreams
  /\ UNCHANGED <<rows, hour, threadVars, rttVars, tableVars, proberVars, bounds>>
  /\ UNCHANGED <<mainVars, queryHistory, passHistory, filed, setbacks>>

Tick ==
  /\ hour < MaxHour /\ hour' = hour + 1
  /\ UNCHANGED <<rows, upstreams, threadVars, rttVars, tableVars, proberVars, bounds>>
  /\ UNCHANGED <<mainVars, queryHistory, passHistory, filed, setbacks>>

-----------------------------------------------------------------------------
(* UpstreamRttBuffer, under its lock.                                      *)

(* _mark_covered: a mark of another hour, later or earlier, starts anew.   *)
Mark(h, a) ==
  /\ covered_hour' = h
  /\ covered' = IF covered_hour = h THEN covered \cup {a} ELSE {a}
  /\ setbacks' = IF h < covered_hour
                 THEN [setbacks EXCEPT ![covered_hour] = @ + 1] ELSE setbacks

Add(h, a) ==
  Mark(h, a) /\ data' = data \cup {<<h, a>>} /\ filed' = filed \cup {<<h, a>>}

(* Mutant: coverage is not dropped when the hour turns.                    *)
Mutant_uncovered(h, addresses) ==
  {i \in DOMAIN addresses : addresses[i] \notin covered}

(* uncovered, as the positions in the list of addresses.                   *)
uncovered(h, addresses) ==
  {i \in DOMAIN addresses : covered_hour # h \/ addresses[i] \notin covered}

-----------------------------------------------------------------------------
(* _forward, on a server thread.                                           *)
QueryFrame == UNCHANGED <<rows, upstreams, hour, tableVars, proberVars, mainVars,
                          ops, passes, failures, passHistory>>
NoMark == UNCHANGED <<rttVars, filed, setbacks>>
At(t, place) == tpc' = [tpc EXCEPT ![t] = place]

(* Mutant: peers are shuffled across priorities.                           *)
Mutant_balanced_order(servers) ==
  LET n == Len(servers)
  IN  {[i \in 1..n |-> servers[p[i]]] :
         p \in {p \in [1..n -> 1..n] : \A i, j \in 1..n : i # j => p[i] # p[j]}}

(* Ascending priority, equals in any order (random.shuffle).               *)
balanced_order(servers) ==
  LET n == Len(servers)
  IN  {[i \in 1..n |-> servers[p[i]]] :
         p \in {p \in [1..n -> 1..n] :
                  \A i, j \in 1..n : i < j =>
                    /\ p[i] # p[j]
                    /\ servers[p[i]].priority <= servers[p[j]].priority}}

(* The list is read once; without upstreams the answer is SERVFAIL.        *)
Forward(t, o) ==
  /\ mpc = "run" /\ tpc[t] = "idle"
  /\ queries < MaxQueries /\ queries' = queries + 1
  /\ o \in balanced_order(upstreams)
  /\ list' = [list EXCEPT ![t] = upstreams]
  /\ failed' = [failed EXCEPT ![t] = <<>>]
  /\ order' = [order EXCEPT ![t] = o]
  /\ IF o = <<>> THEN answer' = [answer EXCEPT ![t] = ServFail] /\ UNCHANGED tpc
     ELSE answer' = [answer EXCEPT ![t] = NoServer] /\ At(t, "try")
  /\ UNCHANGED tstamp /\ NoMark /\ QueryFrame

(* A parsed reply; a truncated one over UDP is asked again over TCP.       *)
Reply(t) ==
  /\ tpc[t] \in {"try", "tcp"} /\ At(t, "clock")
  /\ UNCHANGED <<order, tstamp, queries, queryHistory>> /\ NoMark /\ QueryFrame

Truncated(t) ==
  /\ tpc[t] = "try" /\ Head(order[t]).protocol # "tcp" /\ At(t, "tcp")
  /\ UNCHANGED <<order, tstamp, queries, queryHistory>> /\ NoMark /\ QueryFrame

(* Mutant: a failure over TCP ends the search.                             *)
Mutant_SendFails(t) ==
  /\ tpc[t] \in {"try", "tcp"}
  /\ order' = [order EXCEPT ![t] = Tail(@)]
  /\ failed' = [failed EXCEPT ![t] = Append(@, Head(order[t]))]
  /\ IF Tail(order[t]) = <<>> \/ tpc[t] = "tcp"
     THEN At(t, "idle") /\ answer' = [answer EXCEPT ![t] = ServFail]
     ELSE At(t, "try") /\ UNCHANGED answer
  /\ UNCHANGED <<tstamp, queries, list>> /\ NoMark /\ QueryFrame

(* A timeout, a network error, an answer that does not parse: the next     *)
(* upstream, or None after the last.                                       *)
SendFails(t) ==
  /\ tpc[t] \in {"try", "tcp"}
  /\ order' = [order EXCEPT ![t] = Tail(@)]
  /\ failed' = [failed EXCEPT ![t] = Append(@, Head(order[t]))]
  /\ IF Tail(order[t]) = <<>>
     THEN At(t, "idle") /\ answer' = [answer EXCEPT ![t] = ServFail]
     ELSE At(t, "try") /\ UNCHANGED answer
  /\ UNCHANGED <<tstamp, queries, list>> /\ NoMark /\ QueryFrame

(* rtt.add: the clock, then the lock; then the reply is returned.          *)
ReadClock(t) ==
  /\ tpc[t] = "clock" /\ At(t, "add")
  /\ tstamp' = [tstamp EXCEPT ![t] = hour]
  /\ UNCHANGED <<order, queries, queryHistory>> /\ NoMark /\ QueryFrame

AddSample(t) ==
  /\ tpc[t] = "add" /\ At(t, "idle")
  /\ Add(tstamp[t], Head(order[t]).address)
  /\ answer' = [answer EXCEPT ![t] = Head(order[t])]
  /\ tstamp' = [tstamp EXCEPT ![t] = NoHour]
  /\ order' = [order EXCEPT ![t] = <<>>]
  /\ UNCHANGED <<queries, list, failed>> /\ QueryFrame

Query(t) ==
  \/ Reply(t) \/ Truncated(t) \/ SendFails(t) \/ ReadClock(t) \/ AddSample(t)

-----------------------------------------------------------------------------
(* The rtt thread: _probe_rtt_gaps and then flush().                       *)
ProberFrame == UNCHANGED <<rows, upstreams, hour, threadVars, mainVars, queries, ops,
                           queryHistory>>
AddressesOf(servers) == [i \in 1..Len(servers) |-> servers[i].address]

(* The list, and the clock of uncovered().  A loop that has just left its  *)
(* wait goes on though stop() sets the event.                              *)
BeginPass ==
  /\ ppc = "idle" /\ passes < MaxPasses /\ passes' = passes + 1
  /\ ppc' = "uncovered"
  /\ plist' = AddressesOf(upstreams) /\ phour' = hour /\ pstamp' = hour
  /\ behind' = {}
  /\ UNCHANGED <<targets, by_address, tableVars, failures, probes, skipped>>
  /\ NoMark /\ ProberFrame

FindTargets ==
  /\ ppc = "uncovered"
  /\ targets' = uncovered(pstamp, plist)
  /\ ppc' = IF targets' = {} THEN "flush" ELSE "map"
  /\ UNCHANGED <<by_address, pstamp, tableVars, passes, failures, passHistory>>
  /\ NoMark /\ ProberFrame

Target == plist[Min(targets)]

(* The list is read a second time.                                         *)
ReadByAddress ==
  /\ ppc = "map" /\ ppc' = "clock"
  /\ by_address' = {s.address : s \in Range(upstreams)}
  /\ UNCHANGED <<targets, pstamp, tableVars, passes, failures, passHistory>>
  /\ NoMark /\ ProberFrame

(* mark_probed for the next target: the clock ...                          *)
ReadMarkClock ==
  /\ ppc = "clock" /\ ppc' = "mark" /\ pstamp' = hour
  /\ UNCHANGED <<targets, by_address, tableVars, passes, failures, passHistory>>
  /\ NoMark /\ ProberFrame

(* Mutant: only an answered probe is marked.                               *)
Mutant_MarkProbed ==
  LET a == Target
  IN  /\ ppc = "mark"
      /\ IF a \in by_address
         THEN /\ ppc' = "probe" /\ UNCHANGED <<targets, behind, skipped>>
              /\ probes' = [probes EXCEPT ![a][pstamp] = @ \cup {passes}]
         ELSE /\ ppc' = "flush" /\ targets' = {} /\ behind' = targets \ {Min(targets)}
              /\ skipped' = skipped \cup {<<pstamp, a>>} /\ UNCHANGED probes
      /\ UNCHANGED <<by_address, pstamp, tableVars, passes, failures, plist, phour>>
      /\ NoMark /\ ProberFrame

(* ... and the lock.  A target that has left the list since is a KeyError, *)
(* which ends the hook: the targets after it are left behind.              *)
MarkProbed ==
  LET a == Target
  IN  /\ ppc = "mark"
      /\ Mark(pstamp, a)
      /\ IF a \in by_address
         THEN /\ ppc' = "probe" /\ UNCHANGED <<targets, behind, skipped>>
              /\ probes' = [probes EXCEPT ![a][pstamp] = @ \cup {passes}]
         ELSE /\ ppc' = "flush" /\ targets' = {} /\ behind' = targets \ {Min(targets)}
              /\ skipped' = skipped \cup {<<pstamp, a>>} /\ UNCHANGED probes
      /\ UNCHANGED <<by_address, pstamp, data, filed, tableVars, passes, failures>>
      /\ UNCHANGED <<plist, phour>> /\ ProberFrame

NextTarget ==
  /\ targets' = targets \ {Min(targets)}
  /\ ppc' = IF targets' = {} THEN "flush" ELSE "clock"

ProbeFails ==
  /\ ppc = "probe" /\ NextTarget
  /\ UNCHANGED <<by_address, pstamp, tableVars, passes, failures, passHistory>>
  /\ NoMark /\ ProberFrame

(* The clock of add() ...                                                  *)
ProbeAnswers ==
  /\ ppc = "probe" /\ ppc' = "add" /\ pstamp' = hour
  /\ UNCHANGED <<targets, by_address, tableVars, passes, failures, passHistory>>
  /\ NoMark /\ ProberFrame

AddProbe ==
  /\ ppc = "add" /\ NextTarget
  /\ Add(pstamp, Target)
  /\ UNCHANGED <<by_address, pstamp, tableVars, passes, failures, passHistory>>
  /\ ProberFrame

(* flush(): the snapshot is taken under the lock and written after it.     *)
FlushSwap ==
  /\ ppc = "flush"
  /\ flight' = data /\ data' = {}
  /\ ppc' = IF data = {} THEN "idle" ELSE "write"
  /\ by_address' = {} /\ pstamp' = NoHour /\ plist' = <<>> /\ phour' = NoHour
  /\ behind' = {}
  /\ UNCHANGED <<targets, covered_hour, covered, stored, lost, passes, failures, probes>>
  /\ UNCHANGED <<skipped, filed, setbacks>> /\ ProberFrame

(* record_upstream_rtt: upserts, then the purge of the same transaction.   *)
(* The cut-off lies within an hour, or at its very beginning (edge).       *)
record_upstream_rtt(samples, edge) ==
  {s \in stored \cup samples :
     s[1] + Retention > hour \/ (edge /\ s[1] + Retention = hour)}

(* Mutant: the buffer is emptied when the rows have been written.          *)
Mutant_FlushStore ==
  /\ ppc = "write" /\ ppc' = "idle"
  /\ \E edge \in BOOLEAN : stored' = record_upstream_rtt(flight, edge)
  /\ flight' = {} /\ data' = {}
  /\ UNCHANGED <<targets, by_address, pstamp, lost, passes, failures, passHistory>>
  /\ UNCHANGED <<covered_hour, covered, filed, setbacks>> /\ ProberFrame

FlushStore ==
  /\ ppc = "write" /\ ppc' = "idle"
  /\ \E edge \in BOOLEAN : stored' = record_upstream_rtt(flight, edge)
  /\ flight' = {}
  /\ UNCHANGED <<targets, by_address, pstamp, lost, passes, failures, passHistory>>
  /\ NoMark /\ ProberFrame

FlushFails ==
  /\ ppc = "write" /\ ppc' = "idle"
  /\ failures < MaxFailures /\ failures' = failures + 1
  /\ lost' = lost \cup flight /\ flight' = {}
  /\ UNCHANGED <<targets, by_address, pstamp, stored, passes, passHistory>>
  /\ NoMark /\ ProberFrame

Prober ==
  \/ FindTargets \/ ReadByAddress \/ ReadMarkClock \/ MarkProbed
  \/ ProbeFails \/ ProbeAnswers \/ AddProbe \/ FlushSwap \/ FlushStore

-----------------------------------------------------------------------------
(* The end of the worker.  main() stops the servers first ...              *)
MainFrame == UNCHANGED <<rows, upstreams, hour, threadVars, proberVars, bounds,
                         queryHistory, passHistory, ends>>

Interrupt ==
  /\ mpc = "run" /\ ends < MaxEnds /\ mpc' = "stop"
  /\ UNCHANGED <<tableVars, mflight>> /\ NoMark /\ MainFrame

(* ... and then the buffers: stop() flushes on the main thread.            *)
StopSwap ==
  /\ mpc = "stop"
  /\ mpc' = IF data = {} THEN "exit" ELSE "write"
  /\ mflight' = data /\ data' = {}
  /\ UNCHANGED <<covered_hour, covered, tableVars, filed, setbacks>> /\ MainFrame

StopStore ==
  /\ mpc = "write" /\ mpc' = "exit"
  /\ \E edge \in BOOLEAN : stored' = record_upstream_rtt(mflight, edge)
  /\ mflight' = {}
  /\ UNCHANGED <<flight, lost>> /\ NoMark /\ MainFrame

StopFails ==
  /\ mpc = "write" /\ mpc' = "exit"
  /\ failures < MaxFailures /\ failures' = failures + 1
  /\ lost' = lost \cup mflight /\ mflight' = {}
  /\ UNCHANGED <<rows, upstreams, hour, threadVars, proberVars, queries, ops, passes>>
  /\ UNCHANGED <<queryHistory, passHistory, ends, flight, stored>> /\ NoMark

(* main() returns, or the process dies at any moment; supervisord starts   *)
(* it again, with an empty buffer.                                         *)
End ==
  /\ ends < MaxEnds /\ ends' = ends + 1
  /\ lost' = lost \cup data \cup flight \cup mflight
  /\ data' = {} /\ flight' = {} /\ mflight' = {}
  /\ covered_hour' = NoHour /\ covered' = {}
  /\ mpc' = "run" /\ ppc' = "idle" /\ targets' = {} /\ by_address' = {}
  /\ pstamp' = NoHour /\ plist' = <<>> /\ phour' = NoHour /\ behind' = {}
  /\ upstreams' = load_upstreams
  /\ tpc' = [t \in Threads |-> "idle"] /\ order' = [t \in Threads |-> <<>>]
  /\ tstamp' = [t \in Threads |-> NoHour]
  /\ list' = [t \in Threads |-> <<>>] /\ failed' = [t \in Threads |-> <<>>]
  /\ answer' = [t \in Threads |-> NoServer]
  /\ UNCHANGED <<rows, hour, stored, bounds, filed, probes, setbacks, skipped>>

Exit == mpc = "exit" /\ End
Crash == mpc # "exit" /\ End

Main == Interrupt \/ StopSwap \/ StopStore \/ StopFails \/ Exit \/ Crash

-----------------------------------------------------------------------------
Edits ==
  \/ \E row \in Bodies : CreateUpstream(row) \/ \E i \in Ids : UpdateUpstream(i, row)
  \/ \E i \in Ids : DeleteUpstream(i)

Next ==
  \/ \E t \in Threads : Query(t) \/ \E o \in balanced_order(upstreams) : Forward(t, o)
  \/ BeginPass \/ Prober \/ FlushFails
  \/ Main
  \/ Edits \/ Reload \/ Tick

Spec == Init /\ [][Next]_vars
-----------------------------------------------------------------------------
TypeOK ==
  /\ rows \in [Ids -> Row \cup {NoRow}]
  /\ upstreams \in Seq(Servers) /\ hour \in Hours
  /\ tpc \in [Threads -> {"idle", "try", "tcp", "clock", "add"}]
  /\ order \in [Threads -> Seq(Servers)]
  /\ \A t \in Threads : tpc[t] # "idle" => order[t] # <<>>
  /\ tstamp \in [Threads -> {NoHour} \cup 0..hour]
  /\ covered_hour \in {NoHour} \cup 0..hour /\ covered \subseteq Addresses
  /\ {data, flight, mflight, stored, filed, lost} \subseteq SUBSET ((0..hour) \X Addresses)
  /\ ppc \in {"idle", "uncovered", "map", "clock", "mark", "probe", "add",
              "flush", "write"}
  /\ plist \in Seq(Addresses) /\ phour \in {NoHour} \cup 0..hour
  /\ targets \cup behind \subseteq DOMAIN plist /\ by_address \subseteq Addresses
  /\ ppc \in {"map", "clock", "mark", "probe", "add"} <=> targets # {}
  /\ pstamp \in {NoHour} \cup 0..hour
  /\ mpc \in {"run", "stop", "write", "exit"} /\ ends \in 0..MaxEnds
  /\ setbacks \in [Hours -> Nat]

(* docs/frontend-integration.md, upstreams: "Consulted in priority order". *)
(* An answer comes from a server of the list the query read, after every   *)
(* server of a smaller priority number has failed; SERVFAIL is given only  *)
(* when every server of that list has.                                     *)
FailoverOrder ==
  \A t \in Threads :
    LET tried == Range(failed[t])
        read == Range(list[t])
    IN  CASE answer[t] = NoServer -> TRUE
          [] answer[t] = ServFail -> tried = read
          [] OTHER -> /\ answer[t] \in read
                      /\ \A s \in read :
                           s.priority < answer[t].priority => s \in tried

(* What lets an address pass for covered in an hour: a sample, a probe, or *)
(* the mark of a target that had left the list and is never asked.         *)
Seen(a, h) == probes[a][h] # {} \/ <<h, a>> \in filed \cup skipped

(* _probe_rtt_gaps: "an hour can pass with no data point".  An address     *)
(* that counts as covered in an hour was measured or probed in that hour,  *)
(* whatever clocks were read before the hour turned; and when a pass goes  *)
(* on to its flush, so was each upstream it found listed, in an hour no    *)
(* earlier than the pass's own.  Two exceptions, both from an upstream     *)
(* that leaves the list between the two readings of a pass.  It is marked  *)
(* before its entry is looked up, so that it counts as covered though      *)
(* nobody asks it (skipped), also if it is back within the hour.  And the  *)
(* KeyError of that look-up ends the pass: the targets behind it get no    *)
(* probe in this pass though they are listed as before; by the first       *)
(* clause they do not count as covered, so that the next pass takes them.  *)
GapsClosed ==
  /\ \A a \in covered : Seen(a, covered_hour)
  /\ ppc = "flush" =>
       \A i \in DOMAIN plist \ behind : \E h \in phour..MaxHour : Seen(plist[i], h)

(* _probe_rtt_gaps: "at most once each per hour -- a failed attempt counts *)
(* too".  An address is probed by a second pass of an hour only when a     *)
(* sample stamped before the hour turned was filed after it, which drops   *)
(* what the new hour had covered, or when the worker was restarted, whose  *)
(* memory the coverage is; there is one extra pass for each.               *)
ProbesBounded ==
  \A a \in Addresses : \A h \in Hours :
    Cardinality(probes[a][h]) <= 1 + setbacks[h] + ends

(* upstream_stats.py: "purges buckets older than RETENTION_HOURS".  A      *)
(* measurement is never missing from the hours the table covers, though    *)
(* two threads may flush at a shutdown and samples arrive while a snapshot *)
(* is written: it is in the buffer, in a snapshot or in the table, unless  *)
(* its write failed or the process ended with it.                          *)
SamplesKept ==
  \A s \in filed : s[1] + Retention > hour =>
    s \in data \cup flight \cup mflight \cup stored \cup lost
=============================================================================
