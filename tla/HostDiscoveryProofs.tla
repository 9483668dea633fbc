------------------------ MODULE HostDiscoveryProofs ------------------------
(***************************************************************************)
(* Proofs about HostDiscovery, for any set of addresses and any bounds:    *)
(* query counts are conserved, every host's seeding is accounted for, and  *)
(* seeding never overrides an operator.                                    *)
(***************************************************************************)
EXTENDS HostDiscovery, TLAPS

(* A flusher holds counts only before it writes them, and new addresses    *)
(* only while it runs: a flush that begins overwrites nothing.             *)
IdleInv ==
  \A f \in Flushers :
    /\ fpc[f] # "record" => counts[f] = Zero
    /\ fpc[f] \in {"idle", "off", "exit"} => fresh[f] = {}

(* A new address has a pending count, so it is never left behind by a      *)
(* flush that finds no counts.                                             *)
NewInv == pending_new \subseteq Pending

(* Whatever holds an address now may lead to its host row later: each such *)
(* address is accounted for already.                                       *)
Traced == known \cup loaded \cup Listed \cup Pending
          \cup {ip \in Ips : \E f \in Flushers : counts[f][ip] > 0}
Accounted(ip) == Seeded(ip) \/ Owed(ip) \/ excuses[ip] # {}
SeedInv == \A ip \in Traced : Accounted(ip)

IInv == TypeOK /\ IdleInv /\ NewInv /\ CountsConserved /\ SeedInv
        /\ OperatorChoiceStands

-----------------------------------------------------------------------------
LEMMA InitIInv == Init => IInv
<1> SUFFICES ASSUME Init PROVE IInv
    OBVIOUS
<1> USE HostNamesAssumption DEF Init, Zero, Each, NewPlaces, Flushers, Absent
<1>1. TypeOK
      BY DEF TypeOK, IdlePut, NoIp
<1>2. IdleInv /\ NewInv
      BY DEF IdleInv, NewInv, Pending
<1>3. CountsConserved
      BY DEF CountsConserved, Counted
<1>4. SeedInv
      BY DEF SeedInv, Traced, Listed, Pending
<1>5. OperatorChoiceStands
      BY DEF OperatorChoiceStands
<1> QED
    BY <1>1, <1>2, <1>3, <1>4, <1>5 DEF IInv

-----------------------------------------------------------------------------
LEMMA RowsArePolicies == NoPolicy \notin Rows
BY HostNamesAssumption DEF Rows, NoPolicy

LEMMA ReasonList ==
  /\ "operator" \in Reasons /\ "host deleted" \in Reasons
  /\ "crash" \in Reasons /\ "failure" \in Reasons
BY DEF Reasons

LEMMA ExcuseType ==
  ASSUME excuses \in [Ips -> SUBSET Reasons]
  PROVE  \A S : \A why \in Reasons : Excuse(S, why) \in [Ips -> SUBSET Reasons]
BY DEF Excuse

LEMMA PutType ==
  ASSUME put = IdlePut \/ put \in [ip : Ips, mode : Modes, row : Rows \cup {NoPolicy}],
         put.ip # NoIp
  PROVE  put.ip \in Ips /\ put.mode \in Modes
BY DEF IdlePut

(* What an operator's write leaves in the row and its histories.           *)
LEMMA OperatorType ==
  ASSUME TypeOK, NEW ip \in Ips, NEW row \in Rows \cup {NoPolicy}, NEW why,
         row = NoPolicy => why \in Reasons,
         Operator(ip, row, why)
  PROVE  /\ policy' \in [Ips -> Rows \cup {NoPolicy}]
         /\ chosen' \in [Ips -> Modes \cup {"none"}]
         /\ excuses' \in [Ips -> SUBSET Reasons]
<1>1. row.action \in Modes \cup {"none"}
      BY DEF Rows, NoPolicy
<1>2. policy' \in [Ips -> Rows \cup {NoPolicy}]
      BY DEF TypeOK, Operator
<1>3. chosen' \in [Ips -> Modes \cup {"none"}]
      BY <1>1 DEF TypeOK, Operator
<1>4. (IF row = NoPolicy THEN excuses[ip] \cup {why} ELSE {}) \in SUBSET Reasons
      BY DEF TypeOK
<1>5. excuses' \in [Ips -> SUBSET Reasons]
      BY <1>4 DEF TypeOK, Operator
<1> QED
    BY <1>2, <1>3, <1>5

(* Type correctness, one step per action.                                  *)
LEMMA TypeStep ==
  ASSUME TypeOK, [Next]_vars
  PROVE  TypeOK'
<1> USE HostNamesAssumption DEF Flushers, Absent
<1>1. ASSUME NEW ip \in Ips, Record(ip) PROVE TypeOK'
      BY <1>1 DEF TypeOK, Record, dbVars, flushVars, refreshVars, apiVars
<1> USE DEF FlushFrame, Goto, Ended, refreshVars, apiVars, dbVars, memVars
<1>2. ASSUME NEW f \in Flushers, BeginFlush(f) PROVE TypeOK'
      BY <1>2 DEF TypeOK, BeginFlush, Zero
<1>3. ASSUME NEW f \in Flushers, RecordHosts(f) PROVE TypeOK'
      BY <1>3 DEF TypeOK, RecordHosts, Zero, Counted
<1>4. ASSUME NEW f \in Flushers, RecordFails(f) PROVE TypeOK'
      BY <1>4 DEF TypeOK, RecordFails, Zero, Plus
<1>5. ASSUME NEW f \in Flushers, Discover(f) PROVE TypeOK'
      BY <1>5 DEF TypeOK, Discover
<1>6. ASSUME NEW f \in Flushers, NEW ip \in Ips, SeedLook(f, ip) PROVE TypeOK'
      BY <1>6 DEF TypeOK, SeedLook, Proceed
<1>7. ASSUME NEW f \in Flushers, SeedInsert(f) PROVE TypeOK'
      BY <1>7 DEF TypeOK, SeedInsert, Proceed, Rows
<1>8. ASSUME NEW f \in Flushers, SeedFails(f) PROVE TypeOK'
  <2>1. excuses' \in [Ips -> SUBSET Reasons]
    <3>1. excuses \in [Ips -> SUBSET Reasons]
          BY DEF TypeOK
    <3> QED
        BY <1>8, <3>1, ExcuseType, ReasonList DEF SeedFails
  <2>2. failures' \in Nat
        BY <1>8 DEF TypeOK, SeedFails
  <2> QED
      BY <1>8, <2>1, <2>2 DEF TypeOK, SeedFails, Proceed
<1> USE DEF flushVars, bounds, history
<1>9. ASSUME LoadKnown \/ ApplyKnown PROVE TypeOK'
      BY <1>9 DEF TypeOK, LoadKnown, ApplyKnown, RefreshFrame, Listed, Pending
<1>10. ASSUME Crash \/ Exit PROVE TypeOK'
  <2>1. Down /\ crashes' = crashes + 1
        BY <1>10 DEF Crash, Exit
  <2>2. excuses' \in [Ips -> SUBSET Reasons]
    <3>1. excuses \in [Ips -> SUBSET Reasons]
          BY DEF TypeOK
    <3>2. PICK S : excuses' = Excuse(S, "crash")
          BY <2>1, Zenon DEF Down
    <3> QED
        BY <3>1, <3>2, ExcuseType, ReasonList
  <2>3. lost' \in [Ips -> Nat]
        BY <2>1 DEF TypeOK, Down, Plus, Each
  <2>4. /\ pending' \in [Ips -> Nat] /\ counts' \in [Flushers -> [Ips -> Nat]]
        /\ pending_new' \subseteq Ips /\ known' \subseteq Ips /\ loaded' \subseteq Ips
        /\ fresh' \in [Flushers -> SUBSET Ips]
        /\ target' \in [Flushers -> Ips \cup {NoIp}]
        /\ action' \in [Flushers -> Modes \cup {"none"}]
        BY <2>1 DEF Down, Zero, Each
  <2>5. /\ fpc' \in [Flushers -> {"idle", "off", "record", "discover", "seed",
                                  "insert", "exit"}]
        /\ \A f \in Flushers : fpc'[f] \notin {"seed", "insert"}
        BY <2>1 DEF Down, NewPlaces, Each
  <2>6. UNCHANGED <<hosts, policy, default_action, put, deleting, queries, failures,
                    deletes, ops, asked, gone, chosen>>
        BY <2>1 DEF Down, Each
  <2>7. up' \in BOOLEAN /\ rpc' \in {"idle", "loaded"}
        BY <2>1 DEF Down, Each
  <2>8. crashes' \in Nat
    <3>1. crashes \in Nat
          BY DEF TypeOK
    <3> QED
        BY <2>1, <3>1
  <2> QED
      BY <2>2, <2>3, <2>4, <2>5, <2>6, <2>7, <2>8 DEF TypeOK
<1>11. ASSUME Restart PROVE TypeOK'
      BY <1>11 DEF TypeOK, Restart
<1> USE DEF ApiFrame, Request
<1>12. ASSUME NEW m \in Modes, SetDefault(m) PROVE TypeOK'
      BY <1>12 DEF TypeOK, SetDefault
<1>13. ASSUME NEW ip \in Ips, NEW row \in Rows,
              CreatePolicy(ip, row) \/ UpdatePolicy(ip, row) PROVE TypeOK'
  <2>1. Operator(ip, row, "operator") /\ row # NoPolicy
        BY <1>13, RowsArePolicies DEF CreatePolicy, UpdatePolicy
  <2> QED
      BY <1>13, <2>1, OperatorType DEF TypeOK, CreatePolicy, UpdatePolicy
<1>14. ASSUME NEW ip \in Ips, DeletePolicy(ip) PROVE TypeOK'
  <2>1. Operator(ip, NoPolicy, "operator") /\ "operator" \in Reasons
        BY <1>14, ReasonList DEF DeletePolicy
  <2>2. /\ policy' \in [Ips -> Rows \cup {NoPolicy}]
        /\ chosen' \in [Ips -> Modes \cup {"none"}]
        /\ excuses' \in [Ips -> SUBSET Reasons]
        BY <2>1, OperatorType
  <2> QED
      BY <1>14, <2>2 DEF TypeOK, DeletePolicy
<1>15. ASSUME NEW ip \in Ips, NEW m \in Modes, SetModeLook(ip, m) PROVE TypeOK'
      BY <1>15 DEF TypeOK, SetModeLook
<1>16. ASSUME SetModeWrite PROVE TypeOK'
  <2>1. put.ip \in Ips /\ put.mode \in Modes
        BY <1>16, PutType DEF TypeOK, SetModeWrite
  <2>2. CASE UNCHANGED <<policy, chosen, excuses>>
        BY <1>16, <2>2 DEF TypeOK, SetModeWrite
  <2>3. ASSUME NEW row \in Rows, Operator(put.ip, row, "")
        PROVE  TypeOK'
    <3>1. row # NoPolicy
          BY RowsArePolicies
    <3> QED
        BY <1>16, <2>1, <2>3, <3>1, OperatorType DEF TypeOK, SetModeWrite
  <2>4. (put.row = NoPolicy \/ policy[put.ip].enabled) \in BOOLEAN
        BY <2>1 DEF TypeOK, Rows, NoPolicy
  <2>5. [action |-> put.mode,
         enabled |-> put.row = NoPolicy \/ policy[put.ip].enabled] \in Rows
        BY <2>1, <2>4 DEF Rows
  <2> QED
      BY <1>16, <2>2, <2>3, <2>5 DEF TypeOK, SetModeWrite
<1>17. ASSUME NEW ip \in Ips, DeleteHostRow(ip) PROVE TypeOK'
  <2>1. excuses' \in [Ips -> SUBSET Reasons]
    <3>1. excuses \in [Ips -> SUBSET Reasons]
          BY DEF TypeOK
    <3> QED
        BY <1>17, <3>1, ExcuseType, ReasonList DEF DeleteHostRow
  <2>2. lost' \in [Ips -> Nat]
    <3>1. hosts[ip] \in Nat
          BY <1>17 DEF TypeOK, DeleteHostRow
    <3>2. lost \in [Ips -> Nat] /\ lost[ip] + hosts[ip] \in Nat
          BY <3>1 DEF TypeOK
    <3>3. lost' = [lost EXCEPT ![ip] = lost[ip] + hosts[ip]]
          BY <1>17 DEF DeleteHostRow
    <3> QED
        BY <3>2, <3>3
  <2>3. hosts' \in [Ips -> Nat \cup {Absent}]
        BY <1>17 DEF TypeOK, DeleteHostRow
  <2>4. deleting' \in Ips \cup {NoIp} /\ deletes' \in Nat
    <3>1. deleting' = ip /\ deletes' = deletes + 1
          BY <1>17, Zenon DEF DeleteHostRow
    <3>2. deletes \in Nat
          BY DEF TypeOK
    <3> QED
        BY <3>1, <3>2
  <2>5. UNCHANGED <<policy, default_action, put, ops, gone, chosen,
                    up, memVars, flushVars, refreshVars, queries, failures, crashes,
                    asked>>
        BY <1>17 DEF DeleteHostRow
  <2> QED
      BY <2>1, <2>2, <2>3, <2>4, <2>5 DEF TypeOK
<1>18. ASSUME DeleteRest PROVE TypeOK'
  <2>1. deleting \in Ips /\ Operator(deleting, NoPolicy, "host deleted")
        BY <1>18 DEF TypeOK, DeleteRest
  <2> QED
      BY <1>18, <2>1, OperatorType, ReasonList DEF TypeOK, DeleteRest
<1>19. ASSUME DeleteRestFails PROVE TypeOK'
      BY <1>19 DEF TypeOK, DeleteRestFails
<1>20. ASSUME UNCHANGED vars PROVE TypeOK'
      BY <1>20 DEF TypeOK, vars
<1> QED
    BY <1>1, <1>2, <1>3, <1>4, <1>5, <1>6, <1>7, <1>8, <1>9, <1>10, <1>11, <1>12,
       <1>13, <1>14, <1>15, <1>16, <1>17, <1>18, <1>19, <1>20
    DEF Next, Worker, Api, Flush

-----------------------------------------------------------------------------
(* A step of the refresh thread, of the API or of nobody leaves the        *)
(* flushers and what is pending alone, and the counts too unless it is a   *)
(* deletion.                                                               *)
Elsewhere == UNCHANGED <<pending, pending_new, flushVars, hosts, lost, asked>>

LEMMA Steps ==
  ASSUME [Next]_vars
  PROVE  \/ \E ip \in Ips : Record(ip)
         \/ \E f \in Flushers : \/ BeginFlush(f) \/ RecordHosts(f) \/ RecordFails(f)
                                \/ Discover(f) \/ SeedInsert(f) \/ SeedFails(f)
                                \/ \E ip \in Ips : SeedLook(f, ip)
         \/ Down
         \/ \E ip \in Ips : DeleteHostRow(ip)
         \/ Elsewhere
<1>1. ASSUME LoadKnown \/ ApplyKnown \/ Restart PROVE Elsewhere
      BY <1>1 DEF LoadKnown, ApplyKnown, RefreshFrame, Restart, Elsewhere, dbVars,
                  memVars, history
<1>2. ASSUME Api PROVE Elsewhere \/ \E ip \in Ips : DeleteHostRow(ip)
      BY <1>2, Zenon
      DEF Api, SetDefault, CreatePolicy, UpdatePolicy, DeletePolicy, SetModeLook,
          SetModeWrite, DeleteRest, DeleteRestFails, ApiFrame, dbVars, memVars,
          Elsewhere
<1>3. ASSUME UNCHANGED vars PROVE Elsewhere
      BY <1>3 DEF vars, dbVars, memVars, history, Elsewhere
<1> QED
    BY <1>1, <1>2, <1>3 DEF Next, Worker, Flush, Crash, Exit

LEMMA IdleStep ==
  ASSUME TypeOK, IdleInv, NewInv, [Next]_vars
  PROVE  IdleInv' /\ NewInv'
<1> USE DEF TypeOK, IdleInv, NewInv, Pending
<1>1. ASSUME NEW ip \in Ips, Record(ip) PROVE IdleInv' /\ NewInv'
      BY <1>1 DEF Record, flushVars, Zero
<1> USE DEF FlushFrame, Goto, Ended, memVars
<1>2. ASSUME NEW f \in Flushers, BeginFlush(f) PROVE IdleInv' /\ NewInv'
  <2>1. Pending = {} => pending = Zero /\ pending_new = {}
        BY DEF Zero
  <2> QED
      BY <1>2, <2>1 DEF BeginFlush
<1>3. ASSUME NEW f \in Flushers, RecordHosts(f) \/ RecordFails(f)
      PROVE  IdleInv' /\ NewInv'
      BY <1>3 DEF RecordHosts, RecordFails
<1>4. ASSUME NEW f \in Flushers, Discover(f) PROVE IdleInv' /\ NewInv'
      BY <1>4 DEF Discover
<1>5. ASSUME NEW f \in Flushers, NEW ip \in Ips, SeedLook(f, ip)
      PROVE  IdleInv' /\ NewInv'
      BY <1>5 DEF SeedLook, Proceed
<1>6. ASSUME NEW f \in Flushers, SeedInsert(f) \/ SeedFails(f)
      PROVE  IdleInv' /\ NewInv'
  <2>1. Proceed(f, target[f]) /\ fpc[f] = "insert"
        BY <1>6 DEF SeedInsert, SeedFails
  <2>2. UNCHANGED <<counts, pending, pending_new>>
        BY <1>6 DEF SeedInsert, SeedFails
  <2> QED
      BY <2>1, <2>2 DEF Proceed
<1>7. ASSUME Down PROVE IdleInv' /\ NewInv'
      BY <1>7 DEF Down, Each, Zero
<1>8. ASSUME Elsewhere PROVE IdleInv' /\ NewInv'
      BY <1>8 DEF Elsewhere, flushVars
<1>9. ASSUME NEW ip \in Ips, DeleteHostRow(ip) PROVE IdleInv' /\ NewInv'
      BY <1>9 DEF DeleteHostRow, ApiFrame, flushVars
<1> QED
    BY <1>1, <1>2, <1>3, <1>4, <1>5, <1>6, <1>7, <1>8, <1>9, Steps

(* Each step moves queries between the terms of the sum.                   *)
LEMMA CountStep ==
  ASSUME TypeOK, IdleInv, CountsConserved, [Next]_vars
  PROVE  CountsConserved'
<1> USE DEF TypeOK, CountsConserved, Counted, Flushers, Absent, Zero
<1>1. ASSUME NEW ip \in Ips, Record(ip) PROVE CountsConserved'
      BY <1>1 DEF Record, dbVars, flushVars
<1> USE DEF FlushFrame, memVars, dbVars
<1>2. ASSUME NEW f \in Flushers, BeginFlush(f) PROVE CountsConserved'
  <2>1. counts[f] = Zero
        BY <1>2 DEF BeginFlush, IdleInv
  <2> QED
      BY <1>2, <2>1 DEF BeginFlush
<1>3. ASSUME NEW f \in Flushers, RecordHosts(f) PROVE CountsConserved'
      BY <1>3 DEF RecordHosts
<1>4. ASSUME NEW f \in Flushers, RecordFails(f) PROVE CountsConserved'
      BY <1>4 DEF RecordFails, Plus
<1>5. ASSUME NEW f \in Flushers,
             Discover(f) \/ SeedInsert(f) \/ SeedFails(f) \/ \E ip \in Ips : SeedLook(f, ip)
      PROVE  CountsConserved'
      BY <1>5 DEF Discover, SeedInsert, SeedFails, SeedLook
<1>6. ASSUME Down PROVE CountsConserved'
      BY <1>6 DEF Down, Plus, Each
<1>7. ASSUME NEW ip \in Ips, DeleteHostRow(ip) PROVE CountsConserved'
  <2>1. /\ hosts[ip] \in Nat
        /\ hosts' = [hosts EXCEPT ![ip] = Absent]
        /\ lost' = [lost EXCEPT ![ip] = lost[ip] + hosts[ip]]
        /\ UNCHANGED <<pending, counts, asked>>
        BY <1>7, Zenon DEF DeleteHostRow, ApiFrame, flushVars
  <2>2. lost[ip] \in Nat /\ pending[ip] \in Nat /\ counts["timer"][ip] \in Nat
        /\ counts["main"][ip] \in Nat
        OBVIOUS
  <2> QED
      BY <2>1, <2>2
<1>8. ASSUME Elsewhere PROVE CountsConserved'
      BY <1>8 DEF Elsewhere, flushVars
<1> QED
    BY <1>1, <1>2, <1>3, <1>4, <1>5, <1>6, <1>7, <1>8, Steps

-----------------------------------------------------------------------------
(* Seeding: no step takes an address' account away, and only a query adds  *)
(* an address to those that must have one.                                 *)
LEMMA AccountsKept ==
  ASSUME TypeOK, SeedInv, Traced' \subseteq Traced,
         \A ip \in Ips : Accounted(ip) => Accounted(ip)'
  PROVE  SeedInv'
<1>1. Traced \subseteq Ips
      BY DEF TypeOK, Traced, Listed, Pending
<1> QED
    BY <1>1 DEF SeedInv

(* An operator's write stores a row or is the account.                     *)
LEMMA OperatorAccounts ==
  ASSUME TypeOK, NEW ip \in Ips, NEW row, NEW why, Operator(ip, row, why),
         UNCHANGED <<pending_new, fresh>>
  PROVE  \A j \in Ips : Accounted(j) => Accounted(j)'
BY DEF TypeOK, Operator, Accounted, Seeded, Owed

LEMMA SeedApi ==
  ASSUME TypeOK, SeedInv, Api
  PROVE  SeedInv'
<1>1. UNCHANGED <<known, loaded, pending, pending_new, counts, fresh>>
      BY Zenon DEF Api, SetDefault, CreatePolicy, UpdatePolicy, DeletePolicy,
         SetModeLook, SetModeWrite, DeleteHostRow, DeleteRest, DeleteRestFails,
         ApiFrame, memVars, flushVars, refreshVars
<1>2. ASSUME NEW ip \in Ips, NEW row, NEW why, Operator(ip, row, why), UNCHANGED hosts
      PROVE  SeedInv'
  <2>1. Traced' \subseteq Traced
        BY <1>1, <1>2 DEF Traced, Listed, Pending
  <2> QED
      BY <1>1, <1>2, <2>1, OperatorAccounts, AccountsKept
<1>3. ASSUME UNCHANGED <<hosts, policy, excuses>> PROVE SeedInv'
      BY <1>1, <1>3 DEF SeedInv, Traced, Listed, Pending, Accounted, Seeded, Owed
<1>4. ASSUME NEW m \in Modes, SetDefault(m) PROVE SeedInv'
      BY <1>3, <1>4 DEF SetDefault, dbVars
<1>5. ASSUME NEW ip \in Ips, NEW row \in Rows,
             CreatePolicy(ip, row) \/ UpdatePolicy(ip, row)
      PROVE  SeedInv'
      BY <1>2, <1>5 DEF CreatePolicy, UpdatePolicy
<1>6. ASSUME NEW ip \in Ips, DeletePolicy(ip) PROVE SeedInv'
      BY <1>2, <1>6 DEF DeletePolicy
<1>7. ASSUME NEW ip \in Ips, NEW m \in Modes, SetModeLook(ip, m) PROVE SeedInv'
      BY <1>3, <1>7 DEF SetModeLook, dbVars
<1>8. ASSUME SetModeWrite PROVE SeedInv'
  <2>1. put.ip \in Ips
        BY <1>8, PutType DEF TypeOK, SetModeWrite
  <2> QED
      BY <1>2, <1>3, <1>8, <2>1 DEF SetModeWrite
<1>9. ASSUME NEW ip \in Ips, DeleteHostRow(ip) PROVE SeedInv'
  <2>1. /\ hosts' = [hosts EXCEPT ![ip] = Absent]
        /\ excuses' = Excuse({ip}, "host deleted")
        /\ policy' = policy
        BY <1>9 DEF DeleteHostRow
  <2>2. Traced' \subseteq Traced
        BY <1>1, <2>1 DEF TypeOK, Traced, Listed, Pending
  <2>3. \A j \in Ips : Accounted(j) => Accounted(j)'
        BY <1>1, <2>1 DEF Accounted, Seeded, Owed, Excuse
  <2> QED
      BY <2>2, <2>3, AccountsKept
<1>10. ASSUME DeleteRest PROVE SeedInv'
      BY <1>2, <1>10 DEF DeleteRest, TypeOK
<1>11. ASSUME DeleteRestFails PROVE SeedInv'
      BY <1>3, <1>11 DEF DeleteRestFails, dbVars
<1> QED
    BY <1>4, <1>5, <1>6, <1>7, <1>8, <1>9, <1>10, <1>11 DEF Api

(* Moving on to the next address drops the account of one address only.    *)
LEMMA ProceedAccounts ==
  ASSUME TypeOK, NEW f \in Flushers, NEW ip \in Ips, Proceed(f, ip),
         UNCHANGED pending_new,
         \A j \in Ips : Seeded(j) => Seeded(j)',
         \A j \in Ips \ {ip} : excuses[j] # {} => excuses'[j] # {},
         Seeded(ip)' \/ excuses'[ip] # {}
  PROVE  \A j \in Ips : Accounted(j) => Accounted(j)'
<1>1. \A g \in Flushers : \A j \in Ips \ {ip} : j \in fresh[g] => j \in fresh'[g]
      BY DEF TypeOK, Proceed
<1> QED
    BY <1>1 DEF Accounted, Owed, Flushers

LEMMA SeedFlush ==
  ASSUME TypeOK, IdleInv, NewInv, SeedInv, NEW f \in Flushers,
         \/ Flush(f) \/ RecordFails(f) \/ SeedFails(f)
  PROVE  SeedInv'
<1> USE DEF FlushFrame, memVars, dbVars, refreshVars, Flushers
<1>1. ASSUME BeginFlush(f) PROVE SeedInv'
  <2>1. fresh[f] = {}
        BY <1>1 DEF BeginFlush, IdleInv
  <2>2. /\ fresh' = [fresh EXCEPT ![f] = pending_new]
        /\ counts' = [counts EXCEPT ![f] = pending]
        /\ pending' = Zero
        /\ UNCHANGED <<hosts, policy, excuses, known, loaded>>
        BY <1>1 DEF BeginFlush
  <2>3. \A j \in Ips : Accounted(j) => Accounted(j)'
        BY <2>1, <2>2 DEF TypeOK, Accounted, Seeded, Owed
  <2>4. Traced' \subseteq Traced
        BY <2>2 DEF TypeOK, Traced, Listed, Pending, Zero
  <2> QED
      BY <2>3, <2>4, AccountsKept
<1>2. ASSUME RecordHosts(f) \/ RecordFails(f) PROVE SeedInv'
  <2>1. /\ counts' = [counts EXCEPT ![f] = Zero]
        /\ \A j \in Ips : hosts'[j] # Absent => hosts[j] # Absent \/ counts[f][j] > 0
        /\ UNCHANGED <<policy, excuses, known, loaded, pending, pending_new, fresh>>
        BY <1>2 DEF TypeOK, RecordHosts, RecordFails
  <2>2. \A j \in Ips : Accounted(j) => Accounted(j)'
        BY <2>1 DEF Accounted, Seeded, Owed
  <2>3. Traced' \subseteq Traced
        BY <2>1 DEF TypeOK, Traced, Listed, Pending, Zero
  <2> QED
      BY <2>2, <2>3, AccountsKept
<1>3. ASSUME Discover(f) PROVE SeedInv'
      BY <1>3 DEF Discover, SeedInv, Traced, Listed, Pending, Accounted, Seeded, Owed
<1>4. ASSUME NEW ip \in Ips, Proceed(f, ip),
             UNCHANGED <<hosts, memVars, refreshVars, counts>>,
             \A j \in Ips : Seeded(j) => Seeded(j)',
             \A j \in Ips \ {ip} : excuses[j] # {} => excuses'[j] # {},
             Seeded(ip)' \/ excuses'[ip] # {}
      PROVE  SeedInv'
  <2>1. \A j \in Ips : Accounted(j) => Accounted(j)'
        BY <1>4, ProceedAccounts
  <2>2. Traced' \subseteq Traced
        BY <1>4 DEF Traced, Listed, Pending
  <2> QED
      BY <2>1, <2>2, AccountsKept
<1>5. ASSUME NEW ip \in Ips, SeedLook(f, ip) PROVE SeedInv'
  <2>1. CASE policy[ip] # NoPolicy
    <3>1. /\ Proceed(f, ip) /\ excuses' = [excuses EXCEPT ![ip] = {}]
          /\ UNCHANGED <<hosts, policy, memVars, refreshVars, counts>>
          BY <1>5, <2>1 DEF SeedLook
    <3> QED
        BY <1>4, <2>1, <3>1 DEF TypeOK, Seeded
  <2>2. CASE policy[ip] = NoPolicy
    <3>1. UNCHANGED <<hosts, policy, memVars, refreshVars, counts, fresh, excuses>>
          BY <1>5, <2>2 DEF SeedLook
    <3> QED
        BY <3>1 DEF SeedInv, Traced, Listed, Pending, Accounted, Seeded, Owed
  <2> QED
      BY <2>1, <2>2
<1>6. ASSUME SeedInsert(f) PROVE SeedInv'
  <2>1. PICK ip \in Ips : ip = target[f]
        BY <1>6 DEF TypeOK, SeedInsert
  <2>2. /\ Proceed(f, ip)
        /\ policy' = [policy EXCEPT ![ip] =
             IF @ = NoPolicy THEN [action |-> action[f], enabled |-> TRUE] ELSE @]
        /\ excuses' = [excuses EXCEPT ![ip] = {}]
        /\ UNCHANGED <<hosts, memVars, refreshVars, counts>>
        BY <1>6, <2>1 DEF SeedInsert
  <2>3. [action |-> action[f], enabled |-> TRUE] # NoPolicy
        BY DEF NoPolicy
  <2>4. Seeded(ip)' /\ \A j \in Ips : Seeded(j) => Seeded(j)'
        BY <2>2, <2>3 DEF TypeOK, Seeded
  <2>5. \A j \in Ips \ {ip} : excuses[j] # {} => excuses'[j] # {}
        BY <2>2 DEF TypeOK
  <2> QED
      BY <1>4, <2>2, <2>4, <2>5
<1>7. ASSUME SeedFails(f) PROVE SeedInv'
  <2>1. PICK ip \in Ips : ip = target[f]
        BY <1>7 DEF TypeOK, SeedFails
  <2>2. /\ Proceed(f, ip) /\ excuses' = Excuse({ip}, "failure")
        /\ UNCHANGED <<hosts, policy, memVars, refreshVars, counts>>
        BY <1>7, <2>1 DEF SeedFails
  <2>3. \A j \in Ips : Seeded(j) => Seeded(j)'
        BY <2>2 DEF Seeded
  <2>4. /\ \A j \in Ips \ {ip} : excuses[j] # {} => excuses'[j] # {}
        /\ excuses'[ip] # {}
        BY <2>2 DEF Excuse
  <2> QED
      BY <1>4, <2>2, <2>3, <2>4
<1> QED
    BY <1>1, <1>2, <1>3, <1>5, <1>6, <1>7 DEF Flush

LEMMA SeedStep ==
  ASSUME TypeOK, IdleInv, NewInv, SeedInv, [Next]_vars
  PROVE  SeedInv'
<1>1. ASSUME NEW ip \in Ips, Record(ip) PROVE SeedInv'
  <2>1. /\ known' = known \cup {ip}
        /\ pending_new' = IF ip \in known THEN pending_new ELSE pending_new \cup {ip}
        /\ pending' = [pending EXCEPT ![ip] = @ + 1]
        /\ UNCHANGED <<hosts, policy, counts, fresh, loaded, excuses>>
        BY <1>1 DEF Record, dbVars, flushVars, refreshVars
  <2>2. \A j \in Ips : Accounted(j) => Accounted(j)'
        BY <2>1 DEF Accounted, Seeded, Owed
  <2>3. Accounted(ip)'
    <3>1. CASE ip \in known
          BY <2>2, <3>1 DEF SeedInv, Traced
    <3>2. CASE ip \notin known
          BY <2>1, <3>2 DEF Accounted, Owed
    <3> QED
        BY <3>1, <3>2
  <2>4. Traced' \subseteq Traced \cup {ip}
        BY <2>1 DEF TypeOK, Traced, Listed, Pending
  <2>5. Traced \subseteq Ips
        BY DEF TypeOK, Traced, Listed, Pending
  <2> QED
      BY <2>2, <2>3, <2>4, <2>5 DEF SeedInv
<1>2. ASSUME NEW f \in Flushers, Flush(f) \/ RecordFails(f) \/ SeedFails(f)
      PROVE  SeedInv'
      BY <1>2, SeedFlush
<1>3. ASSUME LoadKnown \/ ApplyKnown PROVE SeedInv'
  <2>1. UNCHANGED <<hosts, policy, pending, pending_new, counts, fresh, excuses>>
        BY <1>3 DEF LoadKnown, ApplyKnown, RefreshFrame, dbVars, flushVars, history
  <2>2. \A j \in Ips : Accounted(j) => Accounted(j)'
        BY <2>1 DEF Accounted, Seeded, Owed
  <2>3. Traced' \subseteq Traced
        BY <1>3, <2>1 DEF LoadKnown, ApplyKnown, Traced, Listed, Pending
  <2> QED
      BY <2>2, <2>3, AccountsKept
<1>4. ASSUME Down PROVE SeedInv'
  <2>1. /\ counts' = [f \in Flushers |-> Zero] /\ pending' = Zero
        /\ known' = {} /\ loaded' = {}
        /\ UNCHANGED <<hosts, policy>>
        BY <1>4 DEF Down, Each, dbVars
  <2>2. excuses' = Excuse(pending_new \cup fresh["timer"] \cup fresh["main"], "crash")
        BY <1>4, Zenon DEF Down
  <2>3. \A j \in Ips : Accounted(j) => Accounted(j)'
        BY <2>1, <2>2 DEF Accounted, Seeded, Owed, Excuse
  <2>4. Traced' \subseteq Traced
        BY <2>1 DEF Traced, Listed, Pending, Zero
  <2> QED
      BY <2>3, <2>4, AccountsKept
<1>5. ASSUME Restart \/ UNCHANGED vars PROVE SeedInv'
      BY <1>5 DEF Restart, vars, dbVars, memVars, flushVars, refreshVars, history,
         SeedInv, Traced, Listed, Pending, Accounted, Seeded, Owed
<1> QED
    BY <1>1, <1>2, <1>3, <1>4, <1>5, SeedApi DEF Next, Worker, Crash, Exit

-----------------------------------------------------------------------------
(* Only an operator's write and an insert into an empty row touch a policy. *)
LEMMA OperatorChooses ==
  ASSUME TypeOK, OperatorChoiceStands,
         NEW ip \in Ips, NEW row, NEW why, Operator(ip, row, why)
  PROVE  OperatorChoiceStands'
BY DEF TypeOK, OperatorChoiceStands, Operator

LEMMA ChoiceStep ==
  ASSUME TypeOK, OperatorChoiceStands, [Next]_vars
  PROVE  OperatorChoiceStands'
<1>1. ASSUME UNCHANGED <<policy, chosen>> PROVE OperatorChoiceStands'
      BY <1>1 DEF OperatorChoiceStands
<1>2. ASSUME Worker PROVE OperatorChoiceStands'
  <2>1. ASSUME NEW f \in Flushers, SeedInsert(f) PROVE OperatorChoiceStands'
    <3>1. /\ policy' = [policy EXCEPT ![target[f]] =
               IF @ = NoPolicy THEN [action |-> action[f], enabled |-> TRUE] ELSE @]
          /\ chosen' = chosen
          BY <2>1 DEF SeedInsert, FlushFrame
    <3>2. \A ip \in Ips : policy[ip] = NoPolicy => chosen[ip] = "none"
          BY DEF OperatorChoiceStands, NoPolicy
    <3> QED
        BY <3>1, <3>2 DEF TypeOK, OperatorChoiceStands
  <2>2. ASSUME NEW f \in Flushers,
               \/ BeginFlush(f) \/ RecordHosts(f) \/ RecordFails(f) \/ Discover(f)
               \/ SeedFails(f) \/ \E ip \in Ips : SeedLook(f, ip)
        PROVE  UNCHANGED <<policy, chosen>>
        BY <2>2 DEF BeginFlush, RecordHosts, RecordFails, Discover, SeedFails,
                    SeedLook, FlushFrame, dbVars
  <2>3. ASSUME \/ \E ip \in Ips : Record(ip)
               \/ LoadKnown \/ ApplyKnown
        PROVE  UNCHANGED <<policy, chosen>>
        BY <2>3 DEF Record, LoadKnown, ApplyKnown, RefreshFrame, dbVars, history
  <2> QED
      BY <1>1, <1>2, <2>1, <2>2, <2>3 DEF Worker, Flush
<1>3. ASSUME Api PROVE OperatorChoiceStands'
  <2>1. ASSUME \/ \E m \in Modes : SetDefault(m)
               \/ \E ip \in Ips, m \in Modes : SetModeLook(ip, m)
               \/ \E ip \in Ips : DeleteHostRow(ip)
               \/ DeleteRestFails
        PROVE  UNCHANGED <<policy, chosen>>
        BY <2>1 DEF SetDefault, SetModeLook, DeleteHostRow, DeleteRestFails, dbVars
  <2>2. ASSUME NEW ip \in Ips, NEW row \in Rows,
               CreatePolicy(ip, row) \/ UpdatePolicy(ip, row)
        PROVE  OperatorChoiceStands'
        BY <2>2, OperatorChooses DEF CreatePolicy, UpdatePolicy
  <2>3. ASSUME NEW ip \in Ips, DeletePolicy(ip) PROVE OperatorChoiceStands'
        BY <2>3, OperatorChooses DEF DeletePolicy
  <2>4. ASSUME SetModeWrite PROVE OperatorChoiceStands'
    <3>1. put.ip \in Ips
          BY <2>4, PutType DEF TypeOK, SetModeWrite
    <3> QED
        BY <1>1, <2>4, <3>1, OperatorChooses DEF SetModeWrite
  <2>5. ASSUME DeleteRest PROVE OperatorChoiceStands'
    <3>1. deleting \in Ips
          BY <2>5 DEF TypeOK, DeleteRest
    <3> QED
        BY <2>5, <3>1, OperatorChooses DEF DeleteRest
  <2> QED
      BY <1>1, <1>3, <2>1, <2>2, <2>3, <2>4, <2>5 DEF Api
<1>4. ASSUME Crash \/ Exit \/ Restart \/ UNCHANGED vars
      PROVE  UNCHANGED <<policy, chosen>>
      BY <1>4 DEF Crash, Exit, Down, Each, Restart, vars, dbVars, history
<1> QED
    BY <1>1, <1>2, <1>3, <1>4 DEF Next

-----------------------------------------------------------------------------
(* The inductive invariant of the host registry holds in every state: the  *)
(* tracker, the two databases and the flushers agree on every address.     *)
THEOREM HostInvariance == Spec => []IInv
<1>1. IInv /\ [Next]_vars => IInv'
      BY TypeStep, IdleStep, CountStep, SeedStep, ChoiceStep DEF IInv
<1> QED
    BY <1>1, InitIInv, PTL DEF Spec

(* Every variable of the tracker, the databases and the requests keeps its *)
(* type, through failures, crashes and restarts.                           *)
THEOREM TypeTheorem == Spec => []TypeOK
<1>1. IInv => TypeOK
      BY DEF IInv
<1> QED
    BY <1>1, HostInvariance, PTL

(* HostTracker and record_hosts count every query exactly once, or drop it *)
(* in a failed flush, a crash or a deletion.                               *)
THEOREM CountsTheorem == Spec => []CountsConserved
<1>1. IInv => CountsConserved
      BY DEF IInv
<1> QED
    BY <1>1, HostInvariance, PTL

(* on_discover and ensure_client_policy: no host goes without its wildcard *)
(* row for any other reason than the four the model names.                 *)
THEOREM SeedingTheorem == Spec => []SeedAccounted
<1>1. IInv => SeedAccounted
      BY DEF IInv, SeedInv, Traced, Accounted, SeedAccounted
<1> QED
    BY <1>1, HostInvariance, PTL

(* ensure_client_policy never overrides the action an operator has given a *)
(* client.                                                                 *)
THEOREM ChoiceTheorem == Spec => []OperatorChoiceStands
<1>1. IInv => OperatorChoiceStands
      BY DEF IInv
<1> QED
    BY <1>1, HostInvariance, PTL
=============================================================================
