------------------------- MODULE ConfigStoreProofs -------------------------
(***************************************************************************)
(* Proofs about ConfigStore, for any old database, any requests and any    *)
(* number of restarts and failures: the move of the old rows implements    *)
(* LegacyMigration, settings read back as they were put, and stored rows   *)
(* are usable.                                                             *)
(***************************************************************************)
EXTENDS ConfigStore, FiniteSetTheorems, WellFoundedInduction, TLAPS

-----------------------------------------------------------------------------
(* Ids.  A finite set of numbers has a greatest one, which is what makes   *)
(* the id of a new row a new one.                                          *)
Greatest(m, S) == m \in S /\ \A x \in S : m >= x

LEMMA FiniteHasGreatest ==
  ASSUME NEW S, S \subseteq Int, IsFiniteSet(S), S # {}
  PROVE  \E m : Greatest(m, S)
<1> DEFINE T == {X \in FiniteSubsetsOf(S) : X # {} /\ ~\E m : Greatest(m, X)}
<1>1. SUFFICES ASSUME S \in T PROVE FALSE
  <2>1. S \in FiniteSubsetsOf(S)
        BY DEF FiniteSubsetsOf
  <2> QED
      BY <2>1
<1>2. PICK X \in T : \A Y \in T : <<Y, X>> \notin StrictSubsetOrdering(S)
  <2>1. T \subseteq FiniteSubsetsOf(S) /\ T # {}
        BY <1>1
  <2> HIDE DEF T
  <2> QED
      BY <2>1, FS_StrictSubsetOrderingWellFounded, WFMin
<1>3. /\ X \subseteq S /\ IsFiniteSet(X) /\ X # {}
      /\ ~\E m : Greatest(m, X)
      BY DEF FiniteSubsetsOf
<1>4. PICK e \in X : TRUE
      BY <1>3
<1>5. X \ {e} \in FiniteSubsetsOf(S)
      BY <1>3, FS_RemoveElement DEF FiniteSubsetsOf
<1>6. <<X \ {e}, X>> \in StrictSubsetOrdering(S)
      BY <1>3, <1>4 DEF StrictSubsetOrdering
<1>7. X \ {e} \notin T
      BY <1>2, <1>6
<1>8. CASE X \ {e} = {}
      BY <1>3, <1>4, <1>8 DEF Greatest
<1>9. CASE \E m : Greatest(m, X \ {e})
  <2>1. PICK m : Greatest(m, X \ {e})
        BY <1>9
  <2>2. m \in Int /\ e \in Int /\ X \subseteq Int
        BY <2>1, <1>3, <1>4 DEF Greatest
  <2>3. Greatest(IF m >= e THEN m ELSE e, X)
        BY <2>1, <2>2, <1>4 DEF Greatest
  <2> QED
      BY <2>3, <1>3
<1> QED
    BY <1>5, <1>7, <1>8, <1>9

(* The keys of a table with an INTEGER PRIMARY KEY.                        *)
GoodKeys(f) == DOMAIN f \subseteq Nat \ {0} /\ IsFiniteSet(DOMAIN f)

LEMMA NextIdIsNew ==
  ASSUME NEW f, GoodKeys(f)
  PROVE  NextId(f) \in Nat \ {0} /\ NextId(f) \notin DOMAIN f
<1> DEFINE S == DOMAIN f \cup {0}
<1>1. S \subseteq Nat /\ S # {} /\ IsFiniteSet(S)
      BY FS_AddElement DEF GoodKeys
<1>2. PICK m : Greatest(m, S)
      BY <1>1, FiniteHasGreatest
<1>3. Greatest(Max(S), S)
      BY <1>2 DEF Max, Greatest
<1>4. Max(S) \in Nat /\ \A x \in DOMAIN f : x <= Max(S)
  <2>1. Max(S) \in S /\ \A x \in S : Max(S) >= x
        BY <1>3 DEF Greatest
  <2> HIDE DEF S
  <2>2. Max(S) \in Nat /\ \A x \in S : x <= Max(S)
        BY <1>1, <2>1
  <2> QED
      BY <2>2 DEF S
<1>5. NextId(f) = Max(S) + 1
      BY DEF NextId
<1>6. DOMAIN f \subseteq Nat
      BY DEF GoodKeys
<1> HIDE DEF S
<1> QED
    BY <1>4, <1>5, <1>6

LEMMA AddKeys ==
  ASSUME NEW f, NEW row, GoodKeys(f)
  PROVE  /\ GoodKeys(Add(f, row))
         /\ DOMAIN Add(f, row) = DOMAIN f \cup {NextId(f)}
         /\ \A k \in DOMAIN f : Add(f, row)[k] = f[k]
<1>1. DOMAIN Add(f, row) = DOMAIN f \cup {NextId(f)}
      BY DEF Add, Merge
<1>2. IsFiniteSet(DOMAIN f \cup {NextId(f)})
      BY FS_AddElement DEF GoodKeys
<1> QED
    BY <1>1, <1>2, NextIdIsNew DEF GoodKeys, Add, Merge

LEMMA MergeKeys ==
  ASSUME NEW f, NEW g, GoodKeys(f), GoodKeys(g)
  PROVE  GoodKeys(Merge(f, g))
BY FS_Union DEF GoodKeys, Merge

-----------------------------------------------------------------------------
(* Types.  Every table but app_settings, whose keys are names, is keyed by *)
(* an id.                                                                  *)
Keyed == Tables \ {"app_settings"}

TypeInv ==
  /\ rows = [t \in Tables |-> rows[t]] /\ DOMAIN rows = Tables
  /\ DOMAIN legacy = Tables
  /\ file \in {"present", "absent"}
  /\ unusable \subseteq Tables /\ copied \subseteq Tables /\ claimed \subseteq Tables
  /\ ipc \in {"create", "copy", "insert", "rename", "columns", "alter", "backfill",
              "seed", "plant", "done", "failed"}
  /\ next \in Nat \ {0}
  /\ upd # NoUpdate => upd.table \in Keyed
  /\ \A t \in Keyed : GoodKeys(rows[t]) /\ GoodKeys(legacy[t])

(* What a write by another process than initdb is, for the move of the old *)
(* rows: one table changes, and is not empty if it was empty before.       *)
Edits(t) ==
  /\ rows' = [rows EXCEPT ![t] = rows'[t]]
  /\ t \in Keyed => GoodKeys(rows'[t]) /\ put' = put
  /\ DOMAIN rows[t] = {} => DOMAIN rows'[t] # {}
  /\ Claim(t)
  /\ emptied \subseteq emptied'
  /\ (DOMAIN rows'[t] = {} /\ file = "present") => t \in emptied'
  /\ UNCHANGED <<legacy, unusable, initVars>>

Idles == UNCHANGED <<rows, legacy, unusable, initVars, claimed, emptied, put>>

UpdTyped == upd' # NoUpdate => upd'.table \in Keyed

LEMMA TablesNamed ==
  /\ {"blocklists", "policies", "upstreams", "query_log", "hosts"} \subseteq Keyed
  /\ "app_settings" \in Tables
  /\ DOMAIN Creates \subseteq Keyed /\ DOMAIN Updates \subseteq Keyed
<1>1. DOMAIN CreateModel = {"policies", "upstreams", "blocklists", "local_zones",
                            "trusted_networks", "blocklist_overrides"}
      BY DEF CreateModel
<1>2. DOMAIN UpdateModel = {"policies", "upstreams", "blocklists", "local_zones", "hosts"}
      BY DEF UpdateModel
<1> QED
    BY <1>1, <1>2, StoreAssumption, RequestAssumption DEF Keyed, Tables

LEMMA CreateEdits ==
  ASSUME TypeInv, NEW t \in Keyed, NEW b, Create(t, b)
  PROVE  Edits(t) /\ UpdTyped
<1>1. rows' = [rows EXCEPT ![t] = Add(rows[t], NewRow(t, b))]
      BY DEF Create, Stored
<1>2. GoodKeys(rows[t]) /\ t \in DOMAIN rows
      BY DEF TypeInv, Keyed
<1>3. rows'[t] = Add(rows[t], NewRow(t, b))
      BY <1>1, <1>2
<1>4. GoodKeys(rows'[t]) /\ DOMAIN rows'[t] # {}
  <2>1. /\ GoodKeys(Add(rows[t], NewRow(t, b)))
        /\ DOMAIN Add(rows[t], NewRow(t, b)) = DOMAIN rows[t] \cup {NextId(rows[t])}
        BY <1>2, AddKeys
  <2> QED
      BY <2>1, <1>3
<1> QED
    BY <1>1, <1>3, <1>4 DEF Create, ApiFrame, Edits, UpdTyped, TypeInv

LEMMA FinishEdits ==
  ASSUME TypeInv, FinishUpdate
  PROVE  (Idles \/ \E t \in Keyed : Edits(t)) /\ UpdTyped
<1> DEFINE t == upd.table
           i == upd.id
           row == Merge(Changed, rows[t][i])
<1>1. t \in Keyed /\ t \in DOMAIN rows /\ GoodKeys(rows[t])
      BY DEF FinishUpdate, TypeInv, Keyed
<1>2. CASE DOMAIN Changed # {} /\ i \in DOMAIN rows[t] /\ ~Clash(t, i, row)
  <2>1. rows' = [rows EXCEPT ![t] = [rows[t] EXCEPT ![i] = row]] /\ Claim(t)
        BY <1>2 DEF FinishUpdate, Stored
  <2>2. rows'[t] = [rows[t] EXCEPT ![i] = row]
        BY <2>1, <1>1
  <2>3. DOMAIN rows'[t] = DOMAIN rows[t] /\ DOMAIN rows[t] # {}
        BY <2>2, <1>2
  <2>4. GoodKeys(rows'[t])
        BY <2>3, <1>1 DEF GoodKeys
  <2>5. Edits(t)
        BY <2>1, <2>2, <2>3, <2>4 DEF FinishUpdate, ApiFrame, Edits
  <2> QED
      BY <2>5, <1>1 DEF FinishUpdate, UpdTyped
<1>3. CASE ~(DOMAIN Changed # {} /\ i \in DOMAIN rows[t] /\ ~Clash(t, i, row))
      BY <1>3 DEF FinishUpdate, ApiFrame, Idles, UpdTyped
<1> QED
    BY <1>2, <1>3

LEMMA RemoveEdits ==
  ASSUME TypeInv, NEW t \in Keyed, NEW ids \in SUBSET DOMAIN rows[t], Remove(t, ids)
  PROVE  Edits(t) /\ UpdTyped
<1>1. rows' = [rows EXCEPT ![t] = [k \in DOMAIN rows[t] \ ids |-> rows[t][k]]]
      BY DEF Remove, Stored
<1>2. GoodKeys(rows[t]) /\ t \in DOMAIN rows
      BY DEF TypeInv, Keyed
<1>3. rows'[t] = [k \in DOMAIN rows[t] \ ids |-> rows[t][k]]
      BY <1>1, <1>2
<1>4. DOMAIN rows'[t] = DOMAIN rows[t] \ ids /\ DOMAIN rows[t] # {}
      BY <1>3 DEF Remove
<1>5. GoodKeys(rows'[t])
      BY <1>2, <1>4, FS_Subset DEF GoodKeys
<1>6. (DOMAIN rows'[t] = {} /\ file = "present") => t \in emptied'
      BY <1>4 DEF Remove
<1>7. emptied \subseteq emptied'
      BY DEF Remove
<1> QED
    BY <1>1, <1>3, <1>4, <1>5, <1>6, <1>7 DEF Remove, ApiFrame, Edits, UpdTyped, TypeInv

LEMMA SettingsEdits ==
  ASSUME TypeInv, NEW f, DOMAIN f # {},
         Stored("app_settings", Merge(f, rows["app_settings"])),
         Claim("app_settings"), UNCHANGED <<upd, emptied>>, ApiFrame
  PROVE  Edits("app_settings") /\ UpdTyped
<1>1. rows' = [rows EXCEPT !["app_settings"] = Merge(f, rows["app_settings"])]
      BY DEF Stored
<1>2. "app_settings" \in DOMAIN rows
      BY TablesNamed DEF TypeInv
<1>3. rows'["app_settings"] = Merge(f, rows["app_settings"])
      BY <1>1, <1>2
<1>4. DOMAIN rows'["app_settings"] # {}
      BY <1>3 DEF Merge
<1> QED
    BY <1>1, <1>3, <1>4 DEF ApiFrame, Edits, UpdTyped, TypeInv, Keyed

LEMMA WildcardEdits ==
  ASSUME TypeInv, NEW c, NEW action, AddWildcard(c, action),
         UNCHANGED <<upd, put, emptied>>, ApiFrame
  PROVE  Edits("policies") /\ UpdTyped
<1> DEFINE row == ClientPolicy(c, action)
           t == "policies"
<1>1. rows' = [rows EXCEPT ![t] = Add(rows[t], row)] /\ Claim(t)
      BY DEF AddWildcard, Stored
<1> HIDE DEF row
<1>2. GoodKeys(rows[t]) /\ t \in DOMAIN rows
      BY TablesNamed DEF TypeInv, Keyed
<1>3. rows'[t] = Add(rows[t], row)
      BY <1>1, <1>2
<1>4. GoodKeys(rows'[t]) /\ DOMAIN rows'[t] # {}
  <2>1. /\ GoodKeys(Add(rows[t], row))
        /\ DOMAIN Add(rows[t], row) = DOMAIN rows[t] \cup {NextId(rows[t])}
        BY <1>2, AddKeys
  <2> QED
      BY <2>1, <1>3
<1> QED
    BY <1>1, <1>3, <1>4 DEF ApiFrame, Edits, UpdTyped, TypeInv

LEMMA ModeEdits ==
  ASSUME TypeInv, NEW c, NEW b, SetClientMode(c, b)
  PROVE  (Idles \/ Edits("policies")) /\ UpdTyped
<1>1. CASE \E i \in Wildcard(c) : Load("policies", i, [action |-> b.mode])
  <2>1. PICK i, body : Load("policies", i, body)
        BY <1>1
  <2>2. UpdTyped
        BY <2>1, TablesNamed DEF Load, UpdTyped
  <2>3. Idles
        BY <2>1 DEF Load, ApiFrame, Idles
  <2> QED
      BY <2>2, <2>3
<1>2. CASE AddWildcard(c, b.mode) /\ UNCHANGED <<upd, put, emptied>> /\ ApiFrame
      BY <1>2, WildcardEdits
<1> QED
    BY <1>1, <1>2 DEF SetClientMode

LEMMA ApiEdits ==
  ASSUME TypeInv, Api
  PROVE  /\ \/ Idles
            \/ \E t \in Keyed : Edits(t)
            \/ Edits("app_settings") /\ (RequestFlush \/ \E b \in Puts : UpdateSettings(b))
         /\ UpdTyped
<1>1. CASE \E t \in DOMAIN Creates : \E b \in Creates[t] : Create(t, b)
      BY <1>1, CreateEdits, TablesNamed
<1>2. CASE \E t \in DOMAIN Updates : \E i \in DOMAIN rows[t], b \in Updates[t] :
             BeginUpdate(t, i, b)
  <2>1. PICK t \in DOMAIN Updates :
          \E i \in DOMAIN rows[t], b \in Updates[t] : Load(t, i, b)
        BY <1>2 DEF BeginUpdate
  <2>2. t \in Keyed
        BY TablesNamed
  <2>3. UpdTyped
        BY <2>1, <2>2 DEF Load, UpdTyped
  <2>4. Idles
        BY <2>1 DEF Load, ApiFrame, Idles
  <2> QED
      BY <2>3, <2>4
<1>3. CASE \E i \in DOMAIN rows["hosts"], reply \in Replies : SyncHost(i, reply)
  <2>1. PICK i, b : Load("hosts", i, b)
        BY <1>3 DEF SyncHost
  <2>2. UpdTyped
        BY <2>1, TablesNamed DEF Load, UpdTyped
  <2>3. Idles
        BY <2>1 DEF Load, ApiFrame, Idles
  <2> QED
      BY <2>2, <2>3
<1>4. CASE FinishUpdate
      BY <1>4, FinishEdits
<1>5. CASE \E t \in DOMAIN Creates : \E i \in DOMAIN rows[t] : Delete(t, i)
  <2>1. PICK t \in DOMAIN Creates : \E i \in DOMAIN rows[t] : Remove(t, {i})
        BY <1>5 DEF Delete
  <2>2. PICK i \in DOMAIN rows[t] : Remove(t, {i})
        BY <2>1
  <2>3. t \in Keyed /\ {i} \in SUBSET DOMAIN rows[t]
        BY TablesNamed
  <2> QED
      BY <2>2, <2>3, RemoveEdits
<1>6. CASE ResetQueryLog
  <2>1. "query_log" \in Keyed
        BY TablesNamed
  <2> QED
      BY <1>6, <2>1, RemoveEdits DEF ResetQueryLog
<1>7. CASE \E b \in Puts : UpdateSettings(b)
  <2>1. PICK b \in Puts : UpdateSettings(b)
        BY <1>7
  <2> DEFINE f == [k \in DOMAIN b |-> [value |-> serialize(k, b[k])]]
  <2>2. DOMAIN f # {} /\ Stored("app_settings", Merge(f, rows["app_settings"]))
        BY <2>1 DEF UpdateSettings
  <2>3. Claim("app_settings") /\ UNCHANGED <<upd, emptied>> /\ ApiFrame
        BY <2>1 DEF UpdateSettings
  <2> HIDE DEF f
  <2> QED
      BY <1>7, <2>2, <2>3, SettingsEdits
<1>8. CASE RequestFlush
  <2> DEFINE f == [cache_flush_requested_at |-> [value |-> Word("time")]]
  <2>1. DOMAIN f # {} /\ Stored("app_settings", Merge(f, rows["app_settings"]))
        BY <1>8 DEF RequestFlush
  <2>2. Claim("app_settings") /\ UNCHANGED <<upd, emptied>> /\ ApiFrame
        BY <1>8 DEF RequestFlush
  <2> HIDE DEF f
  <2> QED
      BY <1>8, <2>1, <2>2, SettingsEdits
<1>9. CASE \E c \in check_client \ {"*"}, b \in Modes : SetClientMode(c, b)
  <2>1. PICK c, b : SetClientMode(c, b)
        BY <1>9
  <2> QED
      BY <2>1, ModeEdits, TablesNamed
<1> QED
    BY <1>1, <1>2, <1>3, <1>4, <1>5, <1>6, <1>7, <1>8, <1>9 DEF Api

LEMMA DiscoverEdits ==
  ASSUME TypeInv, \E c \in check_client \ {"*"} : Discover(c)
  PROVE  Edits("policies") /\ UpdTyped
<1>1. PICK c : Discover(c)
      OBVIOUS
<1> QED
    BY <1>1, WildcardEdits DEF Discover

LEMMA FlushEdits ==
  ASSUME TypeInv, FlushQueryLog
  PROVE  (Idles \/ Edits("query_log")) /\ UpdTyped
<1> DEFINE row == [question |-> "asked"]
<1>1. GoodKeys(rows["query_log"]) /\ "query_log" \in DOMAIN rows
      BY TablesNamed DEF TypeInv, Keyed
<1>2. CASE Clash("query_log", 0, row)
      BY <1>2 DEF FlushQueryLog, DnsFrame, apiVars, Idles, UpdTyped, TypeInv
<1>3. CASE ~Clash("query_log", 0, row)
  <2>1. /\ rows' = [rows EXCEPT !["query_log"] = Add(rows["query_log"], row)]
        /\ Claim("query_log")
        /\ UNCHANGED <<legacy, unusable, initVars, apiVars>>
        BY <1>3 DEF FlushQueryLog, DnsFrame, Stored
  <2>2. rows'["query_log"] = Add(rows["query_log"], row)
        BY <2>1, <1>1
  <2>3. GoodKeys(rows'["query_log"]) /\ DOMAIN rows'["query_log"] # {}
    <3>1. /\ GoodKeys(Add(rows["query_log"], row))
          /\ DOMAIN Add(rows["query_log"], row)
               = DOMAIN rows["query_log"] \cup {NextId(rows["query_log"])}
          BY <1>1, AddKeys
    <3> QED
        BY <3>1, <2>2
  <2> QED
      BY <2>1, <2>2, <2>3 DEF apiVars, Edits, UpdTyped, TypeInv
<1> QED
    BY <1>2, <1>3

-----------------------------------------------------------------------------
(* The invariant of the move.  initdb has dealt with the tables before its *)
(* position; a table it has not dealt with, and that nobody else wrote to, *)
(* is empty; one that was copied is empty only if somebody emptied it.     *)
CopyInv ==
  /\ ipc \in {"copy", "insert", "rename"} => file = "present"
  /\ ipc \in {"copy", "insert"} => \A k \in 1..(next - 1) :
       k \in DOMAIN TableOrder => TableOrder[k] \in Settled
  /\ ipc = "insert" => /\ next \in DOMAIN TableOrder
                       /\ DOMAIN legacy[TableOrder[next]] # {}
                       /\ TableOrder[next] \notin copied \ emptied
  /\ ipc \in {"rename", "columns", "alter", "backfill", "seed", "plant", "done"}
       => Settled = Tables
  /\ ipc \in {"create", "rename", "columns", "alter", "backfill"} => next = 1
  /\ ipc = "seed" => next \in 1..3
  /\ ipc = "plant" => next \in 1..2
  /\ \A t \in Tables \ Settled : DOMAIN rows[t] = {}
  /\ file = "present" => \A t \in copied \ emptied : DOMAIN rows[t] # {}

MoveInv == TypeInv /\ CopyInv

LEMMA SettledTyped ==
  ASSUME TypeInv
  PROVE  Settled \subseteq Tables
BY DEF TypeInv, Settled, Tables

LEMMA OrderTyped ==
  /\ Len(TableOrder) \in Nat /\ DOMAIN TableOrder = 1..Len(TableOrder)
  /\ \A k \in DOMAIN TableOrder : TableOrder[k] \in Split
  /\ \A t \in Split : \E k \in DOMAIN TableOrder : TableOrder[k] = t
<1>1. TableOrder \in Seq(STRING)
      BY StoreAssumption
<1> QED
    BY <1>1 DEF Split, Range

(* What a write does to the tables dealt with.                             *)
LEMMA EditsSettle ==
  ASSUME MoveInv, NEW t \in Tables, Edits(t)
  PROVE  Settled' = Settled \cup {t}
<1>1. file = "absent" => Settled = Tables /\ Settled' = Tables
      BY DEF Edits, initVars, Settled
<1>2. CASE file # "absent" /\ t \in copied
      BY <1>2 DEF Edits, Claim, initVars, Settled
<1>3. CASE file # "absent" /\ t \notin copied
      BY <1>3 DEF Edits, Claim, initVars, Settled
<1> QED
    BY <1>1, <1>2, <1>3

LEMMA EditsKeepType ==
  ASSUME TypeInv, NEW t \in Tables, Edits(t), UpdTyped
  PROVE  TypeInv'
<1>1. DOMAIN rows' = Tables /\ \A u \in Tables \ {t} : rows'[u] = rows[u]
      BY DEF Edits, TypeInv
<1>2. claimed' \subseteq Tables
      BY DEF Edits, Claim, TypeInv
<1>3. \A u \in Keyed : GoodKeys(rows'[u]) /\ GoodKeys(legacy'[u])
  <2> TAKE u \in Keyed
  <2>1. u = t => GoodKeys(rows'[u])
        BY DEF Edits
  <2>2. u # t => rows'[u] = rows[u]
        BY <1>1 DEF Keyed
  <2>3. GoodKeys(rows[u]) /\ GoodKeys(legacy[u]) /\ legacy' = legacy
        BY DEF TypeInv, Edits
  <2> QED
      BY <2>1, <2>2, <2>3
<1>4. Keyed' = Keyed /\ Tables' = Tables
      BY DEF Keyed, Tables, Split
<1> QED
    BY <1>1, <1>2, <1>3 DEF Edits, initVars, UpdTyped, TypeInv

LEMMA EditsKeepCopy ==
  ASSUME MoveInv, NEW t \in Tables, Edits(t)
  PROVE  CopyInv'
<1>1. Settled' = Settled \cup {t} /\ Settled \subseteq Tables
      BY EditsSettle, SettledTyped DEF MoveInv
<1>2. /\ UNCHANGED <<legacy, file, ipc, next, copied>>
      /\ emptied \subseteq emptied'
      BY DEF Edits, initVars
<1>3. \A u \in Tables \ {t} : rows'[u] = rows[u]
      BY DEF Edits, MoveInv, TypeInv
<1>4. \A u \in Tables \ Settled' : DOMAIN rows'[u] = {}
      BY <1>1, <1>3 DEF MoveInv, CopyInv
<1>5. file' = "present" => \A u \in copied' \ emptied' : DOMAIN rows'[u] # {}
  <2> SUFFICES ASSUME file = "present", NEW u \in copied \ emptied'
               PROVE  DOMAIN rows'[u] # {}
      BY <1>2
  <2>1. u = t => DOMAIN rows'[u] # {}
        BY DEF Edits
  <2>2. u # t => rows'[u] = rows[u]
        BY <1>3 DEF MoveInv, TypeInv
  <2>3. DOMAIN rows[u] # {}
        BY <1>2 DEF MoveInv, CopyInv
  <2> QED
      BY <2>1, <2>2, <2>3
<1>6. ipc' \in {"copy", "insert"} => \A k \in 1..(next' - 1) :
        k \in DOMAIN TableOrder => TableOrder[k] \in Settled'
      BY <1>1, <1>2 DEF MoveInv, CopyInv
<1>7. ipc' \in {"rename", "columns", "alter", "backfill", "seed", "plant", "done"}
        => Settled' = Tables
      BY <1>1, <1>2 DEF MoveInv, CopyInv
<1>8. ipc' = "insert" => /\ next' \in DOMAIN TableOrder
                         /\ DOMAIN legacy'[TableOrder[next']] # {}
                         /\ TableOrder[next'] \notin copied' \ emptied'
      BY <1>2 DEF MoveInv, CopyInv
<1>9. Tables' = Tables
      BY DEF Tables, Split
<1> QED
    BY <1>2, <1>4, <1>5, <1>6, <1>7, <1>8 DEF MoveInv, CopyInv

LEMMA IdlesKeep ==
  ASSUME MoveInv, Idles, UpdTyped
  PROVE  MoveInv' /\ UNCHANGED <<rows, legacy, file, Settled>>
<1>1. UNCHANGED <<rows, legacy, file, Settled>>
      BY DEF Idles, initVars, Settled
<1>2. TypeInv'
      BY DEF Idles, initVars, MoveInv, TypeInv, UpdTyped
<1>3. CopyInv'
      BY <1>1 DEF Idles, initVars, MoveInv, CopyInv
<1> QED
    BY <1>1, <1>2, <1>3 DEF MoveInv

-----------------------------------------------------------------------------
(* The steps of initdb.  Most of them leave the tables alone.              *)
Mapped == Migration!Next \/ UNCHANGED <<rows, legacy, file, Settled>>

LEMMA PlacesKeep ==
  ASSUME MoveInv,
         UNCHANGED <<rows, legacy, unusable, file, copied, claimed, emptied>>,
         upd' # NoUpdate => upd'.table \in Keyed,
         NEW p, ipc' = p, NEW n \in Nat \ {0}, next' = n,
         p \in {"create", "columns", "alter", "backfill", "seed", "plant", "done", "failed"},
         p \notin {"create", "failed"} => Settled = Tables,
         p \in {"create", "columns", "alter", "backfill"} => n = 1,
         p = "seed" => n \in 1..3,
         p = "plant" => n \in 1..2
  PROVE  MoveInv' /\ UNCHANGED <<rows, legacy, file, Settled>>
<1>1. UNCHANGED <<rows, legacy, file, Settled>>
      BY DEF Settled
<1>2. TypeInv'
      BY DEF MoveInv, TypeInv
<1>3. CopyInv'
      BY <1>1 DEF MoveInv, CopyInv
<1> QED
    BY <1>1, <1>2, <1>3 DEF MoveInv

LEMMA CreateAllMoves ==
  ASSUME MoveInv, CreateAll
  PROVE  MoveInv' /\ Mapped
<1>1. next = 1 /\ next' = 1
      BY DEF MoveInv, CopyInv, CreateAll
<1>2. UNCHANGED <<rows, legacy, unusable, file, copied, claimed, emptied, upd>>
      BY DEF CreateAll, InitFrame, apiVars
<1>3. UNCHANGED Settled
      BY <1>2 DEF Settled
<1>4. TypeInv'
      BY <1>1, <1>2 DEF MoveInv, TypeInv, CreateAll
<1>5. CASE file = "present"
  <2>1. ipc' = "copy"
        BY <1>5 DEF CreateAll
  <2>2. CopyInv'
        BY <1>1, <1>2, <1>3, <1>5, <2>1 DEF MoveInv, CopyInv
  <2> QED
      BY <1>2, <1>3, <1>4, <2>2 DEF MoveInv, Mapped
<1>6. CASE file = "absent"
  <2>1. ipc' = "columns" /\ Settled = Tables
        BY <1>6 DEF CreateAll, Settled
  <2>2. CopyInv'
        BY <1>1, <1>2, <1>3, <2>1 DEF MoveInv, CopyInv
  <2> QED
      BY <1>2, <1>3, <1>4, <2>2 DEF MoveInv, Mapped
<1> QED
    BY <1>5, <1>6 DEF MoveInv, TypeInv

LEMMA CountTargetMoves ==
  ASSUME MoveInv, CountTarget
  PROVE  MoveInv' /\ Mapped
<1>1. UNCHANGED <<rows, legacy, unusable, file, copied, claimed, emptied, upd>>
      BY DEF CountTarget, InitFrame, apiVars
<1>2. UNCHANGED Settled
      BY <1>1 DEF Settled
<1>3. /\ file = "present"
      /\ \A k \in 1..(next - 1) : k \in DOMAIN TableOrder => TableOrder[k] \in Settled
      /\ next \in Nat \ {0}
      BY DEF CountTarget, MoveInv, CopyInv, TypeInv
<1>4. ASSUME NEW m \in Int, NEW k \in DOMAIN TableOrder, NoOldRows(next, m), k >= next, k <= m
      PROVE  TableOrder[k] \in Settled
  <2>0. k \in next..m
        BY <1>3, <1>4, OrderTyped
  <2>1. DOMAIN legacy[TableOrder[k]] = {}
        BY <2>0, <1>4 DEF NoOldRows
  <2>2. TableOrder[k] \in Split
        BY OrderTyped
  <2> QED
      BY <2>1, <2>2, <1>3 DEF Settled
<1>5. ASSUME NEW m \in Int, NEW k \in DOMAIN TableOrder, NoOldRows(next, m), k <= m
      PROVE  TableOrder[k] \in Settled
  <2>1. k \in Nat \ {0}
        BY OrderTyped
  <2>2. CASE k < next
    <3>1. k \in 1..(next - 1)
          BY <2>1, <2>2, <1>3
    <3> QED
        BY <3>1, <1>3
  <2>3. CASE k >= next
        BY <2>3, <1>4, <1>5
  <2> QED
      BY <2>1, <2>2, <2>3, <1>3
<1>6. CASE NoOldRows(next, Len(TableOrder)) /\ ipc' = "rename" /\ next' = 1
  <2>1. \A k \in DOMAIN TableOrder : TableOrder[k] \in Settled
        BY <1>5, <1>6, OrderTyped
  <2>2. Split \subseteq Settled
        BY <2>1, OrderTyped
  <2>3. Settled = Tables
        BY <2>2, <1>3, SettledTyped DEF Settled, Tables, MoveInv
  <2>4. TypeInv'
        BY <1>1, <1>6 DEF MoveInv, TypeInv
  <2>5. CopyInv'
        BY <1>1, <1>2, <1>3, <1>6, <2>3 DEF MoveInv, CopyInv
  <2> QED
      BY <1>1, <1>2, <2>4, <2>5 DEF MoveInv, Mapped
<1>7. CASE \E n \in next..Len(TableOrder) :
             /\ IsNext(n)
             /\ IF DOMAIN rows[TableOrder[n]] # {} \/ TableOrder[n] \in unusable
                THEN ipc' = "copy" /\ next' = n + 1
                ELSE ipc' = "insert" /\ next' = n
  <2>1. PICK n \in next..Len(TableOrder) :
             /\ IsNext(n)
             /\ IF DOMAIN rows[TableOrder[n]] # {} \/ TableOrder[n] \in unusable
                THEN ipc' = "copy" /\ next' = n + 1
                ELSE ipc' = "insert" /\ next' = n
        BY <1>7
  <2>2. n \in Nat \ {0} /\ n \in DOMAIN TableOrder /\ TableOrder[n] \in Split
        BY <1>3, OrderTyped
  <2>3. \A k \in DOMAIN TableOrder : k <= n - 1 => TableOrder[k] \in Settled
        BY <2>1, <2>2, <1>5 DEF IsNext
  <2>4. CASE DOMAIN rows[TableOrder[n]] # {} \/ TableOrder[n] \in unusable
    <3>1. TableOrder[n] \in Settled
          BY <2>2, <2>4, <1>3 DEF MoveInv, CopyInv, Settled, Tables
    <3>2. ipc' = "copy" /\ next' = n + 1
          BY <2>1, <2>4
    <3>3. \A k \in 1..(next' - 1) : k \in DOMAIN TableOrder => TableOrder[k] \in Settled'
          BY <3>1, <3>2, <2>2, <2>3, <1>2
    <3>4. TypeInv'
      <4>1. next' \in Nat \ {0}
            BY <2>2, <3>2
      <4> QED
          BY <1>1, <3>2, <4>1 DEF MoveInv, TypeInv
    <3>5. CopyInv'
          BY <1>1, <1>2, <1>3, <3>2, <3>3 DEF MoveInv, CopyInv
    <3> QED
        BY <1>1, <1>2, <3>4, <3>5 DEF MoveInv, Mapped
  <2>5. CASE ~(DOMAIN rows[TableOrder[n]] # {} \/ TableOrder[n] \in unusable)
    <3>1. ipc' = "insert" /\ next' = n
          BY <2>1, <2>5
    <3>2. \A k \in 1..(next' - 1) : k \in DOMAIN TableOrder => TableOrder[k] \in Settled'
          BY <3>1, <2>2, <2>3, <1>2
    <3>3. TableOrder[n] \notin copied \ emptied
          BY <2>5, <1>3 DEF MoveInv, CopyInv
    <3>4. DOMAIN legacy[TableOrder[n]] # {}
          BY <2>1 DEF IsNext
    <3>5. TypeInv'
          BY <1>1, <2>2, <3>1 DEF MoveInv, TypeInv
    <3>6. CopyInv'
          BY <1>1, <1>2, <1>3, <2>2, <3>1, <3>2, <3>3, <3>4 DEF MoveInv, CopyInv
    <3> QED
        BY <1>1, <1>2, <3>5, <3>6 DEF MoveInv, Mapped
  <2> QED
      BY <2>4, <2>5
<1> QED
    BY <1>6, <1>7 DEF CountTarget

LEMMA InsertRowsMoves ==
  ASSUME MoveInv, InsertRows
  PROVE  MoveInv' /\ Mapped
<1> DEFINE t == TableOrder[next]
           taken == \/ DOMAIN rows[t] \cap DOMAIN legacy[t] # {}
                    \/ \E i \in DOMAIN legacy[t] : Clash(t, i, legacy[t][i])
<1>1. UNCHANGED <<legacy, unusable, file, claimed, emptied, upd>> /\ next \in Nat \ {0}
      BY DEF InsertRows, InitFrame, apiVars, MoveInv, TypeInv
<1>2. CASE taken
  <2>1. ipc' = "failed" /\ UNCHANGED <<rows, next, copied>>
        BY <1>2 DEF InsertRows
  <2>2. upd' # NoUpdate => upd'.table \in Keyed
        BY <1>1 DEF MoveInv, TypeInv
  <2> QED
      BY <1>1, <2>1, <2>2, PlacesKeep DEF Mapped
<1>3. CASE ~taken
  <2>1. /\ file = "present" /\ next \in DOMAIN TableOrder
        /\ DOMAIN legacy[t] # {}
        /\ \A k \in 1..(next - 1) : k \in DOMAIN TableOrder => TableOrder[k] \in Settled
        BY DEF InsertRows, MoveInv, CopyInv
  <2>2. t \in Split /\ t \in Tables
        BY <2>1, OrderTyped DEF Tables
  <2>3. /\ rows' = [rows EXCEPT ![t] = Merge(legacy[t], rows[t])]
        /\ copied' = copied \cup {t}
        /\ ipc' = "copy" /\ next' = next + 1
        BY <1>3 DEF InsertRows, Stored
  <2>4. DOMAIN rows = Tables /\ DOMAIN rows' = Tables
        BY <2>3 DEF MoveInv, TypeInv
  <2>5. rows'[t] = Merge(legacy[t], rows[t]) /\ \A u \in Tables \ {t} : rows'[u] = rows[u]
        BY <2>2, <2>3, <2>4
  <2>6. Settled' = Settled \cup {t}
        BY <1>1, <2>1, <2>3 DEF Settled
  <2>7. DOMAIN rows'[t] # {}
        BY <2>1, <2>5 DEF Merge
  <2>8. \A u \in Keyed : GoodKeys(rows'[u]) /\ GoodKeys(legacy'[u])
    <3> TAKE u \in Keyed
    <3>1. GoodKeys(rows[u]) /\ GoodKeys(legacy[u])
          BY DEF MoveInv, TypeInv
    <3>2. u = t => GoodKeys(rows'[u])
          BY <3>1, <2>5, MergeKeys
    <3>3. u # t => rows'[u] = rows[u]
          BY <2>5 DEF Keyed
    <3> QED
        BY <3>1, <3>2, <3>3, <1>1
  <2> HIDE DEF t
  <2>9. TypeInv'
    <3>1. copied' \subseteq Tables
          BY <2>2, <2>3 DEF MoveInv, TypeInv
    <3>2. next' \in Nat \ {0}
          BY <1>1, <2>3
    <3> QED
        BY <1>1, <2>3, <2>4, <2>8, <3>1, <3>2 DEF MoveInv, TypeInv
  <2>10. CopyInv'
    <3>1. \A u \in Tables \ Settled' : DOMAIN rows'[u] = {}
          BY <2>5, <2>6 DEF MoveInv, CopyInv
    <3>2. \A u \in copied' \ emptied' : DOMAIN rows'[u] # {}
          BY <1>1, <2>1, <2>3, <2>5, <2>7 DEF MoveInv, CopyInv, TypeInv
    <3>3. \A k \in 1..(next' - 1) : k \in DOMAIN TableOrder => TableOrder[k] \in Settled'
      <4> TAKE k \in 1..(next' - 1)
      <4>1. k = next \/ k \in 1..(next - 1)
            BY <1>1, <2>3
      <4> QED
          BY <4>1, <2>1, <2>6 DEF t
    <3>4. Tables' = Tables
          BY DEF Tables, Split
    <3> QED
        BY <1>1, <2>1, <2>3, <3>1, <3>2, <3>3 DEF CopyInv
  <2>m. Mover' # Mover
        BY <2>3 DEF InsertRows, Mover
  <2>11. Migration!TakeOver(t)
    <3>1. DOMAIN rows[t] \cap DOMAIN legacy[t] = {}
          BY <1>3 DEF t
    <3>2. Merge(legacy[t], rows[t]) =
            [k \in DOMAIN rows[t] \cup DOMAIN legacy[t] |->
               IF k \in DOMAIN rows[t] THEN rows[t][k] ELSE legacy[t][k]]
          BY <3>1 DEF Merge
    <3> QED
        BY <1>1, <2>1, <2>3, <2>6, <2>m, <3>1, <3>2 DEF Migration!TakeOver
  <2> QED
      BY <2>2, <2>9, <2>10, <2>11 DEF MoveInv, Mapped, Migration!Next
<1> QED
    BY <1>2, <1>3

LEMMA RenameLegacyMoves ==
  ASSUME MoveInv, RenameLegacy
  PROVE  MoveInv' /\ Mapped
<1>1. /\ UNCHANGED <<rows, legacy, unusable, copied, claimed, emptied, upd, next>>
      /\ ipc' = "columns" /\ file' \in {"present", "absent"}
      BY DEF RenameLegacy, InitFrame, apiVars
<1>2. file = "present" /\ Settled = Tables /\ next = 1
      BY DEF RenameLegacy, MoveInv, CopyInv
<1>3. Settled' = Tables
      BY <1>1, <1>2 DEF Settled
<1>4. TypeInv'
      BY <1>1 DEF MoveInv, TypeInv
<1>5. CopyInv'
      BY <1>1, <1>2, <1>3 DEF MoveInv, CopyInv
<1>m. Mover' # Mover
      BY <1>1 DEF RenameLegacy, Mover
<1>6. Mapped
      BY <1>1, <1>2, <1>3, <1>m DEF Mapped, Migration!Next, Migration!SetAside
<1> QED
    BY <1>4, <1>5, <1>6 DEF MoveInv

LEMMA PlainMoves ==
  ASSUME MoveInv, EnsureColumn \/ AlterFirstSeen \/ Backfill \/ LookForRows
  PROVE  MoveInv' /\ Mapped
<1>1. /\ UNCHANGED <<rows, legacy, unusable, file, copied, claimed, emptied>>
      /\ upd' # NoUpdate => upd'.table \in Keyed
  <2>1. UNCHANGED <<rows, legacy, unusable, file, copied, claimed, emptied, upd>>
        BY DEF EnsureColumn, AlterFirstSeen, Backfill, LookForRows, InitFrame, apiVars
  <2> QED
      BY <2>1 DEF MoveInv, TypeInv
<1>2. Settled = Tables /\ next \in 1..3
  <2>1. ipc \in {"columns", "alter", "backfill", "seed"}
        BY DEF EnsureColumn, AlterFirstSeen, Backfill, LookForRows
  <2>2. next = 1 \/ next \in 1..3
        BY <2>1 DEF MoveInv, CopyInv
  <2> QED
      BY <2>1, <2>2 DEF MoveInv, CopyInv
<1>3. CASE EnsureColumn
  <2>1. ipc' \in {"columns", "alter"} /\ next' = next /\ next = 1
        BY <1>3 DEF EnsureColumn, MoveInv, CopyInv
  <2> QED
      BY <1>1, <1>2, <2>1, PlacesKeep DEF Mapped
<1>4. CASE AlterFirstSeen \/ Backfill
  <2>1. ipc' \in {"backfill", "seed"} /\ next' = next /\ next = 1
        BY <1>4 DEF AlterFirstSeen, Backfill, MoveInv, CopyInv
  <2> QED
      BY <1>1, <1>2, <2>1, PlacesKeep DEF Mapped
<1>5. CASE LookForRows
  <2>1. Len(Defaults) = 2
        BY DEF Defaults
  <2>2. \/ ipc' = "done" /\ next' = next
        \/ ipc' = "seed" /\ next' = next + 1 /\ ~(next > 2)
        \/ ipc' = "plant" /\ next' = next /\ ~(next > 2)
        BY <1>5, <2>1 DEF LookForRows
  <2>3. /\ ipc' \in {"done", "seed", "plant"} /\ next' \in Nat \ {0}
        /\ ipc' = "seed" => next' \in 1..3
        /\ ipc' = "plant" => next' \in 1..2
        BY <1>2, <2>2
  <2> QED
      BY <1>1, <1>2, <2>3, PlacesKeep DEF Mapped
<1> QED
    BY <1>3, <1>4, <1>5

LEMMA PlantDefaultMoves ==
  ASSUME MoveInv, PlantDefault
  PROVE  MoveInv' /\ Mapped
<1> DEFINE d == Defaults[next]
<1>1. /\ UNCHANGED <<legacy, unusable, file, copied, claimed, emptied, upd>>
      /\ next \in 1..2 /\ Settled = Tables
      /\ upd' # NoUpdate => upd'.table \in Keyed
      BY DEF PlantDefault, InitFrame, apiVars, MoveInv, CopyInv, TypeInv
<1>2. d.table \in Keyed
      BY <1>1, TablesNamed DEF Defaults
<1> HIDE DEF d
<1>3. CASE Clash(d.table, 0, d.row)
  <2>1. ipc' = "failed" /\ UNCHANGED <<rows, next>>
        BY <1>3 DEF PlantDefault, d
  <2> QED
      BY <1>1, <2>1, PlacesKeep DEF Mapped
<1>4. CASE ~Clash(d.table, 0, d.row)
  <2> DEFINE t == d.table
             k == NextId(rows[t])
  <2>1. /\ rows' = [rows EXCEPT ![t] = Add(rows[t], d.row)]
        /\ ipc' = "seed" /\ next' = next + 1
        BY <1>4 DEF PlantDefault, Stored, d
  <2>2. t \in DOMAIN rows /\ t \in Tables /\ GoodKeys(rows[t])
        BY <1>2 DEF MoveInv, TypeInv, Keyed
  <2> HIDE DEF t
  <2>3. rows'[t] = Add(rows[t], d.row) /\ \A u \in Tables \ {t} : rows'[u] = rows[u]
        BY <2>1, <2>2 DEF MoveInv, TypeInv
  <2>4. /\ GoodKeys(rows'[t]) /\ DOMAIN rows'[t] = DOMAIN rows[t] \cup {k}
        /\ k \notin DOMAIN rows[t]
        BY <2>2, <2>3, AddKeys, NextIdIsNew
  <2>5. Settled' = Settled
        BY <1>1 DEF Settled
  <2>6. TypeInv'
    <3>1. \A u \in Keyed : GoodKeys(rows'[u]) /\ GoodKeys(legacy'[u])
          BY <1>1, <2>3, <2>4 DEF MoveInv, TypeInv, Keyed
    <3>2. next' \in Nat \ {0} /\ DOMAIN rows' = Tables
          BY <1>1, <2>1 DEF MoveInv, TypeInv
    <3> QED
        BY <1>1, <2>1, <3>1, <3>2 DEF MoveInv, TypeInv
  <2>7. CopyInv'
    <3>1. next' \in 1..3
          BY <1>1, <2>1
    <3>2. \A u \in Tables \ Settled' : DOMAIN rows'[u] = {}
          BY <1>1, <2>5
    <3>3. file = "present" => \A u \in copied \ emptied : DOMAIN rows'[u] # {}
          BY <2>3, <2>4 DEF MoveInv, CopyInv, TypeInv
    <3> QED
        BY <1>1, <2>1, <2>5, <3>1, <3>2, <3>3 DEF MoveInv, CopyInv, Tables, Split
  <2>m. Mover' # Mover
        BY <2>1 DEF PlantDefault, Mover
  <2>8. Migration!Plant(t)
    <3>1. k \in DOMAIN rows'[t] \ DOMAIN rows[t]
          BY <2>4
    <3>2. rows'[t] = [j \in DOMAIN rows[t] \cup {k} |->
                        IF j = k THEN rows'[t][k] ELSE rows[t][j]]
      <4>1. Add(rows[t], d.row) = [j \in DOMAIN rows[t] \cup {k} |->
                IF j \in DOMAIN rows[t] THEN rows[t][j] ELSE d.row]
            BY DEF Add, Merge
      <4> QED
          BY <4>1, <2>3, <2>4
    <3>3. rows' = [rows EXCEPT ![t] = rows'[t]]
          BY <2>1, <2>3
    <3>4. rows' = [rows EXCEPT ![t] = [j \in DOMAIN rows[t] \cup {k} |->
                        IF j = k THEN rows'[t][k] ELSE rows[t][j]]]
          BY <3>2, <3>3
    <3>5. t \in Settled /\ UNCHANGED <<legacy, file, Settled>>
          BY <1>1, <2>2, <2>5
    <3> HIDE DEF k
    <3> QED
        BY <2>m, <3>1, <3>4, <3>5 DEF Migration!Plant
  <2> QED
      BY <2>2, <2>6, <2>7, <2>8 DEF MoveInv, Mapped, Migration!Next
<1> QED
    BY <1>3, <1>4

LEMMA StopsMove ==
  ASSUME MoveInv, InitDbFails \/ Restart
  PROVE  MoveInv' /\ Mapped
<1>1. /\ UNCHANGED <<rows, legacy, unusable, file, copied, claimed, emptied>>
      /\ upd' = upd \/ upd' = NoUpdate
      /\ \/ ipc' = "failed" /\ next' = next
         \/ ipc' = "create" /\ next' = 1
      BY DEF InitDbFails, Restart, InitFrame, apiVars
<1>2. /\ upd' # NoUpdate => upd'.table \in Keyed
      /\ next \in Nat \ {0}
      BY <1>1 DEF MoveInv, TypeInv
<1> QED
    BY <1>1, <1>2, PlacesKeep DEF Mapped

LEMMA EditsMove ==
  ASSUME MoveInv, NEW t \in Tables, Edits(t), UpdTyped
  PROVE  MoveInv' /\ Mapped
<1>1. MoveInv'
      BY EditsKeepType, EditsKeepCopy DEF MoveInv
<1>2. Settled' = Settled \cup {t}
      BY EditsSettle
<1>3. UNCHANGED <<legacy, file, Mover>> /\ rows' = [rows EXCEPT ![t] = rows'[t]]
      BY DEF Edits, initVars, Mover
<1>4. CASE rows'[t] # rows[t]
  <2>1. Migration!Write(t)
        BY <1>2, <1>3, <1>4 DEF Migration!Write
  <2> QED
      BY <1>1, <2>1 DEF Mapped, Migration!Next
<1>5. CASE rows'[t] = rows[t]
  <2>1. DOMAIN rows[t] # {}
        BY <1>5 DEF Edits
  <2>2. t \in Settled
        BY <2>1 DEF MoveInv, CopyInv
  <2>3. rows' = [rows EXCEPT ![t] = rows[t]]
        BY <1>3, <1>5
  <2>4. rows = [u \in Tables |-> rows[u]]
        BY DEF MoveInv, TypeInv
  <2>5. rows' = rows
        BY <2>3, <2>4
  <2> QED
      BY <1>1, <1>2, <1>3, <2>2, <2>5 DEF Mapped
<1> QED
    BY <1>1, <1>4, <1>5

-----------------------------------------------------------------------------
LEMMA InitMoves == Init => MoveInv /\ Migration!Init
<1> SUFFICES ASSUME Init PROVE MoveInv /\ Migration!Init
    OBVIOUS
<1>1. DOMAIN legacy = Tables /\ \A t \in Keyed : GoodKeys(legacy[t])
  <2>1. CASE legacy \in LegacyFiles
        BY <2>1, StoreAssumption DEF GoodKeys, Keyed
  <2>2. CASE legacy = [t \in Tables |-> <<>>]
    <3>1. \A t \in Tables : DOMAIN legacy[t] = {}
          BY <2>2
    <3> QED
        BY <2>2, <3>1, FS_EmptySet DEF GoodKeys, Keyed
  <2> QED
      BY <2>1, <2>2 DEF Init
<1>2. /\ rows = [t \in Tables |-> IF t = "hosts" THEN <<Host.default>> ELSE <<>>]
      /\ "hosts" \in Tables
      BY DEF Init, Tables
<1>3. \A t \in Tables \ {"hosts"} : DOMAIN rows[t] = {}
      BY <1>2
<1>4. DOMAIN rows["hosts"] = {1}
      BY <1>2
<1>5. \A t \in Keyed : GoodKeys(rows[t])
  <2>1. IsFiniteSet({1}) /\ IsFiniteSet({})
        BY FS_Singleton, FS_EmptySet
  <2> QED
      BY <1>3, <1>4, <2>1 DEF GoodKeys, Keyed
<1>6. unusable \subseteq Tables
      BY TablesNamed DEF Init, Keyed
<1>7. TypeInv
  <2>1. rows = [t \in Tables |-> rows[t]] /\ DOMAIN rows = Tables
        BY <1>2
  <2> QED
      BY <1>1, <1>5, <1>6, <2>1 DEF Init, TypeInv
<1>8. CopyInv
  <2>1. "hosts" \in Settled
        BY StoreAssumption DEF Settled, Tables
  <2> QED
      BY <1>3, <2>1 DEF Init, CopyInv
<1>9. Migration!Init
      BY <1>7, SettledTyped DEF Migration!Init, TypeInv
<1> QED
    BY <1>7, <1>8, <1>9 DEF MoveInv

LEMMA NextMoves == MoveInv /\ [Next]_vars => MoveInv' /\ Mapped
<1> SUFFICES ASSUME MoveInv, [Next]_vars PROVE MoveInv' /\ Mapped
    OBVIOUS
<1>0. TypeInv
      BY DEF MoveInv
<1>1. CASE InitDb
      BY <1>1, CreateAllMoves, CountTargetMoves, InsertRowsMoves, RenameLegacyMoves,
         PlainMoves, PlantDefaultMoves DEF InitDb
<1>2. CASE InitDbFails \/ Restart
      BY <1>2, StopsMove
<1>3. CASE Api
  <2>1. UpdTyped /\ (Idles \/ \E t \in Tables : Edits(t))
        BY <1>0, <1>3, ApiEdits, TablesNamed DEF Keyed
  <2> QED
      BY <2>1, EditsMove, IdlesKeep DEF Mapped
<1>4. CASE FlushQueryLog
  <2>1. "query_log" \in Tables
        BY TablesNamed DEF Keyed
  <2> QED
      BY <1>0, <1>4, <2>1, FlushEdits, EditsMove, IdlesKeep DEF Mapped
<1>5. CASE BuildState \/ Reload \/ UNCHANGED vars
  <2>1. Idles /\ upd' = upd
        BY <1>5 DEF BuildState, Reload, DnsFrame, vars, apiVars, Idles
  <2>2. UpdTyped
        BY <1>0, <2>1 DEF UpdTyped, TypeInv
  <2> QED
      BY <2>1, <2>2, IdlesKeep DEF Mapped
<1>6. CASE \E c \in check_client \ {"*"} : Discover(c)
  <2>1. "policies" \in Tables
        BY TablesNamed DEF Keyed
  <2> QED
      BY <1>0, <1>6, <2>1, DiscoverEdits, EditsMove DEF Mapped
<1> QED
    BY <1>1, <1>2, <1>3, <1>4, <1>5, <1>6 DEF Next, Dns

(* The move keeps its invariant: initdb has dealt with every table before  *)
(* its position in _migrate_legacy_database's loop, and with all of them   *)
(* once it is past the loop, whoever else writes meanwhile.                *)
THEOREM MoveInvariant == Spec => []MoveInv
<1>1. Init => MoveInv
      BY InitMoves
<1>2. MoveInv /\ [Next]_vars => MoveInv'
      BY NextMoves
<1> QED
    BY <1>1, <1>2, PTL DEF Spec

(* init_db implements LegacyMigration: for any old database and any number *)
(* of requests, restarts and failures, initdb changes the tables only by   *)
(* copying the old rows of one, all of them and never over a row that is   *)
(* there, or by adding a default where no old rows are still to come; and  *)
(* mirenai.db is set aside only when no table waits for its rows.          *)
THEOREM MigrationTheorem == Spec => MigrationPromise
<1>1. Init => Migration!Init
      BY InitMoves
<1>2. MoveInv /\ [Next]_vars => [Migration!Next]_(Migration!vars)
  <2> SUFFICES ASSUME MoveInv, [Next]_vars PROVE [Migration!Next]_(Migration!vars)
      OBVIOUS
  <2>1. Mapped
        BY NextMoves
  <2>2. CASE UNCHANGED <<rows, legacy, file, Settled>>
        BY <2>2 DEF Migration!Next, Migration!Move, Migration!vars
  <2> QED
      BY <2>1, <2>2 DEF Mapped
<1> QED
    BY <1>1, <1>2, MoveInvariant, PTL DEF Spec, MigrationPromise, Migration!Spec

(* A row that was copied and then deleted stays deleted, unless its whole  *)
(* table was emptied.                                                      *)
THEOREM DeletedTheorem == Spec => DeletedStaysDeleted
<1>1. MoveInv /\ [Next]_vars
        => [\A t \in copied \ emptied : InsertRows => rows'[t] = rows[t]]_vars
  <2> SUFFICES ASSUME MoveInv, NEW t \in copied \ emptied, InsertRows
               PROVE  rows'[t] = rows[t]
      OBVIOUS
  <2>1. ipc = "insert" /\ t # TableOrder[next]
        BY DEF InsertRows, MoveInv, CopyInv
  <2>2. t \in DOMAIN rows
        BY DEF MoveInv, TypeInv
  <2> QED
      BY <2>1, <2>2 DEF InsertRows, Stored
<1> QED
    BY <1>1, MoveInvariant, PTL DEF Spec, DeletedStaysDeleted

-----------------------------------------------------------------------------
(* blocklist_domains.first_seen: initdb is between ALTER TABLE and the     *)
(* UPDATE, or something cut it off there, as long as the column is empty.  *)
FirstSeenInv ==
  /\ first_seen \in {"absent", "null", "filled"}
  /\ ipc = "backfill" => first_seen = "null"
  /\ first_seen = "null" => (ipc = "backfill" \/ cut)
  /\ ipc \in {"seed", "plant", "done"} => first_seen # "absent"

LEMMA FirstSeenStep == FirstSeenInv /\ [Next]_vars => FirstSeenInv'
<1> SUFFICES ASSUME FirstSeenInv, [Next]_vars PROVE FirstSeenInv'
    OBVIOUS
<1>1. CASE InitDb
  <2>1. CASE \/ CreateAll \/ CountTarget \/ InsertRows \/ RenameLegacy \/ EnsureColumn
             \/ LookForRows \/ PlantDefault
    <3>1. UNCHANGED <<first_seen, cut>> /\ ipc # "backfill" /\ ipc' # "backfill"
          BY <2>1 DEF CreateAll, CountTarget, InsertRows, RenameLegacy, EnsureColumn,
                      LookForRows, PlantDefault
    <3>2. ipc' \in {"seed", "plant", "done"} => ipc \in {"seed", "plant"}
          BY <2>1 DEF CreateAll, CountTarget, InsertRows, RenameLegacy, EnsureColumn,
                      LookForRows, PlantDefault
    <3> QED
        BY <3>1, <3>2 DEF FirstSeenInv
  <2>2. CASE AlterFirstSeen \/ Backfill
        BY <2>2 DEF AlterFirstSeen, Backfill, FirstSeenInv
  <2> QED
      BY <1>1, <2>1, <2>2 DEF InitDb
<1>2. CASE InitDbFails \/ Restart
      BY <1>2 DEF InitDbFails, Restart, FirstSeenInv
<1>3. CASE Api \/ Dns \/ UNCHANGED vars
  <2>1. UNCHANGED initVars
        BY <1>3 DEF Api, Create, BeginUpdate, SyncHost, Load, FinishUpdate, SetClientMode,
             Delete, ResetQueryLog, Remove, UpdateSettings, RequestFlush, ApiFrame, Dns,
             DnsFrame, BuildState, Reload, Discover, FlushQueryLog, vars
  <2> QED
      BY <2>1 DEF initVars, FirstSeenInv
<1> QED
    BY <1>1, <1>2, <1>3 DEF Next

(* A finished initdb leaves no blocklist domain without its first_seen,    *)
(* unless a stop or a failure cut the backfill off.                        *)
THEOREM FirstSeenTheorem == Spec => []FirstSeenFilled
<1>1. Init => FirstSeenInv
      BY DEF Init, FirstSeenInv
<1>2. FirstSeenInv => FirstSeenFilled
      BY DEF FirstSeenInv, FirstSeenFilled
<1> QED
    BY <1>1, <1>2, FirstSeenStep, PTL DEF Spec

-----------------------------------------------------------------------------
(* Runtime settings.  A value survives the way through its text, and what  *)
(* null becomes is of the key's kind, but for default_action.              *)
ReadsBack(k, v) ==
  LET w == coerce(k, serialize(k, v))
  IN  /\ v # Null => w = v
      /\ v = Null /\ k # "default_action" => w \in SettingsUpdate[k] \ {Null}

LEMMA FlagReadsBack ==
  ASSUME NEW k \in BOOL_KEYS, NEW v \in SettingsUpdate[k]
  PROVE  ReadsBack(k, v)
<1> DEFINE yes == {Digits(1), Word("true"), Word("yes"), Word("on")}
<1>1. \A raw : coerce(k, raw) = (raw \in yes)
      BY Zenon DEF coerce
<1>2. SettingsUpdate[k] = BOOLEAN \cup {Null}
      BY DEF SettingsUpdate, Optional, KNOWN_KEYS
<1>3. /\ Word("true") \in yes
      /\ (Word("false") \in yes) = FALSE /\ (Word("None") \in yes) = FALSE
      BY SMT DEF Word, Digits
<1> HIDE DEF yes
<1>4. CASE v = Null
  <2>1. serialize(k, v) = Word("None")
        BY <1>4 DEF serialize
  <2>2. coerce(k, serialize(k, v)) = FALSE
        BY <1>1, <1>3, <2>1, Zenon
  <2>3. FALSE \in SettingsUpdate[k] \ {Null}
        BY <1>2, NullAssumption, Zenon
  <2> QED
      BY <1>4, <2>2, <2>3, Zenon DEF ReadsBack
<1>5. CASE v # Null /\ v = TRUE
  <2>1. serialize(k, v) = Word("true")
        BY <1>5, Zenon DEF serialize
  <2>2. coerce(k, serialize(k, v)) = TRUE
        BY <1>1, <1>3, <2>1, Zenon
  <2> QED
      BY <1>5, <2>2, Zenon DEF ReadsBack
<1>6. CASE v # Null /\ v = FALSE
  <2>1. serialize(k, v) = Word("false")
        BY <1>6, Zenon DEF serialize
  <2>2. coerce(k, serialize(k, v)) = FALSE
        BY <1>1, <1>3, <2>1, Zenon
  <2> QED
      BY <1>6, <2>2, Zenon DEF ReadsBack
<1>7. v = Null \/ v = TRUE \/ v = FALSE
      BY <1>2
<1> QED
    BY <1>4, <1>5, <1>6, <1>7

LEMMA NumberReadsBack ==
  ASSUME NEW k \in NUM_KEYS, NEW v \in SettingsUpdate[k]
  PROVE  ReadsBack(k, v)
<1>1. k \notin BOOL_KEYS /\ k \notin STR_KEYS
      BY DEF NUM_KEYS, BOOL_KEYS, STR_KEYS
<1>2. CASE v = Null
  <2>1. coerce(k, serialize(k, v)) = RuntimeSettings[k]
    <3>1. serialize(k, v) = Word("None") /\ "digits" \notin DOMAIN Word("None")
          BY <1>2 DEF serialize, Word
    <3> QED
        BY <1>1, <3>1 DEF coerce
  <2>2. SettingsUpdate[k] = Int \cup {Null}
        BY <1>1 DEF SettingsUpdate, Optional, KNOWN_KEYS
  <2>3. RuntimeSettings[k] \in Int
        BY DEF RuntimeSettings, NUM_KEYS
  <2> QED
      BY <1>2, <2>1, <2>2, <2>3, NullAssumption DEF ReadsBack
<1>3. CASE v # Null
  <2>1. serialize(k, v) = Digits(v)
        BY <1>1, <1>3 DEF serialize
  <2>2. "digits" \in DOMAIN Digits(v) /\ Digits(v).digits = v
        BY DEF Digits
  <2> QED
      BY <1>1, <1>3, <2>1, <2>2 DEF coerce, ReadsBack
<1> QED
    BY <1>2, <1>3

LEMMA RoundTrip ==
  ASSUME NEW k \in KNOWN_KEYS, NEW v \in SettingsUpdate[k]
  PROVE  ReadsBack(k, v)
<1>1. CASE k \in STR_KEYS
  <2>1. k \notin BOOL_KEYS /\ k \notin NUM_KEYS /\ k = "default_action"
        BY <1>1 DEF STR_KEYS, NUM_KEYS, BOOL_KEYS
  <2>2. v # Null => serialize(k, v) = Word(v)
        BY <2>1 DEF serialize
  <2>3. \A w : Word(w).word = w
        BY DEF Word
  <2> QED
      BY <1>1, <2>1, <2>2, <2>3 DEF coerce, ReadsBack
<1> QED
    BY <1>1, FlagReadsBack, NumberReadsBack DEF KNOWN_KEYS

(* The table holds the text of what was put, for every key put, and beyond *)
(* that what was copied.                                                   *)
SettingsInv ==
  LET stored == rows["app_settings"]
      old == legacy["app_settings"]
  IN  /\ \A k \in DOMAIN put :
           /\ k \in KNOWN_KEYS /\ put[k] \in SettingsUpdate[k]
           /\ k \in DOMAIN stored /\ stored[k].value = serialize(k, put[k])
      /\ \A k \in KNOWN_KEYS \ DOMAIN put :
           /\ k \in DOMAIN stored <=> ("app_settings" \in copied /\ k \in DOMAIN old)
           /\ k \in DOMAIN stored => stored[k] = old[k]

LEMMA SettingsKept ==
  ASSUME SettingsInv, UNCHANGED <<rows["app_settings"], legacy["app_settings"], put>>,
         "app_settings" \in copied' <=> "app_settings" \in copied
  PROVE  SettingsInv'
BY DEF SettingsInv

LEMMA SettingsStep == MoveInv /\ SettingsInv /\ [Next]_vars => SettingsInv'
<1> SUFFICES ASSUME MoveInv, SettingsInv, [Next]_vars PROVE SettingsInv'
    OBVIOUS
<1> DEFINE s == "app_settings"
<1>0. TypeInv /\ s \in DOMAIN rows /\ s \notin Keyed /\ Keyed \subseteq DOMAIN rows
      BY TablesNamed DEF MoveInv, TypeInv, Keyed
<1>1. CASE \E t \in Keyed : Edits(t)
  <2>1. PICK t \in Keyed : Edits(t)
        BY <1>1
  <2>2. rows'[s] = rows[s]
        BY <1>0, <2>1 DEF Edits
  <2>3. UNCHANGED <<legacy, copied, put>>
        BY <2>1 DEF Edits, initVars
  <2> QED
      BY <2>2, <2>3, SettingsKept
<1>2. CASE UNCHANGED <<rows, legacy, copied, put>>
      BY <1>2, SettingsKept
<1>3. CASE Api
  <2>1. CASE Idles \/ \E t \in Keyed : Edits(t)
        BY <2>1, <1>1, <1>2 DEF Idles, initVars
  <2>2. CASE RequestFlush
    <3> DEFINE f == [cache_flush_requested_at |-> [value |-> Word("time")]]
    <3>1. rows'[s] = Merge(f, rows[s]) /\ UNCHANGED <<legacy, copied, put>>
          BY <2>2, <1>0 DEF RequestFlush, Stored, ApiFrame, initVars
    <3>2. \A k \in KNOWN_KEYS : k \notin DOMAIN f
          BY DEF KNOWN_KEYS, BOOL_KEYS, NUM_KEYS, STR_KEYS
    <3> HIDE DEF f
    <3>3. \A k \in KNOWN_KEYS : /\ k \in DOMAIN rows'[s] <=> k \in DOMAIN rows[s]
                                /\ k \in DOMAIN rows[s] => rows'[s][k] = rows[s][k]
          BY <3>1, <3>2 DEF Merge
    <3> QED
        BY <3>1, <3>3 DEF SettingsInv
  <2>3. CASE \E b \in Puts : UpdateSettings(b)
    <3>1. PICK b \in Puts : UpdateSettings(b)
          BY <2>3
    <3> DEFINE f == [k \in DOMAIN b |-> [value |-> serialize(k, b[k])]]
    <3>2. /\ rows'[s] = Merge(f, rows[s]) /\ put' = Merge(b, put)
          /\ UNCHANGED <<legacy, copied>>
          BY <3>1, <1>0 DEF UpdateSettings, Stored, ApiFrame, initVars
    <3>3. \A k \in DOMAIN b : k \in KNOWN_KEYS /\ b[k] \in SettingsUpdate[k]
          BY <3>1 DEF UpdateSettings, Validates, SettingsUpdate
    <3>4. DOMAIN f = DOMAIN b /\ \A k \in DOMAIN b : f[k].value = serialize(k, b[k])
          OBVIOUS
    <3> HIDE DEF f
    <3>5. \A k \in DOMAIN b :
             /\ k \in DOMAIN put' /\ put'[k] = b[k]
             /\ k \in DOMAIN rows'[s] /\ rows'[s][k].value = serialize(k, b[k])
          BY <3>2, <3>4 DEF Merge
    <3>6. ASSUME NEW k, k \notin DOMAIN b
          PROVE  /\ k \in DOMAIN put' <=> k \in DOMAIN put
                 /\ k \in DOMAIN put => put'[k] = put[k]
                 /\ k \in DOMAIN rows'[s] <=> k \in DOMAIN rows[s]
                 /\ k \in DOMAIN rows[s] => rows'[s][k] = rows[s][k]
          BY <3>2, <3>4, <3>6 DEF Merge
    <3>7. ASSUME NEW k \in DOMAIN put'
          PROVE  /\ k \in KNOWN_KEYS /\ put'[k] \in SettingsUpdate[k]
                 /\ k \in DOMAIN rows'[s] /\ rows'[s][k].value = serialize(k, put'[k])
      <4>1. CASE k \in DOMAIN b
            BY <4>1, <3>3, <3>5
      <4>2. CASE k \notin DOMAIN b
            BY <4>2, <3>6 DEF SettingsInv
      <4> QED
          BY <4>1, <4>2
    <3>8. ASSUME NEW k \in KNOWN_KEYS, k \notin DOMAIN put'
          PROVE  /\ k \in DOMAIN rows'[s] <=> (s \in copied' /\ k \in DOMAIN legacy'[s])
                 /\ k \in DOMAIN rows'[s] => rows'[s][k] = legacy'[s][k]
      <4>1. k \notin DOMAIN b
            BY <3>5, <3>8
      <4> QED
          BY <4>1, <3>2, <3>6, <3>8 DEF SettingsInv
    <3> QED
        BY <3>7, <3>8 DEF SettingsInv
  <2> QED
      BY <1>0, <1>3, <2>1, <2>2, <2>3, ApiEdits
<1>4. CASE InsertRows
  <2> DEFINE t == TableOrder[next]
             taken == \/ DOMAIN rows[t] \cap DOMAIN legacy[t] # {}
                      \/ \E i \in DOMAIN legacy[t] : Clash(t, i, legacy[t][i])
  <2>1. UNCHANGED <<legacy, put>>
        BY <1>4 DEF InsertRows, InitFrame, apiVars
  <2>2. CASE taken
    <3>1. UNCHANGED <<rows, copied>>
          BY <1>4, <2>2 DEF InsertRows
    <3> QED
        BY <3>1, <2>1, <1>2
  <2>3. CASE ~taken
    <3>1. /\ rows' = [rows EXCEPT ![t] = Merge(legacy[t], rows[t])]
          /\ copied' = copied \cup {t}
          BY <1>4, <2>3 DEF InsertRows, Stored
    <3>2. CASE t # s
      <4>1. rows'[s] = rows[s]
            BY <3>1, <3>2, <1>0
      <4>2. s \in copied' <=> s \in copied
            BY <3>1, <3>2
      <4> QED
          BY <4>1, <4>2, <2>1, SettingsKept
    <3>3. CASE t = s
      <4>1. rows'[s] = Merge(legacy[s], rows[s]) /\ s \in copied'
            BY <3>1, <3>3, <1>0
      <4>2. \A k \in DOMAIN legacy[s] : k \notin DOMAIN rows[s]
            BY <2>3, <3>3
      <4>3. \A k : k \in DOMAIN rows'[s] <=> (k \in DOMAIN rows[s] \/ k \in DOMAIN legacy[s])
            BY <4>1 DEF Merge
      <4>4. \A k \in DOMAIN rows[s] : rows'[s][k] = rows[s][k]
            BY <4>1, <4>2 DEF Merge
      <4>5. \A k \in DOMAIN legacy[s] : rows'[s][k] = legacy[s][k]
            BY <4>1 DEF Merge
      <4> QED
          BY <2>1, <4>1, <4>3, <4>4, <4>5 DEF SettingsInv
    <3> QED
        BY <3>2, <3>3
  <2> QED
      BY <2>2, <2>3
<1>5. CASE PlantDefault
  <2> DEFINE d == Defaults[next]
  <2>1. next \in 1..2 /\ UNCHANGED <<legacy, copied, put>>
        BY <1>5 DEF PlantDefault, InitFrame, apiVars, MoveInv, CopyInv
  <2>2. d.table # s
        BY <2>1 DEF Defaults
  <2> HIDE DEF d
  <2>3. rows' = rows \/ rows' = [rows EXCEPT ![d.table] = Add(rows[d.table], d.row)]
        BY <1>5 DEF PlantDefault, Stored, d
  <2>4. rows'[s] = rows[s]
        BY <2>2, <2>3, <1>0
  <2> QED
      BY <2>1, <2>4, SettingsKept
<1>6. CASE FlushQueryLog \/ \E c \in check_client \ {"*"} : Discover(c)
  <2>1. Idles \/ \E t \in Keyed : Edits(t)
        BY <1>0, <1>6, FlushEdits, DiscoverEdits, TablesNamed
  <2> QED
      BY <2>1, <1>1, <1>2 DEF Idles, initVars
<1>7. CASE \/ CreateAll \/ CountTarget \/ RenameLegacy \/ EnsureColumn \/ AlterFirstSeen
           \/ Backfill \/ LookForRows \/ InitDbFails
  <2>1. UNCHANGED <<rows, legacy, copied, put>>
        BY <1>7 DEF CreateAll, CountTarget, RenameLegacy, EnsureColumn, AlterFirstSeen,
             Backfill, LookForRows, InitDbFails, InitFrame, apiVars
  <2> QED
      BY <2>1, <1>2
<1>8. CASE Restart \/ BuildState \/ Reload \/ UNCHANGED vars
  <2>1. UNCHANGED <<rows, legacy, copied, put>>
        BY <1>8 DEF Restart, BuildState, Reload, DnsFrame, vars, initVars, apiVars
  <2> QED
      BY <2>1, <1>2
<1> QED
    BY <1>3, <1>4, <1>5, <1>6, <1>7, <1>8 DEF Next, InitDb, Dns

LEMMA SettingsShown == SettingsInv => SettingsEffective
<1> SUFFICES ASSUME SettingsInv, NEW k \in KNOWN_KEYS
             PROVE  LET v == load_runtime_settings[k]
                        old == legacy["app_settings"]
                    IN  IF k \in DOMAIN put
                        THEN /\ put[k] # Null => v = put[k]
                             /\ put[k] = Null /\ k # "default_action"
                                  => v \in SettingsUpdate[k] \ {Null}
                        ELSE IF "app_settings" \in copied /\ k \in DOMAIN old
                        THEN v = coerce(k, old[k].value)
                        ELSE v = RuntimeSettings[k]
    BY DEF SettingsEffective
<1>1. load_runtime_settings[k] = IF k \in DOMAIN rows["app_settings"]
                                 THEN coerce(k, rows["app_settings"][k].value)
                                 ELSE RuntimeSettings[k]
      BY DEF load_runtime_settings
<1>2. CASE k \in DOMAIN put
  <2>1. /\ k \in DOMAIN rows["app_settings"] /\ put[k] \in SettingsUpdate[k]
        /\ rows["app_settings"][k].value = serialize(k, put[k])
        BY <1>2 DEF SettingsInv
  <2>2. ReadsBack(k, put[k])
        BY <2>1, RoundTrip
  <2>3. load_runtime_settings[k] = coerce(k, serialize(k, put[k]))
        BY <1>1, <2>1
  <2> QED
      BY <1>2, <2>2, <2>3 DEF ReadsBack
<1>3. CASE k \notin DOMAIN put
      BY <1>1, <1>3 DEF SettingsInv
<1> QED
    BY <1>2, <1>3

LEMMA SettingsInit == Init => SettingsInv
<1> SUFFICES ASSUME Init PROVE SettingsInv
    OBVIOUS
<1>1. "app_settings" \in Tables /\ "app_settings" # "hosts"
      BY TablesNamed
<1>2. rows["app_settings"] = <<>> /\ put = <<>> /\ copied = {}
      BY <1>1 DEF Init
<1>3. DOMAIN rows["app_settings"] = {} /\ DOMAIN put = {}
      BY <1>2
<1> QED
    BY <1>2, <1>3 DEF SettingsInv

(* The table of settings holds what was put and what was copied.           *)
THEOREM SettingsInvariant == Spec => []SettingsInv
BY SettingsInit, MoveInvariant, SettingsStep, PTL DEF Spec

(* load_runtime_settings gives the value last put for a key, for one put   *)
(* as null a value of the documented kind (default_action excepted), for   *)
(* one never put what the old database said if its settings were copied,   *)
(* else the default - for every interleaving of requests, copies, flush    *)
(* requests, discoveries, failures and restarts.                           *)
THEOREM SettingsTheorem == Spec => []SettingsEffective
BY SettingsInvariant, SettingsShown, PTL

-----------------------------------------------------------------------------
(* Usable rows.  First, what the validators, the constraints of the tables *)
(* and their defaults make of a column that a worker needs.                *)
LEMMA NeedsNames ==
  /\ DOMAIN Needs = {"policies", "upstreams", "blocklists", "local_zones",
                     "trusted_networks", "blocklist_overrides", "hosts"}
  /\ Needs["policies"] = PolicyNeeds /\ Needs["upstreams"] = UpstreamNeeds
  /\ Needs["blocklists"] = BlocklistNeeds /\ Needs["local_zones"] = LocalZoneNeeds
  /\ Needs["trusted_networks"] = [cidr |-> {"network"}]
  /\ Needs["blocklist_overrides"] = [domain |-> {"domain"}]
  /\ Needs["hosts"] = HostNeeds
BY DEF Needs

LEMMA UpstreamNames ==
  /\ DOMAIN UpstreamNeeds = {"address", "port", "protocol", "enabled", "priority"}
  /\ Upstream.not_null = {"address", "port", "protocol", "enabled", "priority"}
  /\ DOMAIN Upstream.default = {"name", "port", "protocol", "enabled", "priority"}
  /\ Upstream.default["port"] \in UpstreamNeeds["port"]
<1>1. DOMAIN UpstreamNeeds = {"address", "port", "protocol", "enabled", "priority"}
      BY DEF UpstreamNeeds
<1>2. Upstream.not_null = {"address", "port", "protocol", "enabled", "priority"}
      BY DEF Upstream
<1>3. DOMAIN Upstream.default = {"name", "port", "protocol", "enabled", "priority"}
      BY DEF Upstream
<1>4. Upstream.default["port"] \in UpstreamNeeds["port"]
  <2>1. Upstream.default["port"] = 53
        BY DEF Upstream
  <2>2. UpstreamNeeds["port"] = 1..65535
        BY DEF UpstreamNeeds
  <2> QED
      BY <2>1, <2>2
<1> QED
    BY <1>1, <1>2, <1>3, <1>4

(* No column that a worker needs may be NULL, but for a host's name.       *)
LEMMA NeededNotNull ==
  ASSUME NEW t \in DOMAIN Needs \ {"hosts"}
  PROVE  DOMAIN Needs[t] \subseteq Schema[t].not_null
<1>1. CASE t = "policies"
      BY <1>1, NeedsNames DEF PolicyNeeds, Schema, Policy
<1>2. CASE t = "upstreams"
  <2>1. Schema[t] = Upstream /\ Needs[t] = UpstreamNeeds
        BY <1>2, NeedsNames DEF Schema
  <2> QED
      BY <2>1, UpstreamNames
<1>3. CASE t = "blocklists"
      BY <1>3, NeedsNames DEF BlocklistNeeds, Schema, Blocklist
<1>4. CASE t = "local_zones"
      BY <1>4, NeedsNames DEF LocalZoneNeeds, Schema, LocalZone
<1>5. CASE t = "trusted_networks"
      BY <1>5, NeedsNames DEF Schema, TrustedNetwork
<1>6. CASE t = "blocklist_overrides"
      BY <1>6, NeedsNames DEF Schema, BlocklistOverride
<1> QED
    BY <1>1, <1>2, <1>3, <1>4, <1>5, <1>6, NeedsNames

(* The validators of new rows accept what is needed.                       *)
Accepts(model, needs) ==
  \A c \in DOMAIN needs : c \in DOMAIN model /\ model[c] = needs[c]

LEMMA UpstreamColumns == Accepts(UpstreamCreate, UpstreamNeeds)
<1>1. DOMAIN UpstreamNeeds = {"address", "port", "protocol", "enabled", "priority"}
      BY UpstreamNames
<1>2. \A c \in DOMAIN UpstreamNeeds : c \in DOMAIN UpstreamCreate
      BY <1>1 DEF UpstreamCreate
<1>3. UpstreamNeeds.address = UpstreamCreate.address
      BY DEF UpstreamCreate, UpstreamNeeds
<1>4. UpstreamNeeds.port = UpstreamCreate.port
      BY DEF UpstreamCreate, UpstreamNeeds, check_port
<1>5. UpstreamNeeds.protocol = UpstreamCreate.protocol
      BY DEF UpstreamCreate, UpstreamNeeds
<1>6. UpstreamNeeds.enabled = UpstreamCreate.enabled
      BY DEF UpstreamCreate, UpstreamNeeds
<1>7. UpstreamNeeds.priority = UpstreamCreate.priority
      BY DEF UpstreamCreate, UpstreamNeeds
<1> QED
    BY <1>1, <1>2, <1>3, <1>4, <1>5, <1>6, <1>7 DEF Accepts

LEMMA ColumnsAccepted ==
  /\ Accepts(PolicyCreate, PolicyNeeds) /\ Accepts(BlocklistCreate, BlocklistNeeds)
  /\ Accepts(LocalZoneCreate, LocalZoneNeeds)
<1>1. Accepts(PolicyCreate, PolicyNeeds)
      BY DEF Accepts, PolicyNeeds, PolicyCreate, check_client, VALID_ACTIONS
<1>2. \A n \in Int : n >= 1 <=> n > 0
      OBVIOUS
<1>3. Accepts(BlocklistCreate, BlocklistNeeds)
      BY <1>2 DEF Accepts, BlocklistNeeds, BlocklistCreate, check_url, check_interval
<1>4. Accepts(LocalZoneCreate, LocalZoneNeeds)
      BY <1>2 DEF Accepts, LocalZoneNeeds, LocalZoneCreate, check_url, check_interval
<1> QED
    BY <1>1, <1>3, <1>4

(* Outside these tables the validators leave a value as it is.             *)
LEMMA ValidatedSame ==
  ASSUME NEW t, t \notin {"trusted_networks", "blocklist_overrides", "hosts"},
         NEW c, NEW v
  PROVE  Validated(t, c, v) = v
BY DEF Validated

LEMMA CreateFits ==
  ASSUME NEW t \in DOMAIN CreateModel, NEW c \in DOMAIN Needs[t]
  PROVE  /\ t \in DOMAIN Needs \ {"hosts"} /\ c \in DOMAIN CreateModel[t]
         /\ \A v \in CreateModel[t][c] : Validated(t, c, v) \in Needs[t][c]
<1>1. CASE t \in {"policies", "upstreams", "blocklists", "local_zones"}
  <2>1. Accepts(CreateModel[t], Needs[t])
        BY <1>1, NeedsNames, UpstreamColumns, ColumnsAccepted DEF CreateModel
  <2>2. c \in DOMAIN CreateModel[t] /\ CreateModel[t][c] = Needs[t][c]
        BY <2>1 DEF Accepts
  <2> QED
      BY <1>1, <2>2, ValidatedSame, NeedsNames
<1>2. CASE t = "trusted_networks"
      BY <1>2, NeedsNames DEF Validated, CreateModel, TrustedNetworkCreate
<1>3. CASE t = "blocklist_overrides"
      BY <1>3, NeedsNames DEF Validated, CreateModel, BlocklistOverrideCreate
<1> QED
    BY <1>1, <1>2, <1>3 DEF CreateModel

(* An update may put null to any column of its model.                      *)
LEMMA UpdateFits ==
  ASSUME NEW t \in DOMAIN UpdateModel, NEW c \in DOMAIN Needs[t] \cap DOMAIN UpdateModel[t],
         NEW v \in UpdateModel[t][c]
  PROVE  t \in DOMAIN Needs /\ Validated(t, c, v) \in Optional(Needs[t][c])
<1>1. CASE t = "policies"
  <2>1. UpdateModel[t] = PolicyUpdate /\ Needs[t] = PolicyNeeds /\ t \in DOMAIN Needs
        BY <1>1, NeedsNames DEF UpdateModel
  <2>2. v \in Optional(PolicyNeeds[c])
        BY <2>1 DEF PolicyUpdate, PolicyNeeds, Optional, check_client, VALID_ACTIONS
  <2> QED
      BY <1>1, <2>1, <2>2, ValidatedSame
<1>2. CASE t \in {"upstreams", "blocklists", "local_zones"}
  <2>1. t \in DOMAIN CreateModel /\ UpdateModel[t][c] = Optional(CreateModel[t][c])
        BY <1>2 DEF UpdateModel, CreateModel, UpstreamUpdate, BlocklistUpdate, LocalZoneUpdate
  <2>2. Validated(t, c, v) = v
        BY <1>2, ValidatedSame
  <2> QED
      BY <2>1, <2>2, <1>2, CreateFits, ValidatedSame DEF Optional
<1>3. CASE t = "hosts"
  <2>1. UpdateModel[t] = HostUpdate /\ Needs[t] = HostNeeds /\ t \in DOMAIN Needs
        BY <1>3, NeedsNames DEF UpdateModel
  <2>2. CASE c = "device_name"
        BY <1>3, <2>1, <2>2 DEF HostUpdate, HostNeeds, Optional, Validated, Text, NonBlank
  <2>3. CASE c \in {"excluded_from_blocklist", "flag_new_domains"}
    <3>1. Validated(t, c, v) = v
          BY <1>3, <2>3 DEF Validated
    <3> QED
        BY <2>1, <2>3, <3>1 DEF HostUpdate, HostNeeds, Optional
  <2> QED
      BY <2>1, <2>2, <2>3 DEF HostNeeds
<1> QED
    BY <1>1, <1>2, <1>3 DEF UpdateModel

(* The defaults of the tables.                                             *)
LEMMA DefaultFits ==
  ASSUME NEW t \in DOMAIN Needs, NEW c \in DOMAIN Needs[t] \cap DOMAIN Schema[t].default
  PROVE  Schema[t].default[c] \in Needs[t][c]
<1>1. CASE t = "policies"
  <2>1. Schema[t] = Policy /\ Needs[t] = PolicyNeeds
        BY <1>1, NeedsNames DEF Schema
  <2>2. c \in {"override_ttl", "enabled"}
        BY <2>1 DEF Policy, PolicyNeeds
  <2>3. Policy.default["override_ttl"] \in PolicyNeeds["override_ttl"]
        BY DEF Policy, PolicyNeeds
  <2>4. Policy.default["enabled"] = TRUE /\ PolicyNeeds["enabled"] = BOOLEAN
        BY DEF Policy, PolicyNeeds
  <2>5. Policy.default["enabled"] \in PolicyNeeds["enabled"]
        BY <2>4, Zenon
  <2> QED
      BY <2>1, <2>2, <2>3, <2>5
<1>2. CASE t = "upstreams"
  <2>1. Schema[t] = Upstream /\ Needs[t] = UpstreamNeeds
        BY <1>2, NeedsNames DEF Schema
  <2>2. c \in {"port", "protocol", "enabled", "priority"}
        BY <2>1, UpstreamNames
  <2>3. Upstream.default["port"] \in UpstreamNeeds["port"]
        BY UpstreamNames
  <2>4. Upstream.default["protocol"] \in UpstreamNeeds["protocol"]
        BY DEF Upstream, UpstreamNeeds
  <2>5. Upstream.default["priority"] \in UpstreamNeeds["priority"]
        BY DEF Upstream, UpstreamNeeds
  <2>6. Upstream.default["enabled"] = TRUE /\ UpstreamNeeds["enabled"] = BOOLEAN
        BY DEF Upstream, UpstreamNeeds
  <2>7. Upstream.default["enabled"] \in UpstreamNeeds["enabled"]
        BY <2>6, Zenon
  <2> QED
      BY <2>1, <2>2, <2>3, <2>4, <2>5, <2>7
<1>3. CASE t = "blocklists"
  <2>1. Schema[t] = Blocklist /\ Needs[t] = BlocklistNeeds
        BY <1>3, NeedsNames DEF Schema
  <2>2. c \in {"update_interval_hours", "enabled"}
        BY <2>1 DEF Blocklist, BlocklistNeeds
  <2>3. Blocklist.default["update_interval_hours"] \in BlocklistNeeds["update_interval_hours"]
        BY DEF Blocklist, BlocklistNeeds
  <2>4. Blocklist.default["enabled"] = TRUE /\ BlocklistNeeds["enabled"] = BOOLEAN
        BY DEF Blocklist, BlocklistNeeds
  <2>5. Blocklist.default["enabled"] \in BlocklistNeeds["enabled"]
        BY <2>4, Zenon
  <2> QED
      BY <2>1, <2>2, <2>3, <2>5
<1>4. CASE t = "local_zones"
  <2>1. Schema[t] = LocalZone /\ Needs[t] = LocalZoneNeeds
        BY <1>4, NeedsNames DEF Schema
  <2>2. c \in {"update_interval_seconds", "enabled"}
        BY <2>1 DEF LocalZone, LocalZoneNeeds
  <2>3. LocalZone.default["update_interval_seconds"] \in LocalZoneNeeds["update_interval_seconds"]
        BY DEF LocalZone, LocalZoneNeeds
  <2>4. LocalZone.default["enabled"] = TRUE /\ LocalZoneNeeds["enabled"] = BOOLEAN
        BY DEF LocalZone, LocalZoneNeeds
  <2>5. LocalZone.default["enabled"] \in LocalZoneNeeds["enabled"]
        BY <2>4, Zenon
  <2> QED
      BY <2>1, <2>2, <2>3, <2>5
<1>5. CASE t \in {"trusted_networks", "blocklist_overrides"}
      BY <1>5, NeedsNames DEF Schema, TrustedNetwork, BlocklistOverride
<1>6. CASE t = "hosts"
  <2>1. Schema[t] = Host /\ Needs[t] = HostNeeds
        BY <1>6, NeedsNames DEF Schema
  <2>2. c \in {"device_name", "excluded_from_blocklist", "flag_new_domains"}
        BY <2>1 DEF HostNeeds
  <2>3. Host.default["device_name"] \in HostNeeds["device_name"]
        BY DEF Host, HostNeeds
  <2>4. /\ Host.default["excluded_from_blocklist"] = FALSE
        /\ Host.default["flag_new_domains"] = TRUE
        /\ HostNeeds["excluded_from_blocklist"] = BOOLEAN
        /\ HostNeeds["flag_new_domains"] = BOOLEAN
        BY DEF Host, HostNeeds
  <2>5. /\ Host.default["excluded_from_blocklist"] \in HostNeeds["excluded_from_blocklist"]
        /\ Host.default["flag_new_domains"] \in HostNeeds["flag_new_domains"]
        BY <2>4, Zenon
  <2> QED
      BY <2>1, <2>2, <2>3, <2>5
<1> QED
    BY <1>1, <1>2, <1>3, <1>4, <1>5, <1>6, NeedsNames

-----------------------------------------------------------------------------
(* Whatever is stored is usable; the rows of the old database are, but for *)
(* NULLs; and what an update is about to write, after the validators, is,  *)
(* but for NULLs.                                                          *)
Usable(t, row) ==
  \A c \in DOMAIN Needs[t] : c \in DOMAIN row /\ row[c] \in Needs[t][c]

UsableOrNull(t, row) ==
  \A c \in DOMAIN Needs[t] : c \in DOMAIN row /\ row[c] \in Optional(Needs[t][c])

Distinct(f) ==
  \A i, j \in DOMAIN f : (f[i].client = f[j].client /\ f[i].domain = f[j].domain) => i = j

TableOK(t, f) ==
  /\ \A i \in DOMAIN f : Usable(t, f[i])
  /\ t = "policies" => Distinct(f)

LegacyOK ==
  /\ \A t \in DOMAIN Needs \ {"hosts"} : \A i \in DOMAIN legacy[t] :
       UsableOrNull(t, legacy[t][i])
  /\ Distinct(legacy["policies"])

UpdOK ==
  upd # NoUpdate =>
    /\ upd.table \in DOMAIN Needs
    /\ \A c \in DOMAIN upd.body \cap DOMAIN Needs[upd.table] :
         Validated(upd.table, c, upd.body[c]) \in Optional(Needs[upd.table][c])

UsableInv == (\A t \in DOMAIN Needs : TableOK(t, rows[t])) /\ LegacyOK /\ UpdOK

LEMMA NeedsTables == DOMAIN Needs \subseteq Keyed
BY NeedsNames, StoreAssumption DEF Keyed, Tables

(* A row that the constraints of its table let in.                         *)
LEMMA LetIn ==
  ASSUME NEW t \in DOMAIN Needs \ {"hosts"}, NEW row, UsableOrNull(t, row),
         \A c \in Schema[t].not_null : row[c] # Null
  PROVE  Usable(t, row)
BY NeededNotNull DEF Usable, UsableOrNull, Optional

LEMMA NoTwin ==
  ASSUME NEW id, NEW row, ~Clash("policies", id, row)
  PROVE  \A i \in DOMAIN rows["policies"] \ {id} :
           ~(rows["policies"][i].client = row.client /\ rows["policies"][i].domain = row.domain)
<1>1. Schema["policies"].unique = {"client", "domain"}
      BY DEF Schema, Policy
<1> QED
    BY <1>1 DEF Clash

LEMMA AddUsable ==
  ASSUME NEW t \in DOMAIN Needs, TableOK(t, rows[t]), GoodKeys(rows[t]),
         NEW row, Usable(t, row), ~Clash(t, 0, row)
  PROVE  TableOK(t, Add(rows[t], row))
<1> DEFINE f == rows[t]
           n == NextId(f)
           g == Add(f, row)
<1>1. DOMAIN g = DOMAIN f \cup {n} /\ n \notin DOMAIN f /\ \A k \in DOMAIN f : g[k] = f[k]
      BY AddKeys, NextIdIsNew
<1>2. g[n] = row
  <2>1. n \in {n} /\ n \notin DOMAIN f
        BY <1>1
  <2> QED
      BY <1>1 DEF Add, Merge
<1>3. \A i \in DOMAIN g : Usable(t, g[i])
      BY <1>1, <1>2 DEF TableOK
<1>4. ASSUME t = "policies" PROVE Distinct(g)
  <2>1. Distinct(f) /\ 0 \notin DOMAIN f
        BY <1>4 DEF TableOK, GoodKeys
  <2>2. \A i \in DOMAIN f : ~(f[i].client = row.client /\ f[i].domain = row.domain)
        BY <1>4, <2>1, NoTwin
  <2> HIDE DEF f, g, n
  <2> QED
      BY <1>1, <1>2, <2>1, <2>2 DEF Distinct
<1> HIDE DEF g
<1>5. TableOK(t, g)
      BY <1>3, <1>4 DEF TableOK
<1> QED
    BY <1>5 DEF g

(* A new row of a valid body.                                              *)
LEMMA NewRowUsable ==
  ASSUME NEW t \in DOMAIN CreateModel, NEW b, AcceptsCreate(t, b)
  PROVE  Usable(t, NewRow(t, b))
<1> DEFINE row == NewRow(t, b)
<1>1. DOMAIN row = DOMAIN CreateModel[t] /\ DOMAIN b \subseteq DOMAIN CreateModel[t]
      BY DEF AcceptsCreate, Validates
<1>2. DOMAIN row = DOMAIN b \cup DOMAIN Schema[t].default
      BY DEF NewRow, Merge
<1> SUFFICES ASSUME NEW c \in DOMAIN Needs[t]
             PROVE  c \in DOMAIN row /\ row[c] \in Needs[t][c]
    BY DEF Usable
<1>3. /\ t \in DOMAIN Needs \ {"hosts"} /\ c \in DOMAIN CreateModel[t]
      /\ \A v \in CreateModel[t][c] : Validated(t, c, v) \in Needs[t][c]
      BY CreateFits
<1>4. CASE c \in DOMAIN b
  <2>1. row[c] = Validated(t, c, b[c])
        BY <1>4 DEF NewRow, Merge
  <2>2. b[c] \in CreateModel[t][c]
        BY <1>4 DEF AcceptsCreate, Validates
  <2> QED
      BY <1>1, <1>3, <2>1, <2>2
<1>5. CASE c \notin DOMAIN b
  <2>1. c \in DOMAIN row /\ c \in DOMAIN Schema[t].default
        BY <1>1, <1>2, <1>3, <1>5
  <2>2. row[c] = Schema[t].default[c]
        BY <2>1, <1>2, <1>5 DEF NewRow, Merge
  <2> QED
      BY <2>1, <2>2, <1>3, DefaultFits
<1> QED
    BY <1>4, <1>5

(* A step that leaves the tables the workers read alone, or changes one of *)
(* them to usable rows.                                                    *)
LEMMA UsableSame ==
  ASSUME UsableInv, UNCHANGED legacy, UpdOK',
         \A t \in DOMAIN Needs : rows'[t] = rows[t] \/ TableOK(t, rows'[t])
  PROVE  UsableInv'
<1>1. (\A t \in DOMAIN Needs : TableOK(t, rows[t]))'
  <2> SUFFICES ASSUME NEW t \in DOMAIN Needs PROVE TableOK(t, rows'[t])
      OBVIOUS
  <2>1. TableOK(t, rows[t])
        BY DEF UsableInv
  <2>2. CASE rows'[t] = rows[t]
        BY <2>1, <2>2
  <2> QED
      BY <2>2
<1>2. LegacyOK'
      BY DEF UsableInv, LegacyOK
<1> QED
    BY <1>1, <1>2 DEF UsableInv

LEMMA UpdSame ==
  ASSUME UpdOK, upd' = upd \/ upd' = NoUpdate
  PROVE  UpdOK'
BY DEF UpdOK

LEMMA OneTable ==
  ASSUME TypeInv, UsableInv, NEW t \in Tables, NEW f, Stored(t, f), UNCHANGED legacy,
         UpdOK', t \in DOMAIN Needs => TableOK(t, f)
  PROVE  UsableInv'
<1>1. t \in DOMAIN rows /\ rows' = [rows EXCEPT ![t] = f]
      BY DEF TypeInv, Stored
<1>2. rows'[t] = f /\ \A u \in DOMAIN Needs : u # t => rows'[u] = rows[u]
      BY <1>1
<1> QED
    BY <1>2, UsableSame

LEMMA CreateUsable ==
  ASSUME TypeInv, UsableInv, NEW t \in DOMAIN Creates, NEW b, Create(t, b)
  PROVE  UsableInv'
<1>1. t \in DOMAIN CreateModel /\ t \in Keyed
      BY RequestAssumption, TablesNamed
<1>2. t \in DOMAIN Needs
      BY <1>1, NeedsNames DEF CreateModel
<1>3. /\ Stored(t, Add(rows[t], NewRow(t, b))) /\ ~Clash(t, 0, NewRow(t, b))
      /\ AcceptsCreate(t, b) /\ UNCHANGED <<upd, legacy>>
      BY DEF Create, ApiFrame
<1>4. Usable(t, NewRow(t, b))
      BY <1>1, <1>3, NewRowUsable
<1>5. TableOK(t, rows[t]) /\ GoodKeys(rows[t])
      BY <1>1, <1>2 DEF UsableInv, TypeInv
<1>6. TableOK(t, Add(rows[t], NewRow(t, b)))
      BY <1>2, <1>3, <1>4, <1>5, AddUsable
<1>7. UpdOK'
      BY <1>3, UpdSame DEF UsableInv
<1> QED
    BY <1>1, <1>3, <1>6, <1>7, OneTable DEF Keyed

(* The request that loads a row keeps a validated body, Sando's reply one  *)
(* of strings.                                                             *)
LEMMA LoadUsable ==
  ASSUME UsableInv, NEW t \in DOMAIN Needs, NEW i, NEW b, Load(t, i, b),
         \A c \in DOMAIN b \cap DOMAIN Needs[t] :
           Validated(t, c, b[c]) \in Optional(Needs[t][c])
  PROVE  UsableInv'
<1>1. upd' = [table |-> t, id |-> i, loaded |-> rows[t][i], body |-> b]
      BY DEF Load
<1>2. upd'.table = t /\ upd'.body = b
      BY <1>1
<1>3. UpdOK'
      BY <1>2 DEF UpdOK
<1> QED
    BY <1>3, UsableSame DEF Load, ApiFrame

LEMMA UpdateUsable ==
  ASSUME UsableInv, NEW t \in DOMAIN Updates, NEW i, NEW b, BeginUpdate(t, i, b)
  PROVE  UsableInv'
<1>1. t \in DOMAIN UpdateModel
      BY RequestAssumption
<1>2. t \in DOMAIN Needs
      BY <1>1, NeedsNames DEF UpdateModel
<1>3. ASSUME NEW c \in DOMAIN b \cap DOMAIN Needs[t]
      PROVE  Validated(t, c, b[c]) \in Optional(Needs[t][c])
  <2>1. c \in DOMAIN UpdateModel[t] /\ b[c] \in UpdateModel[t][c]
        BY DEF BeginUpdate, Validates
  <2> QED
      BY <1>1, <2>1, UpdateFits
<1> QED
    BY <1>2, <1>3, LoadUsable DEF BeginUpdate

LEMMA SyncUsable ==
  ASSUME UsableInv, NEW i, NEW reply \in Replies, SyncHost(i, reply)
  PROVE  UsableInv'
<1> DEFINE b == fetch_device(reply)
<1>1. "hosts" \in DOMAIN Needs /\ Needs["hosts"] = HostNeeds
      BY NeedsNames
<1>2. DOMAIN HostNeeds = {"device_name", "excluded_from_blocklist", "flag_new_domains"}
      BY DEF HostNeeds
<1>3. DOMAIN b \subseteq DOMAIN reply /\ \A f \in DOMAIN b : b[f] = clean(reply[f]) /\ b[f] # Null
      BY DEF fetch_device
<1>4. DOMAIN reply \subseteq {"device_name", "icon", "mac_address"}
      BY RequestAssumption
<1>5. ASSUME NEW c \in DOMAIN b \cap DOMAIN Needs["hosts"]
      PROVE  Validated("hosts", c, b[c]) \in Optional(Needs["hosts"][c])
  <2>1. c = "device_name"
        BY <1>1, <1>2, <1>3, <1>4
  <2>2. b[c] \in NonBlank
    <3>1. reply[c] \in Optional(Text) /\ b[c] = clean(reply[c]) /\ b[c] # Null
          BY <1>3, <2>1, RequestAssumption
    <3> QED
        BY <3>1 DEF clean, Optional, NonBlank
  <2>3. Validated("hosts", c, b[c]) = b[c]
        BY <2>1, <2>2 DEF Validated, NonBlank
  <2> QED
      BY <1>1, <2>1, <2>2, <2>3 DEF HostNeeds, Optional
<1> HIDE DEF b
<1> QED
    BY <1>1, <1>5, LoadUsable DEF SyncHost, b

(* A client's policy for all domains, added by a request or a discovery.   *)
LEMMA ClientPolicyRow ==
  \A c, action :
    /\ {"client", "action", "override_response", "override_ttl", "enabled"}
         \subseteq DOMAIN ClientPolicy(c, action)
    /\ ClientPolicy(c, action)["client"] = c
    /\ ClientPolicy(c, action)["action"] = action
    /\ ClientPolicy(c, action)["override_ttl"] = 300
    /\ ClientPolicy(c, action)["enabled"] = TRUE
BY DEF ClientPolicy, Merge, Policy

LEMMA WildcardUsable ==
  ASSUME TypeInv, UsableInv, NEW c \in check_client \ {"*"}, NEW action,
         AddWildcard(c, action), UNCHANGED <<upd, put, emptied, nulled, revised>>, ApiFrame
  PROVE  UsableInv'
<1> DEFINE t == "policies"
           row == ClientPolicy(c, action)
<1>2. ~Clash(t, 0, row) /\ Stored(t, Add(rows[t], row)) /\ UNCHANGED <<legacy, upd>>
      BY DEF AddWildcard, ApiFrame
<1>1. /\ {"client", "override_ttl", "enabled"} \subseteq DOMAIN row
      /\ row["client"] = c /\ row["override_ttl"] = 300 /\ row["enabled"] = TRUE
  <2>1. {"client", "override_ttl", "enabled"} \subseteq DOMAIN row
        BY ClientPolicyRow
  <2>2. row["client"] = c /\ row["override_ttl"] = 300 /\ row["enabled"] = TRUE
        BY ClientPolicyRow
  <2> QED
      BY <2>1, <2>2
<1> HIDE DEF row
<1>3. t \in DOMAIN Needs /\ t \in Keyed
      BY NeedsNames, TablesNamed
<1>4. Usable(t, row)
  <2>1. Needs[t] = PolicyNeeds /\ DOMAIN PolicyNeeds = {"client", "override_ttl", "enabled"}
        BY NeedsNames DEF PolicyNeeds
  <2>2. row["client"] \in PolicyNeeds["client"]
        BY <1>1 DEF PolicyNeeds, check_client
  <2>3. row["override_ttl"] \in PolicyNeeds["override_ttl"]
        BY <1>1 DEF PolicyNeeds
  <2>4. PolicyNeeds["enabled"] = BOOLEAN /\ row["enabled"] = TRUE
        BY <1>1 DEF PolicyNeeds
  <2>5. row["enabled"] \in PolicyNeeds["enabled"]
        BY <2>4, Zenon
  <2>6. {"client", "override_ttl", "enabled"} \subseteq DOMAIN row
        BY <1>1
  <2> QED
      BY <2>1, <2>2, <2>3, <2>5, <2>6 DEF Usable
<1>5. TableOK(t, rows[t]) /\ GoodKeys(rows[t])
      BY <1>3 DEF UsableInv, TypeInv
<1>6. TableOK(t, Add(rows[t], row))
      BY <1>2, <1>3, <1>4, <1>5, AddUsable
<1>7. UpdOK'
      BY <1>2, UpdSame DEF UsableInv
<1> QED
    BY <1>2, <1>3, <1>6, <1>7, OneTable DEF Keyed

LEMMA ModeUsable ==
  ASSUME TypeInv, UsableInv, NEW c \in check_client \ {"*"}, NEW b, SetClientMode(c, b)
  PROVE  UsableInv'
<1>1. CASE \E i \in Wildcard(c) : Load("policies", i, [action |-> b.mode])
  <2>1. PICK i : Load("policies", i, [action |-> b.mode])
        BY <1>1
  <2>2. "policies" \in DOMAIN Needs /\ "action" \notin DOMAIN Needs["policies"]
        BY NeedsNames DEF PolicyNeeds
  <2> QED
      BY <2>1, <2>2, LoadUsable
<1>2. CASE /\ AddWildcard(c, b.mode)
           /\ UNCHANGED <<upd, put, emptied, nulled, revised>> /\ ApiFrame
      BY <1>2, WildcardUsable
<1> QED
    BY <1>1, <1>2 DEF SetClientMode

LEMMA FinishUsable ==
  ASSUME TypeInv, UsableInv, FinishUpdate
  PROVE  UsableInv'
<1> DEFINE t == upd.table
           i == upd.id
           row == Merge(Changed, rows[t][i])
           g == [rows[t] EXCEPT ![i] = row]
<1>1. UNCHANGED legacy /\ upd' = NoUpdate /\ upd # NoUpdate
      BY DEF FinishUpdate, ApiFrame
<1>2. UpdOK'
      BY <1>1, UpdSame DEF UsableInv
<1>3. CASE UNCHANGED rows
      BY <1>1, <1>2, <1>3, UsableSame
<1>4. CASE i \in DOMAIN rows[t] /\ ~Clash(t, i, row) /\ Stored(t, g)
  <2>1. t \in DOMAIN Needs /\ t \in Tables
        BY <1>1, NeedsTables DEF UsableInv, UpdOK, Keyed
  <2>2. TableOK(t, rows[t])
        BY <2>1 DEF UsableInv
  <2>3. DOMAIN g = DOMAIN rows[t] /\ g[i] = row
        /\ \A k \in DOMAIN rows[t] \ {i} : g[k] = rows[t][k]
        BY <1>4
  <2>4. Usable(t, rows[t][i])
        BY <1>4, <2>2 DEF TableOK
  <2>5. \A f \in DOMAIN Changed :
          /\ f \in DOMAIN upd.body /\ Changed[f] = Validated(t, f, upd.body[f])
          /\ t = "hosts" /\ f \in Host.not_null => Changed[f] # Null
        BY DEF Changed
  <2>6. /\ DOMAIN row = DOMAIN Changed \cup DOMAIN rows[t][i]
        /\ \A c \in DOMAIN row :
             row[c] = IF c \in DOMAIN Changed THEN Changed[c] ELSE rows[t][i][c]
        BY DEF Merge
  <2>7. ASSUME NEW c \in DOMAIN Needs[t]
        PROVE  c \in DOMAIN row /\ row[c] \in Optional(Needs[t][c])
    <3>1. c \in DOMAIN row
          BY <2>4, <2>6 DEF Usable
    <3>2. CASE c \in DOMAIN Changed
      <4>1. row[c] = Validated(t, c, upd.body[c]) /\ c \in DOMAIN upd.body
            BY <2>5, <2>6, <3>1, <3>2
      <4> QED
          BY <4>1, <3>1, <1>1 DEF UsableInv, UpdOK
    <3>3. CASE c \notin DOMAIN Changed
          BY <2>4, <2>6, <3>1, <3>3 DEF Usable, Optional
    <3> QED
        BY <3>2, <3>3
  <2>8. ASSUME t # "hosts" PROVE Usable(t, row)
    <3>1. \A c \in Schema[t].not_null : row[c] # Null
          BY <1>4 DEF Clash
    <3>2. UsableOrNull(t, row)
          BY <2>7 DEF UsableOrNull
    <3> QED
        BY <3>1, <3>2, <2>1, <2>8, LetIn
  <2>9. ASSUME t = "hosts" PROVE Usable(t, row)
    <3>1. /\ DOMAIN HostNeeds = {"device_name", "excluded_from_blocklist", "flag_new_domains"}
          /\ Host.not_null = {"excluded_from_blocklist", "flag_new_domains"}
          /\ Null \in HostNeeds["device_name"] /\ Needs[t] = HostNeeds
          BY <2>9, NeedsNames DEF HostNeeds, Host
    <3>2. ASSUME NEW c \in DOMAIN Needs[t] PROVE row[c] \in Needs[t][c]
      <4>1. CASE c = "device_name"
            BY <2>7, <3>1, <4>1 DEF Optional
      <4>2. CASE c \in Host.not_null /\ c \in DOMAIN Changed
            BY <2>5, <2>6, <2>7, <2>9, <3>1, <4>2 DEF Optional
      <4>3. CASE c \notin DOMAIN Changed
            BY <2>4, <2>6, <4>3 DEF Usable
      <4> QED
          BY <3>1, <4>1, <4>2, <4>3
    <3> QED
        BY <2>7, <3>2 DEF Usable
  <2>10. Usable(t, row)
        BY <2>8, <2>9
  <2> HIDE DEF row, g
  <2>11. \A k \in DOMAIN g : Usable(t, g[k])
        BY <2>2, <2>3, <2>10 DEF TableOK
  <2>12. ASSUME t = "policies" PROVE Distinct(g)
    <3>1. \A k \in DOMAIN rows[t] \ {i} :
            ~(rows[t][k].client = row.client /\ rows[t][k].domain = row.domain)
          BY <1>4, <2>12, NoTwin
    <3>2. Distinct(rows[t])
          BY <2>2, <2>12 DEF TableOK
    <3> HIDE DEF t, i
    <3> QED
        BY <2>3, <3>1, <3>2 DEF Distinct
  <2>13. TableOK(t, g)
        BY <2>11, <2>12 DEF TableOK
  <2> HIDE DEF t
  <2> QED
      BY <1>1, <1>2, <1>4, <2>1, <2>13, OneTable
<1> QED
    BY <1>3, <1>4 DEF FinishUpdate

LEMMA RemoveUsable ==
  ASSUME TypeInv, UsableInv, NEW t \in Keyed, NEW ids, Remove(t, ids)
  PROVE  UsableInv'
<1> DEFINE g == [k \in DOMAIN rows[t] \ ids |-> rows[t][k]]
<1>1. Stored(t, g) /\ UNCHANGED <<upd, legacy>>
      BY DEF Remove, ApiFrame
<1>2. UpdOK'
      BY <1>1, UpdSame DEF UsableInv
<1>3. DOMAIN g = DOMAIN rows[t] \ ids /\ \A k \in DOMAIN g : g[k] = rows[t][k]
      OBVIOUS
<1> HIDE DEF g
<1>4. ASSUME t \in DOMAIN Needs PROVE TableOK(t, g)
  <2>1. TableOK(t, rows[t])
        BY <1>4 DEF UsableInv
  <2> QED
      BY <2>1, <1>3 DEF TableOK, Distinct
<1> QED
    BY <1>1, <1>2, <1>4, OneTable DEF Keyed

(* The old rows pass the constraints of the new table.                     *)
LEMMA InsertUsable ==
  ASSUME MoveInv, UsableInv, InsertRows
  PROVE  UsableInv'
<1> DEFINE t == TableOrder[next]
           g == Merge(legacy[t], rows[t])
           taken == \/ DOMAIN rows[t] \cap DOMAIN legacy[t] # {}
                    \/ \E i \in DOMAIN legacy[t] : Clash(t, i, legacy[t][i])
<1>1. UNCHANGED <<legacy, upd>>
      BY DEF InsertRows, InitFrame, apiVars
<1>2. UpdOK'
      BY <1>1, UpdSame DEF UsableInv
<1>3. CASE taken
      BY <1>1, <1>2, <1>3, UsableSame DEF InsertRows
<1>4. CASE ~taken
  <2>1. Stored(t, g)
        BY <1>4 DEF InsertRows
  <2>2. t \in Split /\ t # "hosts" /\ t \in Tables
        BY OrderTyped, StoreAssumption DEF MoveInv, CopyInv, InsertRows, Tables
  <2>3. /\ DOMAIN rows[t] \cap DOMAIN legacy[t] = {}
        /\ \A i \in DOMAIN legacy[t] : ~Clash(t, i, legacy[t][i])
        BY <1>4
  <2>4. /\ DOMAIN g = DOMAIN legacy[t] \cup DOMAIN rows[t]
        /\ \A k \in DOMAIN g :
             g[k] = IF k \in DOMAIN legacy[t] THEN legacy[t][k] ELSE rows[t][k]
        BY DEF Merge
  <2> HIDE DEF t, g
  <2>5. ASSUME t \in DOMAIN Needs PROVE TableOK(t, g)
    <3>1. TableOK(t, rows[t])
          BY <2>5 DEF UsableInv
    <3>2. ASSUME NEW k \in DOMAIN legacy[t] PROVE Usable(t, legacy[t][k])
      <4>1. UsableOrNull(t, legacy[t][k])
            BY <2>2, <2>5 DEF UsableInv, LegacyOK
      <4>2. \A c \in Schema[t].not_null : legacy[t][k][c] # Null
            BY <2>3 DEF Clash
      <4> QED
          BY <2>2, <2>5, <4>1, <4>2, LetIn
    <3>3. \A k \in DOMAIN g : Usable(t, g[k])
          BY <2>4, <3>1, <3>2 DEF TableOK
    <3>4. ASSUME t = "policies" PROVE Distinct(g)
      <4>1. Distinct(legacy[t]) /\ Distinct(rows[t])
            BY <3>1, <3>4 DEF UsableInv, LegacyOK, TableOK
      <4>2. \A i \in DOMAIN legacy[t], j \in DOMAIN rows[t] :
              ~(rows[t][j].client = legacy[t][i].client
                  /\ rows[t][j].domain = legacy[t][i].domain)
        <5> SUFFICES ASSUME NEW i \in DOMAIN legacy[t], NEW j \in DOMAIN rows[t]
                     PROVE  ~(rows[t][j].client = legacy[t][i].client
                                /\ rows[t][j].domain = legacy[t][i].domain)
            OBVIOUS
        <5>1. j \in DOMAIN rows[t] \ {i} /\ ~Clash(t, i, legacy[t][i])
              BY <2>3
        <5> QED
            BY <5>1, <3>4, NoTwin
      <4> QED
          BY <2>4, <4>1, <4>2 DEF Distinct
    <3> QED
        BY <3>3, <3>4 DEF TableOK
  <2> QED
      BY <1>1, <1>2, <2>1, <2>2, <2>5, OneTable DEF MoveInv
<1> QED
    BY <1>3, <1>4

(* The default list and the default upstream.                              *)
LEMMA DefaultsUsable ==
  ASSUME NEW n \in 1..2
  PROVE  /\ Defaults[n].table \in DOMAIN Needs
         /\ Usable(Defaults[n].table, Defaults[n].row)
<1>1. CASE n = 1
  <2> DEFINE row == Merge([name |-> "HaGeZi", url |-> "https", enabled |-> FALSE],
                          Blocklist.default)
  <2>1. Defaults[n].table = "blocklists" /\ Defaults[n].row = row
        BY <1>1 DEF Defaults
  <2>2. Needs["blocklists"] = BlocklistNeeds /\ "blocklists" \in DOMAIN Needs
        BY NeedsNames
  <2>3. DOMAIN BlocklistNeeds = {"url", "update_interval_hours", "enabled"}
        BY DEF BlocklistNeeds
  <2>4. row["url"] = "https" /\ row["enabled"] = FALSE /\ row["update_interval_hours"] = 24
        BY DEF Merge, Blocklist
  <2>5. {"url", "update_interval_hours", "enabled"} \subseteq DOMAIN row
        BY DEF Merge, Blocklist
  <2> HIDE DEF row
  <2>6. BlocklistNeeds["enabled"] = BOOLEAN
        BY DEF BlocklistNeeds
  <2>7. row["enabled"] \in BlocklistNeeds["enabled"]
        BY <2>4, <2>6, Zenon
  <2>8. row["url"] \in BlocklistNeeds["url"]
        BY <2>4 DEF BlocklistNeeds
  <2>9. row["update_interval_hours"] \in BlocklistNeeds["update_interval_hours"]
        BY <2>4 DEF BlocklistNeeds
  <2> QED
      BY <2>1, <2>2, <2>3, <2>5, <2>7, <2>8, <2>9 DEF Usable
<1>2. CASE n = 2
  <2> DEFINE row == Merge([name |-> "google", address |-> "ip"], Upstream.default)
  <2>1. Defaults[n].table = "upstreams" /\ Defaults[n].row = row
        BY <1>2 DEF Defaults
  <2>2. /\ Needs["upstreams"] = UpstreamNeeds /\ "upstreams" \in DOMAIN Needs
        /\ Schema["upstreams"] = Upstream
        BY NeedsNames DEF Schema
  <2>3. /\ row["address"] = "ip"
        /\ \A c \in {"port", "protocol", "enabled", "priority"} :
             row[c] = Upstream.default[c] /\ c \in DOMAIN Upstream.default
        BY UpstreamNames DEF Merge
  <2>4. {"address", "port", "protocol", "enabled", "priority"} \subseteq DOMAIN row
        BY UpstreamNames DEF Merge
  <2> HIDE DEF row
  <2>5. "ip" \in UpstreamNeeds["address"]
        BY DEF UpstreamNeeds
  <2>6. ASSUME NEW c \in DOMAIN UpstreamNeeds PROVE row[c] \in UpstreamNeeds[c]
    <3>1. CASE c = "address"
          BY <2>3, <2>5, <3>1
    <3>2. CASE c \in {"port", "protocol", "enabled", "priority"}
          BY <2>2, <2>3, <2>6, <3>2, DefaultFits
    <3> QED
        BY <3>1, <3>2, UpstreamNames
  <2> QED
      BY <2>1, <2>2, <2>4, <2>6, UpstreamNames DEF Usable
<1> QED
    BY <1>1, <1>2

LEMMA PlantUsable ==
  ASSUME MoveInv, UsableInv, PlantDefault
  PROVE  UsableInv'
<1> DEFINE d == Defaults[next]
<1>1. UNCHANGED <<legacy, upd>>
      BY DEF PlantDefault, InitFrame, apiVars
<1>2. UpdOK'
      BY <1>1, UpdSame DEF UsableInv
<1>3. next \in 1..2
      BY DEF MoveInv, CopyInv, PlantDefault
<1>4. CASE Clash(d.table, 0, d.row)
      BY <1>1, <1>2, <1>4, UsableSame DEF PlantDefault
<1>5. CASE ~Clash(d.table, 0, d.row)
  <2>1. Stored(d.table, Add(rows[d.table], d.row))
        BY <1>5 DEF PlantDefault
  <2>2. d.table \in DOMAIN Needs /\ Usable(d.table, d.row)
        BY <1>3, DefaultsUsable
  <2>3. d.table \in Keyed
        BY <2>2, NeedsTables
  <2>4. TableOK(d.table, rows[d.table]) /\ GoodKeys(rows[d.table])
        BY <2>2, <2>3 DEF UsableInv, MoveInv, TypeInv
  <2> HIDE DEF d
  <2>5. TableOK(d.table, Add(rows[d.table], d.row))
        BY <1>5, <2>2, <2>4, AddUsable
  <2> QED
      BY <1>1, <1>2, <2>1, <2>3, <2>5, OneTable DEF MoveInv, Keyed
<1> QED
    BY <1>4, <1>5

LEMMA UsableStep == MoveInv /\ UsableInv /\ [Next]_vars => UsableInv'
<1> SUFFICES ASSUME MoveInv, UsableInv, [Next]_vars PROVE UsableInv'
    OBVIOUS
<1>0. TypeInv
      BY DEF MoveInv
<1>1. ASSUME UNCHANGED <<rows, legacy>>, upd' = upd \/ upd' = NoUpdate PROVE UsableInv'
      BY <1>1, UpdSame, UsableSame DEF UsableInv
<1>2. CASE \/ CreateAll \/ CountTarget \/ RenameLegacy \/ EnsureColumn \/ AlterFirstSeen
           \/ Backfill \/ LookForRows \/ InitDbFails \/ BuildState \/ Reload \/ Restart
           \/ UNCHANGED vars
      BY <1>1, <1>2 DEF CreateAll, CountTarget, RenameLegacy, EnsureColumn, AlterFirstSeen,
           Backfill, LookForRows, InitDbFails, BuildState, Reload, Restart, InitFrame,
           DnsFrame, apiVars, vars
<1>3. CASE FlushQueryLog
  <2>1. UNCHANGED <<legacy, upd>> /\ UpdOK'
        BY <1>3, UpdSame DEF FlushQueryLog, DnsFrame, apiVars, UsableInv
  <2>2. "query_log" \notin DOMAIN Needs /\ "query_log" \in Tables
        BY NeedsNames, TablesNamed DEF Keyed
  <2> QED
      BY <1>0, <1>3, <2>1, <2>2, UsableSame, OneTable DEF FlushQueryLog
<1>4. CASE Api
  <2>1. CASE \E t \in DOMAIN Creates : \E b \in Creates[t] : Create(t, b)
        BY <1>0, <2>1, CreateUsable
  <2>2. CASE \E t \in DOMAIN Updates : \E i \in DOMAIN rows[t], b \in Updates[t] :
               BeginUpdate(t, i, b)
        BY <2>2, UpdateUsable
  <2>3. CASE \E i \in DOMAIN rows["hosts"], reply \in Replies : SyncHost(i, reply)
        BY <2>3, SyncUsable
  <2>4. CASE FinishUpdate
        BY <1>0, <2>4, FinishUsable
  <2>5. CASE \E t \in DOMAIN Creates : \E i \in DOMAIN rows[t] : Delete(t, i)
        BY <1>0, <2>5, RemoveUsable, TablesNamed DEF Delete
  <2>6. CASE ResetQueryLog
        BY <1>0, <2>6, RemoveUsable, TablesNamed DEF ResetQueryLog
  <2>7. CASE (\E b \in Puts : UpdateSettings(b)) \/ RequestFlush
    <3>1. PICK f : Stored("app_settings", f)
          BY <2>7 DEF UpdateSettings, RequestFlush
    <3>2. UNCHANGED <<legacy, upd>> /\ UpdOK'
          BY <2>7, UpdSame DEF UpdateSettings, RequestFlush, ApiFrame, UsableInv
    <3>3. "app_settings" \notin DOMAIN Needs /\ "app_settings" \in Tables
          BY NeedsNames, TablesNamed
    <3> QED
        BY <1>0, <3>1, <3>2, <3>3, OneTable
  <2>8. CASE \E c \in check_client \ {"*"}, b \in Modes : SetClientMode(c, b)
        BY <1>0, <2>8, ModeUsable
  <2> QED
      BY <1>4, <2>1, <2>2, <2>3, <2>4, <2>5, <2>6, <2>7, <2>8 DEF Api
<1>5. CASE \E c \in check_client \ {"*"} : Discover(c)
      BY <1>0, <1>5, WildcardUsable DEF Discover
<1> QED
    BY <1>2, <1>3, <1>4, <1>5, InsertUsable, PlantUsable DEF Next, InitDb, Dns

LEMMA UsableInit == Init => UsableInv
<1> SUFFICES ASSUME Init PROVE UsableInv
    OBVIOUS
<1>1. UpdOK
      BY DEF Init, UpdOK
<1>2. LegacyOK
  <2>1. CASE legacy \in LegacyFiles
        BY <2>1, LegacyAssumption DEF LegacyOK, UsableOrNull, Distinct
  <2>2. CASE legacy = [t \in Tables |-> <<>>]
    <3>1. \A t \in DOMAIN Needs : DOMAIN legacy[t] = {}
          BY <2>2, NeedsTables DEF Keyed
    <3>2. "policies" \in DOMAIN Needs
          BY NeedsNames
    <3> QED
        BY <3>1, <3>2 DEF LegacyOK, Distinct
  <2> QED
      BY <2>1, <2>2 DEF Init
<1>3. ASSUME NEW t \in DOMAIN Needs PROVE TableOK(t, rows[t])
  <2>1. rows[t] = IF t = "hosts" THEN <<Host.default>> ELSE <<>>
        BY NeedsTables DEF Init, Keyed
  <2>2. CASE t = "hosts"
    <3>1. \A i \in DOMAIN rows[t] : rows[t][i] = Host.default
          BY <2>1, <2>2
    <3>2. Usable(t, Host.default)
      <4>1. Schema[t] = Host /\ Needs[t] = HostNeeds
            BY <2>2, NeedsNames DEF Schema
      <4>2. DOMAIN HostNeeds \subseteq DOMAIN Host.default
            BY DEF HostNeeds, Host
      <4> QED
          BY <4>1, <4>2, DefaultFits DEF Usable
    <3> QED
        BY <2>2, <3>1, <3>2 DEF TableOK
  <2>3. CASE t # "hosts"
        BY <2>1, <2>3 DEF TableOK, Distinct
  <2> QED
      BY <2>2, <2>3
<1> QED
    BY <1>1, <1>2, <1>3 DEF UsableInv

-----------------------------------------------------------------------------
(* The actions of the policies.  The worker's copy of default_action, and  *)
(* so what a discovery stores, is one of the two documented values unless  *)
(* null has been put there; an override lacks its answer only after an     *)
(* update.                                                                 *)
ActionOK(a, spoilt) == a \in VALID_ACTIONS \/ (a = "None" /\ spoilt)
DefaultOK(a, spoilt) == a \in {"deny", "forward"} \/ (a = "None" /\ spoilt)

Sound(p, spoilt, bare) ==
  /\ {"action", "override_response"} \subseteq DOMAIN p
  /\ ActionOK(p.action, spoilt)
  /\ p.action = "override" => (Answers(p) \/ bare)

OldSound ==
  /\ \A i \in DOMAIN legacy["policies"] :
       LET p == legacy["policies"][i]
       IN  /\ {"action", "override_response"} \subseteq DOMAIN p
           /\ p.action \in Optional(VALID_ACTIONS)
           /\ p.action = "override" => Answers(p)
  /\ "default_action" \in DOMAIN legacy["app_settings"] =>
       \E a \in {"deny", "forward"} :
         legacy["app_settings"]["default_action"] = [value |-> Word(a)]

UpdSound ==
  upd # NoUpdate /\ upd.table = "policies" =>
    ("action" \in DOMAIN upd.body => upd.body["action"] \in Optional(VALID_ACTIONS))

NulledInv ==
  /\ nulled \in BOOLEAN
  /\ ("default_action" \in DOMAIN put /\ put["default_action"] = Null) => nulled

ActionInv ==
  /\ NulledInv /\ OldSound /\ UpdSound
  /\ DefaultOK(default_action, nulled)
  /\ \A i \in DOMAIN rows["policies"] : Sound(rows["policies"][i], nulled, i \in revised)

(* What the worker reads as the site's default.                            *)
LEMMA DefaultRead ==
  ASSUME SettingsInv, NulledInv, OldSound
  PROVE  DefaultOK(load_runtime_settings["default_action"], nulled)
<1> DEFINE k == "default_action"
           stored == rows["app_settings"]
<1>1. k \in KNOWN_KEYS /\ k \in STR_KEYS /\ k \notin BOOL_KEYS /\ k \notin NUM_KEYS
      BY DEF KNOWN_KEYS, STR_KEYS, BOOL_KEYS, NUM_KEYS
<1>2. load_runtime_settings[k] = IF k \in DOMAIN stored
                                 THEN coerce(k, stored[k].value) ELSE RuntimeSettings[k]
      BY <1>1 DEF load_runtime_settings
<1>3. \A w : coerce(k, Word(w)) = w
      BY <1>1 DEF coerce, Word
<1>4. CASE k \notin DOMAIN stored
  <2>1. RuntimeSettings[k] = "forward"
        BY DEF RuntimeSettings
  <2> QED
      BY <1>2, <1>4, <2>1 DEF DefaultOK
<1>5. CASE k \in DOMAIN put
  <2>1. /\ k \in DOMAIN stored /\ stored[k].value = serialize(k, put[k])
        /\ put[k] \in SettingsUpdate[k]
        BY <1>5 DEF SettingsInv
  <2>2. SettingsUpdate[k] = {"deny", "forward"} \cup {Null}
        BY <1>1 DEF SettingsUpdate, Optional
  <2>3. CASE put[k] = Null
    <3>1. serialize(k, put[k]) = Word("None")
          BY <2>3 DEF serialize
    <3>2. nulled
          BY <1>5, <2>3 DEF NulledInv
    <3> QED
        BY <1>2, <1>3, <2>1, <3>1, <3>2 DEF DefaultOK
  <2>4. CASE put[k] # Null
    <3>1. serialize(k, put[k]) = Word(put[k])
          BY <1>1, <2>4 DEF serialize
    <3>2. load_runtime_settings[k] = put[k]
          BY <1>2, <1>3, <2>1, <3>1
    <3> QED
        BY <2>1, <2>2, <2>4, <3>2 DEF DefaultOK
  <2> QED
      BY <2>3, <2>4
<1>6. CASE k \notin DOMAIN put /\ k \in DOMAIN stored
  <2>1. k \in DOMAIN legacy["app_settings"] /\ stored[k] = legacy["app_settings"][k]
        BY <1>1, <1>6 DEF SettingsInv
  <2>2. PICK a \in {"deny", "forward"} : stored[k] = [value |-> Word(a)]
        BY <2>1 DEF OldSound
  <2>3. load_runtime_settings[k] = a
        BY <1>2, <1>3, <1>6, <2>2
  <2> QED
      BY <2>3 DEF DefaultOK
<1> QED
    BY <1>4, <1>5, <1>6

(* A step that leaves the policies and what excuses them alone.            *)
LEMMA ActionSame ==
  ASSUME ActionInv, UNCHANGED <<legacy, put, nulled, revised>>, UpdSound',
         rows'["policies"] = rows["policies"],
         default_action' = default_action \/ DefaultOK(default_action', nulled)
  PROVE  ActionInv'
<1>1. NulledInv' /\ OldSound'
      BY DEF ActionInv, NulledInv, OldSound
<1>2. DefaultOK(default_action', nulled')
      BY DEF ActionInv
<1>3. ASSUME NEW i \in DOMAIN rows'["policies"]
      PROVE  Sound(rows'["policies"][i], nulled', i \in revised')
  <2>1. i \in DOMAIN rows["policies"]
        OBVIOUS
  <2> QED
      BY <2>1 DEF ActionInv
<1> QED
    BY <1>1, <1>2, <1>3 DEF ActionInv

(* A step that writes the policies, each of them sound again.              *)
LEMMA ActionWritten ==
  ASSUME TypeInv, ActionInv, NEW f, Stored("policies", f), UpdSound',
         UNCHANGED <<legacy, put, nulled, default_action>>,
         \A i \in DOMAIN f : Sound(f[i], nulled, i \in revised')
  PROVE  ActionInv'
<1>1. rows'["policies"] = f
      BY TablesNamed DEF Stored, TypeInv, Keyed
<1>2. NulledInv' /\ OldSound' /\ DefaultOK(default_action', nulled')
      BY DEF ActionInv, NulledInv, OldSound
<1> QED
    BY <1>1, <1>2 DEF ActionInv

LEMMA UpdSoundSame ==
  ASSUME UpdSound, upd' = upd \/ upd' = NoUpdate
  PROVE  UpdSound'
BY DEF UpdSound

(* A new policy, under a new id.                                           *)
LEMMA ActionAdded ==
  ASSUME TypeInv, ActionInv, NEW row, Stored("policies", Add(rows["policies"], row)),
         Sound(row, nulled, FALSE),
         UNCHANGED <<legacy, put, nulled, revised, default_action, upd>>
  PROVE  ActionInv'
<1> DEFINE f == rows["policies"]
           n == NextId(f)
           g == Add(f, row)
<1>1. GoodKeys(f)
      BY TablesNamed DEF TypeInv
<1>2. DOMAIN g = DOMAIN f \cup {n} /\ n \notin DOMAIN f /\ \A k \in DOMAIN f : g[k] = f[k]
      BY <1>1, AddKeys, NextIdIsNew
<1>3. g[n] = row
  <2>1. n \in {n} /\ n \notin DOMAIN f
        BY <1>2
  <2> QED
      BY <1>2 DEF Add, Merge
<1>4. UpdSound'
      BY UpdSoundSame DEF ActionInv
<1>5. \A i \in DOMAIN f : Sound(f[i], nulled, i \in revised)
      BY DEF ActionInv
<1>6. Sound(row, nulled, n \in revised)
      BY DEF Sound
<1> HIDE DEF f, g, n
<1>7. \A i \in DOMAIN g : Sound(g[i], nulled, i \in revised)
      BY <1>2, <1>3, <1>5, <1>6
<1>8. \A i \in DOMAIN g : Sound(g[i], nulled, i \in revised')
      BY <1>7
<1>9. Stored("policies", g)
      BY DEF f, g
<1> QED
    BY <1>4, <1>8, <1>9, ActionWritten

LEMMA WildcardAction ==
  ASSUME TypeInv, ActionInv, NEW c, NEW action, AddWildcard(c, action),
         ActionOK(action, nulled), action # "override",
         UNCHANGED <<upd, put, emptied, nulled, revised>>, ApiFrame
  PROVE  ActionInv'
<1> DEFINE row == ClientPolicy(c, action)
<1>1. /\ {"action", "override_response"} \subseteq DOMAIN row
      /\ row["action"] = action
  <2>1. {"action", "override_response"} \subseteq DOMAIN row
        BY ClientPolicyRow
  <2>2. row["action"] = action
        BY ClientPolicyRow
  <2> QED
      BY <2>1, <2>2
<1>2. Stored("policies", Add(rows["policies"], row))
      BY DEF AddWildcard
<1> HIDE DEF row
<1>3. Sound(row, nulled, FALSE)
      BY <1>1 DEF Sound
<1> QED
    BY <1>2, <1>3, ActionAdded DEF ApiFrame, dnsVars

LEMMA CreateAction ==
  ASSUME TypeInv, ActionInv, NEW t \in DOMAIN Creates, NEW b, Create(t, b)
  PROVE  ActionInv'
<1> DEFINE row == NewRow(t, b)
<1>1. /\ Stored(t, Add(rows[t], row)) /\ AcceptsCreate(t, b)
      /\ UNCHANGED <<legacy, put, nulled, revised, default_action, upd>>
      BY DEF Create, ApiFrame, dnsVars
<1>2. t \in DOMAIN CreateModel /\ t \in DOMAIN rows
      BY RequestAssumption, TablesNamed DEF TypeInv, Keyed
<1>3. CASE t # "policies"
  <2>1. rows'["policies"] = rows["policies"]
        BY <1>1, <1>2, <1>3, TablesNamed DEF Stored, TypeInv, Keyed
  <2>2. UpdSound'
        BY <1>1, UpdSoundSame DEF ActionInv
  <2> QED
      BY <1>1, <2>1, <2>2, ActionSame
<1>4. CASE t = "policies"
  <2>1. CreateModel[t] = PolicyCreate /\ Schema[t] = Policy
        BY <1>4 DEF CreateModel, Schema
  <2>2. /\ DOMAIN row = DOMAIN PolicyCreate /\ DOMAIN b \subseteq DOMAIN PolicyCreate
        /\ \A f \in DOMAIN b : b[f] \in PolicyCreate[f]
        /\ b["action"] = "override" => row["override_response"] \notin {Null, "blank"}
        BY <1>1, <1>4, <2>1 DEF AcceptsCreate, Validates
  <2>3. {"action", "override_response"} \subseteq DOMAIN row
        BY <2>2 DEF PolicyCreate
  <2>4. DOMAIN row = DOMAIN b \cup DOMAIN Policy.default
        BY <2>1 DEF NewRow, Merge
  <2>5. "action" \in DOMAIN b
        BY <2>3, <2>4 DEF Policy
  <2>6. row["action"] = b["action"]
    <3>1. Validated(t, "action", b["action"]) = b["action"]
          BY <1>4, ValidatedSame
    <3> QED
        BY <2>3, <2>5, <3>1 DEF NewRow, Merge
  <2>7. b["action"] \in VALID_ACTIONS
        BY <2>2, <2>5 DEF PolicyCreate
  <2> HIDE DEF row
  <2>8. Sound(row, nulled, FALSE)
        BY <2>2, <2>3, <2>6, <2>7 DEF Sound, ActionOK, Answers
  <2> QED
      BY <1>1, <1>4, <2>8, ActionAdded
<1> QED
    BY <1>3, <1>4

(* A request that loads a policy keeps a validated action.                 *)
LEMMA LoadAction ==
  ASSUME ActionInv, NEW t, NEW i, NEW b, Load(t, i, b),
         t = "policies" /\ "action" \in DOMAIN b => b["action"] \in Optional(VALID_ACTIONS)
  PROVE  ActionInv'
<1>1. upd'.table = t /\ upd'.body = b
      BY DEF Load
<1>2. UpdSound'
      BY <1>1 DEF UpdSound
<1> QED
    BY <1>2, ActionSame DEF Load, ApiFrame, dnsVars

LEMMA UpdateAction ==
  ASSUME ActionInv, NEW t \in DOMAIN Updates, NEW i, NEW b, BeginUpdate(t, i, b)
  PROVE  ActionInv'
<1>1. ASSUME t = "policies", "action" \in DOMAIN b
      PROVE  b["action"] \in Optional(VALID_ACTIONS)
  <2>1. UpdateModel[t] = PolicyUpdate
        BY <1>1 DEF UpdateModel
  <2>2. b["action"] \in PolicyUpdate["action"]
        BY <1>1, <2>1 DEF BeginUpdate, Validates
  <2> QED
      BY <2>2 DEF PolicyUpdate
<1> QED
    BY <1>1, LoadAction DEF BeginUpdate

LEMMA ModeAction ==
  ASSUME TypeInv, ActionInv, NEW c, NEW b \in Modes, SetClientMode(c, b)
  PROVE  ActionInv'
<1>1. b.mode \in {"forward", "deny"}
  <2>1. "mode" \in DOMAIN b /\ b["mode"] \in ClientModeUpdate["mode"]
        BY RequestAssumption DEF SetClientMode, Validates
  <2> QED
      BY <2>1 DEF ClientModeUpdate
<1>2. CASE \E i \in Wildcard(c) : Load("policies", i, [action |-> b.mode])
  <2>1. PICK i : Load("policies", i, [action |-> b.mode])
        BY <1>2
  <2>2. [action |-> b.mode]["action"] \in Optional(VALID_ACTIONS)
        BY <1>1 DEF Optional, VALID_ACTIONS
  <2> QED
      BY <2>1, <2>2, LoadAction
<1>3. CASE /\ AddWildcard(c, b.mode)
           /\ UNCHANGED <<upd, put, emptied, nulled, revised>> /\ ApiFrame
  <2>1. ActionOK(b.mode, nulled) /\ b.mode # "override"
        BY <1>1 DEF ActionOK, VALID_ACTIONS
  <2> QED
      BY <1>3, <2>1, WildcardAction
<1> QED
    BY <1>2, <1>3 DEF SetClientMode

LEMMA DiscoverAction ==
  ASSUME TypeInv, ActionInv, NEW c, Discover(c)
  PROVE  ActionInv'
<1>1. ActionOK(default_action, nulled) /\ default_action # "override"
      BY DEF ActionInv, DefaultOK, ActionOK, VALID_ACTIONS
<1> QED
    BY <1>1, WildcardAction DEF Discover

LEMMA FinishAction ==
  ASSUME TypeInv, ActionInv, FinishUpdate
  PROVE  ActionInv'
<1> DEFINE t == upd.table
           i == upd.id
           row == Merge(Changed, rows[t][i])
           g == [rows[t] EXCEPT ![i] = row]
<1>1. /\ UNCHANGED <<legacy, put, nulled, default_action>>
      /\ upd' = NoUpdate /\ upd # NoUpdate
      BY DEF FinishUpdate, ApiFrame, dnsVars
<1>2. UpdSound' /\ UpdSound
      BY <1>1, UpdSoundSame DEF ActionInv
<1>3. CASE UNCHANGED <<rows, revised>>
      BY <1>1, <1>2, <1>3, ActionSame
<1>4. CASE /\ i \in DOMAIN rows[t] /\ ~Clash(t, i, row) /\ Stored(t, g)
           /\ revised' = IF /\ t = "policies"
                            /\ DOMAIN Changed \cap {"action", "override_response"} # {}
                         THEN revised \cup {i} ELSE revised
  <2>1. t \in DOMAIN rows /\ "policies" \in DOMAIN rows
        BY <1>1, TablesNamed DEF TypeInv, Keyed
  <2>2. CASE t # "policies"
    <3>1. rows'["policies"] = rows["policies"] /\ UNCHANGED revised
          BY <1>4, <2>1, <2>2 DEF Stored
    <3> QED
        BY <3>1, <1>1, <1>2, ActionSame
  <2>3. CASE t = "policies"
    <3>1. DOMAIN g = DOMAIN rows[t] /\ g[i] = row
          /\ \A k \in DOMAIN rows[t] \ {i} : g[k] = rows[t][k]
          BY <1>4
    <3>2. Sound(rows[t][i], nulled, i \in revised)
          BY <1>4, <2>3 DEF ActionInv
    <3>3. /\ DOMAIN row = DOMAIN Changed \cup DOMAIN rows[t][i]
          /\ \A c \in DOMAIN row :
               row[c] = IF c \in DOMAIN Changed THEN Changed[c] ELSE rows[t][i][c]
          BY DEF Merge
    <3>4. \A f \in DOMAIN Changed : f \in DOMAIN upd.body /\ Changed[f] = upd.body[f]
          BY <2>3, ValidatedSame DEF Changed
    <3>5. {"action", "override_response"} \subseteq DOMAIN row
          BY <3>2, <3>3 DEF Sound
    <3>6. ActionOK(row["action"], nulled)
      <4>1. CASE "action" \in DOMAIN Changed
        <5>1. row["action"] \in Optional(VALID_ACTIONS)
              BY <1>1, <1>2, <2>3, <3>3, <3>4, <3>5, <4>1 DEF UpdSound
        <5>2. "action" \in Schema[t].not_null
              BY <2>3 DEF Schema, Policy
        <5>3. row["action"] # Null
              BY <1>4, <5>2 DEF Clash
        <5> QED
            BY <5>1, <5>3 DEF Optional, ActionOK
      <4>2. CASE "action" \notin DOMAIN Changed
            BY <3>2, <3>3, <3>5, <4>2 DEF Sound
      <4> QED
          BY <4>1, <4>2
    <3>7. row["action"] = "override" => (Answers(row) \/ i \in revised')
      <4>1. CASE DOMAIN Changed \cap {"action", "override_response"} # {}
            BY <1>4, <2>3, <4>1
      <4>2. CASE DOMAIN Changed \cap {"action", "override_response"} = {}
        <5>1. /\ row["action"] = rows[t][i]["action"]
              /\ row["override_response"] = rows[t][i]["override_response"]
              BY <3>3, <3>5, <4>2
        <5>2. revised' = revised
              BY <1>4, <4>2
        <5> QED
            BY <3>2, <5>1, <5>2 DEF Sound, Answers
      <4> QED
          BY <4>1, <4>2
    <3>8. Sound(row, nulled, i \in revised')
          BY <3>5, <3>6, <3>7 DEF Sound
    <3>9. \A k \in DOMAIN rows[t] \ {i} : Sound(rows[t][k], nulled, k \in revised')
      <4>1. \A k \in DOMAIN rows[t] : Sound(rows[t][k], nulled, k \in revised)
            BY <2>3 DEF ActionInv
      <4>2. \A k : k # i => (k \in revised' <=> k \in revised)
            BY <1>4
      <4> HIDE DEF t, i
      <4> QED
          BY <4>1, <4>2 DEF Sound
    <3>10. Stored("policies", g)
          BY <1>4, <2>3
    <3> HIDE DEF row, g, t, i
    <3>11. \A k \in DOMAIN g : Sound(g[k], nulled, k \in revised')
          BY <3>1, <3>8, <3>9
    <3> QED
        BY <3>10, <3>11, <1>1, <1>2, ActionWritten
  <2> QED
      BY <2>2, <2>3
<1> QED
    BY <1>3, <1>4 DEF FinishUpdate

LEMMA RemoveAction ==
  ASSUME TypeInv, ActionInv, NEW t \in Keyed, NEW ids, Remove(t, ids)
  PROVE  ActionInv'
<1> DEFINE g == [k \in DOMAIN rows[t] \ ids |-> rows[t][k]]
<1>1. /\ Stored(t, g) /\ UNCHANGED <<legacy, put, nulled, default_action, upd>>
      /\ revised' = IF t = "policies" THEN revised \ ids ELSE revised
      BY DEF Remove, ApiFrame, dnsVars
<1>2. UpdSound'
      BY <1>1, UpdSoundSame DEF ActionInv
<1>3. DOMAIN g = DOMAIN rows[t] \ ids /\ \A k \in DOMAIN g : g[k] = rows[t][k]
      OBVIOUS
<1> HIDE DEF g
<1>4. CASE t # "policies"
  <2>1. rows'["policies"] = rows["policies"] /\ UNCHANGED revised
        BY <1>1, <1>4, TablesNamed DEF Stored, TypeInv, Keyed
  <2> QED
      BY <2>1, <1>1, <1>2, ActionSame
<1>5. CASE t = "policies"
  <2>1. \A k \in DOMAIN rows[t] : Sound(rows[t][k], nulled, k \in revised)
        BY <1>5 DEF ActionInv
  <2>2. \A k \in DOMAIN g : k \in revised' <=> k \in revised
        BY <1>1, <1>3, <1>5
  <2>3. \A k \in DOMAIN g : Sound(g[k], nulled, k \in revised')
        BY <1>3, <2>1, <2>2 DEF Sound
  <2> QED
      BY <1>1, <1>2, <1>5, <2>3, ActionWritten
<1> QED
    BY <1>4, <1>5

(* A request that puts settings.                                           *)
LEMMA SettingsAction ==
  ASSUME TypeInv, ActionInv, NEW b, UpdateSettings(b)
  PROVE  ActionInv'
<1>1. /\ rows'["policies"] = rows["policies"]
      /\ UNCHANGED <<legacy, revised, default_action, upd>>
      /\ put' = Merge(b, put)
      /\ nulled' = (nulled \/ \E k \in DOMAIN b \cap {"default_action"} : b[k] = Null)
      BY TablesNamed DEF UpdateSettings, Stored, ApiFrame, dnsVars, TypeInv, Keyed
<1>2. nulled' \in BOOLEAN /\ (nulled => nulled')
      BY <1>1, Zenon DEF ActionInv, NulledInv
<1>3. ("default_action" \in DOMAIN put' /\ put'["default_action"] = Null) => nulled'
  <2> DEFINE k == "default_action"
  <2>1. CASE k \in DOMAIN b
    <3>1. put'[k] = b[k]
          BY <1>1, <2>1 DEF Merge
    <3> QED
        BY <1>1, <2>1, <3>1
  <2>2. CASE k \notin DOMAIN b
    <3>1. /\ k \in DOMAIN put' => k \in DOMAIN put
          /\ k \in DOMAIN put => put'[k] = put[k]
          BY <1>1, <2>2 DEF Merge
    <3> QED
        BY <1>2, <3>1 DEF ActionInv, NulledInv
  <2> QED
      BY <2>1, <2>2
<1>4. NulledInv' /\ OldSound'
      BY <1>1, <1>2, <1>3 DEF NulledInv, ActionInv, OldSound
<1>5. UpdSound'
      BY <1>1, UpdSoundSame DEF ActionInv
<1>6. DefaultOK(default_action', nulled')
      BY <1>1, <1>2 DEF ActionInv, DefaultOK
<1>7. ASSUME NEW i \in DOMAIN rows'["policies"]
      PROVE  Sound(rows'["policies"][i], nulled', i \in revised')
  <2>1. Sound(rows["policies"][i], nulled, i \in revised)
        BY <1>1 DEF ActionInv
  <2> QED
      BY <1>1, <1>2, <2>1 DEF Sound, ActionOK
<1> QED
    BY <1>4, <1>5, <1>6, <1>7 DEF ActionInv

(* The old policies and initdb's defaults.                                 *)
LEMMA InsertAction ==
  ASSUME MoveInv, ActionInv, InsertRows
  PROVE  ActionInv'
<1> DEFINE t == TableOrder[next]
           g == Merge(legacy[t], rows[t])
           taken == \/ DOMAIN rows[t] \cap DOMAIN legacy[t] # {}
                    \/ \E i \in DOMAIN legacy[t] : Clash(t, i, legacy[t][i])
<1>1. UNCHANGED <<legacy, put, nulled, revised, default_action, upd>>
      BY DEF InsertRows, InitFrame, apiVars, dnsVars
<1>2. UpdSound'
      BY <1>1, UpdSoundSame DEF ActionInv
<1>3. CASE taken
      BY <1>1, <1>2, <1>3, ActionSame DEF InsertRows
<1>4. CASE ~taken
  <2>1. Stored(t, g)
        BY <1>4 DEF InsertRows
  <2>2. CASE t # "policies"
    <3>1. rows'["policies"] = rows["policies"]
          BY <2>1, <2>2, TablesNamed DEF Stored, MoveInv, TypeInv, Keyed
    <3> QED
        BY <3>1, <1>1, <1>2, ActionSame
  <2>3. CASE t = "policies"
    <3>1. \A i \in DOMAIN legacy[t] : ~Clash(t, i, legacy[t][i])
          BY <1>4
    <3>2. /\ DOMAIN g = DOMAIN legacy[t] \cup DOMAIN rows[t]
          /\ \A k \in DOMAIN g :
               g[k] = IF k \in DOMAIN legacy[t] THEN legacy[t][k] ELSE rows[t][k]
          BY DEF Merge
    <3> HIDE DEF t, g
    <3>3. ASSUME NEW k \in DOMAIN legacy[t] PROVE Sound(legacy[t][k], nulled, k \in revised)
      <4>1. /\ {"action", "override_response"} \subseteq DOMAIN legacy[t][k]
            /\ legacy[t][k].action \in Optional(VALID_ACTIONS)
            /\ legacy[t][k].action = "override" => Answers(legacy[t][k])
            BY <2>3 DEF ActionInv, OldSound
      <4>2. "action" \in Schema[t].not_null
            BY <2>3 DEF Schema, Policy
      <4>3. legacy[t][k]["action"] # Null
            BY <3>1, <4>2 DEF Clash
      <4> QED
          BY <4>1, <4>3 DEF Sound, ActionOK, Optional
    <3>4. \A k \in DOMAIN rows[t] : Sound(rows[t][k], nulled, k \in revised)
          BY <2>3 DEF ActionInv
    <3>5. \A k \in DOMAIN g : Sound(g[k], nulled, k \in revised)
          BY <3>2, <3>3, <3>4
    <3>6. \A k \in DOMAIN g : Sound(g[k], nulled, k \in revised')
          BY <1>1, <3>5
    <3> QED
        BY <1>1, <1>2, <2>1, <2>3, <3>6, ActionWritten DEF MoveInv
  <2> QED
      BY <2>2, <2>3
<1> QED
    BY <1>3, <1>4

LEMMA ActionStep == MoveInv /\ SettingsInv /\ ActionInv /\ [Next]_vars => ActionInv'
<1> SUFFICES ASSUME MoveInv, SettingsInv, ActionInv, [Next]_vars PROVE ActionInv'
    OBVIOUS
<1>0. TypeInv
      BY DEF MoveInv
<1>1. ASSUME rows'["policies"] = rows["policies"], upd' = upd \/ upd' = NoUpdate,
             UNCHANGED <<legacy, put, nulled, revised>>,
             default_action' = default_action \/ DefaultOK(default_action', nulled)
      PROVE  ActionInv'
  <2>1. UpdSound'
        BY <1>1, UpdSoundSame DEF ActionInv
  <2> QED
      BY <1>1, <2>1, ActionSame
<1>2. CASE \/ CreateAll \/ CountTarget \/ RenameLegacy \/ EnsureColumn \/ AlterFirstSeen
           \/ Backfill \/ LookForRows \/ InitDbFails \/ UNCHANGED vars
  <2>1. UNCHANGED <<rows, legacy, put, nulled, revised, default_action, upd>>
        BY <1>2 DEF CreateAll, CountTarget, RenameLegacy, EnsureColumn, AlterFirstSeen,
           Backfill, LookForRows, InitDbFails, InitFrame, apiVars, dnsVars, vars
  <2> QED
      BY <2>1, <1>1
<1>3. CASE PlantDefault
  <2> DEFINE d == Defaults[next]
  <2>1. next \in 1..2 /\ UNCHANGED <<legacy, put, nulled, revised, default_action, upd>>
        BY <1>3 DEF PlantDefault, InitFrame, apiVars, dnsVars, MoveInv, CopyInv
  <2>2. d.table # "policies"
        BY <2>1 DEF Defaults
  <2> HIDE DEF d
  <2>3. rows' = rows \/ rows' = [rows EXCEPT ![d.table] = Add(rows[d.table], d.row)]
        BY <1>3 DEF PlantDefault, Stored, d
  <2>4. rows'["policies"] = rows["policies"]
        BY <2>2, <2>3, <1>0, TablesNamed DEF TypeInv, Keyed
  <2> QED
      BY <2>1, <2>4, <1>1
<1>4. CASE BuildState \/ Reload
  <2>1. UNCHANGED <<rows, legacy, put, nulled, revised, upd>>
        BY <1>4 DEF BuildState, Reload, DnsFrame, apiVars
  <2>2. \/ default_action' = default_action
        \/ default_action' = load_runtime_settings["default_action"]
        BY <1>4 DEF BuildState, Reload, dnsVars
  <2>3. DefaultOK(load_runtime_settings["default_action"], nulled)
        BY DefaultRead DEF ActionInv
  <2> QED
      BY <2>1, <2>2, <2>3, <1>1
<1>5. CASE FlushQueryLog
  <2>1. UNCHANGED <<legacy, put, nulled, revised, default_action, upd>>
        BY <1>5 DEF FlushQueryLog, DnsFrame, apiVars, dnsVars
  <2>2. rows' = rows \/ \E f : Stored("query_log", f)
        BY <1>5 DEF FlushQueryLog
  <2>3. rows'["policies"] = rows["policies"]
        BY <2>2, <1>0, TablesNamed DEF Stored, TypeInv, Keyed
  <2> QED
      BY <2>1, <2>3, <1>1
<1>6. CASE Restart
  <2>1. UNCHANGED <<rows, legacy, put, nulled, revised>> /\ upd' = NoUpdate
        BY <1>6 DEF Restart
  <2>2. default_action' = "forward"
        BY <1>6 DEF Restart, RuntimeSettings
  <2> QED
      BY <2>1, <2>2, <1>1 DEF DefaultOK
<1>7. CASE \E c \in check_client \ {"*"} : Discover(c)
      BY <1>0, <1>7, DiscoverAction
<1>8. CASE Api
  <2>1. CASE \E t \in DOMAIN Creates : \E b \in Creates[t] : Create(t, b)
        BY <1>0, <2>1, CreateAction
  <2>2. CASE \E t \in DOMAIN Updates : \E i \in DOMAIN rows[t], b \in Updates[t] :
               BeginUpdate(t, i, b)
        BY <2>2, UpdateAction
  <2>3. CASE \E i \in DOMAIN rows["hosts"], reply \in Replies : SyncHost(i, reply)
    <3>1. PICK i, b : Load("hosts", i, b)
          BY <2>3 DEF SyncHost
    <3> QED
        BY <3>1, LoadAction
  <2>4. CASE FinishUpdate
        BY <1>0, <2>4, FinishAction
  <2>5. CASE \E c \in check_client \ {"*"}, b \in Modes : SetClientMode(c, b)
        BY <1>0, <2>5, ModeAction
  <2>6. CASE \E t \in DOMAIN Creates : \E i \in DOMAIN rows[t] : Delete(t, i)
        BY <1>0, <2>6, RemoveAction, TablesNamed DEF Delete
  <2>7. CASE ResetQueryLog
        BY <1>0, <2>7, RemoveAction, TablesNamed DEF ResetQueryLog
  <2>8. CASE \E b \in Puts : UpdateSettings(b)
        BY <1>0, <2>8, SettingsAction
  <2>9. CASE RequestFlush
    <3>1. rows'["policies"] = rows["policies"]
          BY <2>9, <1>0, TablesNamed DEF RequestFlush, Stored, TypeInv, Keyed
    <3>2. UNCHANGED <<legacy, put, nulled, revised, default_action, upd>>
          BY <2>9 DEF RequestFlush, ApiFrame, dnsVars
    <3> QED
        BY <3>1, <3>2, <1>1
  <2> QED
      BY <1>8, <2>1, <2>2, <2>3, <2>4, <2>5, <2>6, <2>7, <2>8, <2>9 DEF Api
<1> QED
    BY <1>2, <1>3, <1>4, <1>5, <1>6, <1>7, <1>8, InsertAction DEF Next, InitDb, Dns

LEMMA ActionInit == Init => ActionInv
<1> SUFFICES ASSUME Init PROVE ActionInv
    OBVIOUS
<1>1. NulledInv /\ UpdSound
  <2>1. nulled = FALSE /\ put = <<>> /\ upd = NoUpdate
        BY DEF Init
  <2>2. DOMAIN put = {}
        BY <2>1
  <2>3. NulledInv
        BY <2>1, <2>2, Zenon DEF NulledInv
  <2> QED
      BY <2>1, <2>3 DEF UpdSound
<1>2. OldSound
  <2>1. CASE legacy \in LegacyFiles
        BY <2>1, LegacyAssumption DEF OldSound
  <2>2. CASE legacy = [t \in Tables |-> <<>>]
    <3>1. DOMAIN legacy["policies"] = {} /\ DOMAIN legacy["app_settings"] = {}
          BY <2>2, TablesNamed DEF Keyed
    <3> QED
        BY <3>1 DEF OldSound
  <2> QED
      BY <2>1, <2>2 DEF Init
<1>3. default_action = "forward"
      BY DEF Init, RuntimeSettings
<1>4. DOMAIN rows["policies"] = {}
  <2>1. "policies" \in Tables /\ "policies" # "hosts"
        BY TablesNamed DEF Keyed
  <2>2. rows["policies"] = <<>>
        BY <2>1 DEF Init
  <2> QED
      BY <2>2
<1> QED
    BY <1>1, <1>2, <1>3, <1>4 DEF ActionInv, DefaultOK

(* The configuration stays usable: for any old database, requests,         *)
(* discoveries, stops and failures, every stored row has the values that   *)
(* the DNS worker and the downloaders rely on, no client has two policies  *)
(* for a domain, every policy has one of the four actions and an override  *)
(* has an answer - but for a discovery after default_action was put as     *)
(* null, and for an update that takes the answer away.                     *)
THEOREM RowsTheorem == Spec => []RowsUsable
<1>1. UsableInv /\ ActionInv => RowsUsable
  <2> SUFFICES ASSUME UsableInv, ActionInv PROVE RowsUsable
      OBVIOUS
  <2>1. "policies" \in DOMAIN Needs
        BY NeedsNames
  <2>2. Distinct(rows["policies"])
        BY <2>1 DEF UsableInv, TableOK
  <2>3. \A t \in DOMAIN Needs : \A i \in DOMAIN rows[t] :
          \A c \in DOMAIN Needs[t] : rows[t][i][c] \in Needs[t][c]
        BY DEF UsableInv, TableOK, Usable
  <2>4. \A i \in DOMAIN rows["policies"] :
          LET p == rows["policies"][i]
          IN  /\ p.action \in VALID_ACTIONS \/ (p.action = "None" /\ nulled)
              /\ p.action = "override" => (Answers(p) \/ i \in revised)
        BY DEF ActionInv, Sound, ActionOK
  <2> QED
      BY <2>2, <2>3, <2>4 DEF Distinct, RowsUsable
<1> QED
    BY <1>1, UsableInit, UsableStep, ActionInit, ActionStep, MoveInvariant,
       SettingsInvariant, PTL DEF Spec
=============================================================================
