--------------------------- MODULE LegacyMigration ---------------------------
(***************************************************************************)
(* What the move from the old single database to the per-purpose files     *)
(* promises, whatever restarts, failures and other writers come between    *)
(* its steps (_migrate_legacy_database: "One-time and idempotent ... copies *)
(* each table ... then renames the legacy file aside").  There are two     *)
(* kinds of actors: the mover, whose steps show in its own state, and the  *)
(* others, who never touch that state.  The others may write what they     *)
(* like; to the tables the mover may do two things only, TakeOver and      *)
(* Plant.                                                                  *)
(***************************************************************************)
CONSTANT Tables

VARIABLES
  rows,      \* per table: a function from keys to rows
  legacy,    \* the same for the old file
  file,      \* "present" until the old file has been set aside
  settled,   \* the tables whose old rows have been dealt with
  mover      \* the mover's own state: its place, and what it remembers

vars == <<rows, legacy, file, settled, mover>>

Init ==
  /\ DOMAIN rows = Tables /\ DOMAIN legacy = Tables
  /\ file \in {"present", "absent"}
  /\ settled \subseteq Tables

(* A process other than the mover changes a table as it likes.  If it is   *)
(* the first to write there, that is the end of the copying of the table.  *)
Write(t) ==
  /\ rows'[t] # rows[t]
  /\ rows' = [rows EXCEPT ![t] = rows'[t]]
  /\ settled' = settled \cup {t}
  /\ UNCHANGED <<legacy, file, mover>>

(* The mover copies a table: all its old rows arrive at once, on keys not  *)
(* in use, and the rows that are there stay as they are.                   *)
TakeOver(t) ==
  /\ file = "present" /\ mover' # mover
  /\ DOMAIN rows[t] \cap DOMAIN legacy[t] = {}
  /\ rows' = [rows EXCEPT ![t] =
       [k \in DOMAIN rows[t] \cup DOMAIN legacy[t] |->
          IF k \in DOMAIN rows[t] THEN rows[t][k] ELSE legacy[t][k]]]
  /\ settled' = settled \cup {t}
  /\ UNCHANGED <<legacy, file>>

(* The mover adds a default, one row on a key not in use, to a table whose *)
(* old rows are dealt with.                                                *)
Plant(t) ==
  /\ t \in settled /\ mover' # mover
  /\ \E k \in DOMAIN rows'[t] \ DOMAIN rows[t] :
       rows' = [rows EXCEPT ![t] = [j \in DOMAIN rows[t] \cup {k} |->
                  IF j = k THEN rows'[t][k] ELSE rows[t][j]]]
  /\ UNCHANGED <<legacy, file, settled>>

SetAside ==
  /\ file = "present" /\ settled = Tables /\ mover' # mover
  /\ file' = "absent"
  /\ UNCHANGED <<rows, legacy, settled>>

(* Whatever else the mover does, or its restart does to it.                *)
Move == mover' # mover /\ UNCHANGED <<rows, legacy, file, settled>>

Next ==
  \/ \E t \in Tables : Write(t) \/ TakeOver(t) \/ Plant(t)
  \/ SetAside \/ Move

Spec == Init /\ [][Next]_vars
=============================================================================
