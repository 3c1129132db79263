----------------------------- MODULE SchemaCheck -----------------------------
(* The drift check (crates/store/src/schema_check.rs) at work on the database *)
(* that Migration's processes bring up: it goes through the tables one query  *)
(* after the other and compares the columns it finds with those the entities  *)
(* declare, while migrations run, fail and start again.                       *)
EXTENDS Migration

CONSTANT Drifts     \* table -> columns, of tables that were there before

VARIABLES
    shape,      \* table -> the columns it has where it exists, for good
    chk         \* the check: phase, number of its table, columns it has read,
                \* was the version there at its start?, last answer

checkVars == <<shape, chk>>

-----------------------------------------------------------------------------
(* Columns                                                                   *)

ColumnShape(name, not_null, is_primary_key) ==
    [name |-> name, not_null |-> not_null, is_primary_key |-> is_primary_key]

\* The columns of a table: there is one of a name.
AreColumns(columns) ==
    /\ \A c \in columns : /\ c = ColumnShape(c.name, c.not_null, c.is_primary_key)
                          /\ {c.not_null, c.is_primary_key} \subseteq BOOLEAN
    /\ \A c, d \in columns : c.name = d.name => c = d

ASSUME DriftsAssumption ==
    \A drift \in Drifts : \A table \in DOMAIN drift : AreColumns(drift[table])

Columns(not_null, nullable, keys) ==
    {ColumnShape(name, name \in not_null, name \in keys) : name \in not_null \cup nullable}

\* What the migration creates ...
groups_columns   == Columns({"id", "display_name", "config_json", "active", "created_at",
                             "updated_at"}, {}, {"id"})
messages_columns == Columns({"seq", "id", "group_id", "channel_id", "sender", "content",
                             "created_at"}, {}, {"seq"})
tasks_columns    == Columns({"id", "group_id", "prompt", "schedule_kind", "schedule_value",
                             "status", "created_at", "updated_at"},
                            {"next_run", "last_result"}, {"id"})
state_columns    == Columns({"key", "value", "updated_at"}, {}, {"key"})
sessions_columns == Columns({"group_id", "session_id", "updated_at"}, {}, {"group_id"})
events_columns   == Columns({"id", "kind", "payload", "created_at"}, {"group_id"}, {"id"})

created == [groups |-> groups_columns, messages |-> messages_columns, tasks |-> tasks_columns,
            state |-> state_columns, sessions |-> sessions_columns, events |-> events_columns]

\* Mutant: a message without a channel is let in.
messages_Model_NoChannel == Columns({"seq", "id", "group_id", "sender", "content", "created_at"},
                                    {"channel_id"}, {"seq"})

\* ... and what the entities declare: fields that are Options are nullable.
groups_Model   == Columns({"id", "display_name", "config_json", "active", "created_at",
                           "updated_at"}, {}, {"id"})
messages_Model == Columns({"seq", "id", "group_id", "channel_id", "sender", "content",
                           "created_at"}, {}, {"seq"})
tasks_Model    == Columns({"id", "group_id", "prompt", "schedule_kind", "schedule_value",
                           "status", "created_at", "updated_at"},
                          {"next_run", "last_result"}, {"id"})
state_Model    == Columns({"key", "value", "updated_at"}, {}, {"key"})
sessions_Model == Columns({"group_id", "session_id", "updated_at"}, {}, {"group_id"})
events_Model   == Columns({"id", "kind", "payload", "created_at"}, {"group_id"}, {"id"})

expected_shape ==
    [groups |-> groups_Model, messages |-> messages_Model, tasks |-> tasks_Model,
     state |-> state_Model, sessions |-> sessions_Model, events |-> events_Model]

TableNames == DOMAIN created

-----------------------------------------------------------------------------
(* The check                                                                 *)

check == <<"messages", "groups", "tasks", "state", "sessions", "events">>

Table == check[chk.at]

\* The columns that are seen of a table: none of one that is not there.
Live(table) == IF table \in schema THEN shape[table] ELSE {}

Begun == [phase |-> "columns", at |-> 1, read |-> {}, migrated |-> recorded, answer |-> "none"]

CheckInit ==
    /\ Init
    /\ \E drift \in Drifts :
          shape = [t \in TableNames |-> IF t \in before \cap DOMAIN drift THEN drift[t] ELSE created[t]]
    /\ chk = [Begun EXCEPT !.phase = "idle"]

StartCheck ==
    /\ chk.phase = "idle"
    /\ chk' = Begun
    /\ UNCHANGED shape

Answer(answer) == chk' = [chk EXCEPT !.phase = "idle", !.read = {}, !.answer = answer]

\* Mutant: only what is missing in the database is looked for.
check_entity_Missing(actual) ==
    CASE expected_shape[Table] \ actual # {} -> Answer("drift")
      [] OTHER -> IF chk.at = Len(check) THEN Answer("ok")
                  ELSE chk' = [chk EXCEPT !.phase = "columns", !.at = chk.at + 1, !.read = {}]

check_entity(actual) ==
    CASE expected_shape[Table] # actual -> Answer("drift")
      [] OTHER -> IF chk.at = Len(check) THEN Answer("ok")
                  ELSE chk' = [chk EXCEPT !.phase = "columns", !.at = chk.at + 1, !.read = {}]

\* One query, PRAGMA table_info, for all of a column.
actual_shape_sqlite ==
    /\ backend = "sqlite"
    /\ chk.phase = "columns"
    /\ check_entity(Live(Table))
    /\ UNCHANGED shape

Unkeyed(columns) == {[c EXCEPT !.is_primary_key = FALSE] : c \in columns}

Keyed(columns, pk_names) == {[c EXCEPT !.is_primary_key = c.name \in pk_names] : c \in columns}

pk_names_of(columns) == {c.name : c \in {d \in columns : d.is_primary_key}}

\* A first query for the columns and whether they are nullable ...
ReadColumns ==
    /\ backend = "postgres"
    /\ chk.phase = "columns"
    /\ chk' = [chk EXCEPT !.phase = "keys", !.read = Unkeyed(Live(Table))]
    /\ UNCHANGED shape

\* ... and a second one, later, for the columns of the primary key.
ReadKeys ==
    /\ chk.phase = "keys"
    /\ check_entity(Keyed(chk.read, pk_names_of(Live(Table))))
    /\ UNCHANGED shape

\* A query fails: a database error and no answer about the schema.  That the
\* catalogue answers in types other than the query's (schema_drift_err) is left out.
QueryFails ==
    /\ chk.phase # "idle"
    /\ Answer("failed")
    /\ UNCHANGED shape

CheckStep == StartCheck \/ actual_shape_sqlite \/ ReadColumns \/ ReadKeys \/ QueryFails

CheckNext ==
    \/ Next /\ UNCHANGED checkVars
    \/ CheckStep /\ UNCHANGED vars

CheckSpec == CheckInit /\ [][CheckNext]_<<vars, checkVars>>

LiveCheckSpec == CheckSpec /\ Fairness

-----------------------------------------------------------------------------
(* Properties                                                                *)

CheckTypeOK ==
    /\ DOMAIN shape = TableNames /\ \A table \in TableNames : AreColumns(shape[table])
    /\ chk \in [phase : {"idle", "columns", "keys"}, at : 1..Len(check), migrated : BOOLEAN,
                read : {{}} \cup {Unkeyed(shape[table]) : table \in TableNames},
                answer : {"none", "ok", "drift", "failed"}]
    /\ chk.phase # "idle" => chk.answer = "none"

\* An Ok is true of all tables at once, although they are read one by one
\* while migrations go on and are rolled back: each is there, with the columns
\* its entity declares.
OkMeansShape ==
    chk.answer = "ok" =>
        \A table \in TableNames : table \in schema /\ shape[table] = expected_shape[table]

\* Drift reported by a check that began on a migrated database is none of the
\* migration's: IF NOT EXISTS took a table of another shape that was there.
DriftWasThereBefore ==
    chk.answer = "drift" /\ chk.migrated => Table \in before /\ shape[Table] # created[Table]

\* Why the two hold.  A table is of another shape only if it was there before.
OwnShape == \A table \in TableNames \ before : shape[table] = created[table]

\* What the check has behind it, it has found there, and it stays.
PassedIsThere ==
    \A i \in 1..Len(check) :
        chk.answer = "ok" \/ (chk.phase # "idle" /\ i < chk.at) =>
            check[i] \in schema /\ shape[check[i]] = expected_shape[check[i]]

\* Between its two queries it has read a table that is there, or none.
HalfRead ==
    chk.phase = "keys" =>
        \/ Table \in schema /\ chk.read = Unkeyed(shape[Table])
        \/ ~chk.migrated /\ chk.read = {}

MigratedIsRecorded == chk.migrated => recorded

CheckIndInv ==
    CheckTypeOK /\ OwnShape /\ PassedIsThere /\ HalfRead /\ MigratedIsRecorded /\ DriftWasThereBefore
=============================================================================
