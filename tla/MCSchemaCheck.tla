---------------------------- MODULE MCSchemaCheck ----------------------------
(* Small instances of Migration with SchemaCheck.                             *)
EXTENDS SchemaCheck

CONSTANTS p1, p2

\* Nothing, and the names tests/migration_restart.rs puts there.
SomePreseeded ==
    {{}, {"groups", "messages", "messages_group_seq_idx", "events", "events_created_idx"}}

\* As the migration would have made them, with the messages of
\* tests/migration_restart.rs:27-35 (whose seq is not NOT NULL), with a column
\* too few or too many, without a primary key.
SomeDrifts ==
    { <<>>,
      [messages |-> Columns({"id", "group_id", "channel_id", "sender", "content", "created_at"},
                            {"seq"}, {"seq"})],
      [groups |-> {c \in groups_columns : c.name # "active"}],
      [events |-> events_columns \cup {ColumnShape("seq", FALSE, FALSE)}],
      [events |-> {[c EXCEPT !.is_primary_key = FALSE] : c \in events_columns}] }
=============================================================================
