-------------------------- MODULE SchemaCheckProofs --------------------------
(* Theorems about SchemaCheck, for any number of processes that migrate, both *)
(* back ends and every shape of the tables that were there before.            *)
EXTENDS SchemaCheck, MigrationProofs

-----------------------------------------------------------------------------
(* Tables and columns                                                        *)

\* The elements of two lists are those of one behind the other.
LEMMA ElementsOfBoth ==
  ASSUME NEW s, NEW t, IsList(s), IsList(t)
  PROVE  ToSet(s) \subseteq ToSet(s \o t) /\ ToSet(t) \subseteq ToSet(s \o t)
<1>1. PICK S : s \in Seq(S)
  BY DEF IsList
<1>2. PICK T : t \in Seq(T)
  BY DEF IsList
<1>3. s \in Seq(S \cup T) /\ t \in Seq(S \cup T)
  BY <1>1, <1>2
<1> DEFINE q == s \o t
<1>4. /\ DOMAIN s = 1..Len(s) /\ DOMAIN t = 1..Len(t) /\ DOMAIN q = 1..(Len(s) + Len(t))
      /\ Len(s) \in Nat /\ Len(t) \in Nat
  BY <1>3
<1>5. ASSUME NEW i \in 1..Len(s) PROVE i \in DOMAIN q /\ q[i] = s[i]
  BY <1>3, <1>4
<1>6. ASSUME NEW i \in 1..Len(t) PROVE \E j \in DOMAIN q : q[j] = t[i]
  <2> DEFINE j == Len(s) + i
  <2>1. j \in DOMAIN q /\ q[j] = t[i]
    BY <1>3, <1>4
  <2>2. QED
    BY <2>1
<1> HIDE DEF q
<1>7. ToSet(s) \subseteq ToSet(q)
  BY <1>4, <1>5 DEF ToSet
<1>8. ToSet(t) \subseteq ToSet(q)
  BY <1>4, <1>6 DEF ToSet
<1>9. QED
  BY <1>7, <1>8 DEF q

\* A list begins with its first element.
LEMMA FirstIsIn ==
  /\ \A a : a \in ToSet(<<a>>)
  /\ \A a, b : a \in ToSet(<<a, b>>)
  /\ \A a, b, c, d : a \in ToSet(<<a, b, c, d>>)
BY DEF ToSet

LEMMA ListsOfNames ==
  /\ \A a : IsList(<<a>>)
  /\ \A a, b : IsList(<<a, b>>)
  /\ \A a, b, c, d : IsList(<<a, b, c, d>>)
<1>1. ASSUME NEW a, NEW b, NEW c, NEW d
      PROVE  IsList(<<a>>) /\ IsList(<<a, b>>) /\ IsList(<<a, b, c, d>>)
  <2>1. <<a>> \in Seq({a}) /\ <<a, b>> \in Seq({a, b}) /\ <<a, b, c, d>> \in Seq({a, b, c, d})
    OBVIOUS
  <2>2. QED
    BY <2>1 DEF IsList
<1>2. QED
  BY <1>1

LEMMA Tables == TableNames = {"groups", "messages", "tasks", "state", "sessions", "events"}
BY DEF TableNames, created

\* The migration creates every table.
LEMMA TablesAreObjects == TableNames \subseteq Objects
<1> DEFINE a == create_groups \o create_messages
           b == a \o create_tasks
           c == b \o create_state
           d == c \o create_sessions
<1>1. /\ IsList(create_groups) /\ IsList(create_messages) /\ IsList(create_tasks)
      /\ IsList(create_state) /\ IsList(create_sessions) /\ IsList(create_events)
      /\ IsList(<<"seaql_migrations">>)
  BY ListsOfNames DEF create_groups, create_messages, create_tasks, create_state, create_sessions,
     create_events
<1>2. /\ "groups" \in ToSet(create_groups) /\ "messages" \in ToSet(create_messages)
      /\ "tasks" \in ToSet(create_tasks) /\ "state" \in ToSet(create_state)
      /\ "sessions" \in ToSet(create_sessions) /\ "events" \in ToSet(create_events)
  BY FirstIsIn DEF create_groups, create_messages, create_tasks, create_state, create_sessions,
     create_events
<1>3. up = d \o create_events
  BY DEF up
<1>4. /\ IsList(a) /\ ToSet(create_groups) \subseteq ToSet(a)
      /\ ToSet(create_messages) \subseteq ToSet(a)
  BY <1>1, Concatenation, ElementsOfBoth
<1> HIDE DEF a
<1>5. IsList(b) /\ ToSet(a) \subseteq ToSet(b) /\ ToSet(create_tasks) \subseteq ToSet(b)
  BY <1>1, <1>4, Concatenation, ElementsOfBoth
<1> HIDE DEF b
<1>6. IsList(c) /\ ToSet(b) \subseteq ToSet(c) /\ ToSet(create_state) \subseteq ToSet(c)
  BY <1>1, <1>5, Concatenation, ElementsOfBoth
<1> HIDE DEF c
<1>7. IsList(d) /\ ToSet(c) \subseteq ToSet(d) /\ ToSet(create_sessions) \subseteq ToSet(d)
  BY <1>1, <1>6, Concatenation, ElementsOfBoth
<1> HIDE DEF d
<1>8. IsList(up) /\ ToSet(d) \subseteq ToSet(up) /\ ToSet(create_events) \subseteq ToSet(up)
  BY <1>1, <1>3, <1>7, Concatenation, ElementsOfBoth
<1>9. ToSet(up) \subseteq Objects
  BY <1>1, <1>8, ElementsOfBoth DEF Objects, Statements
<1>10. QED
  BY <1>2, <1>4, <1>5, <1>6, <1>7, <1>8, <1>9, Tables

\* Columns of different names are columns of a table.
LEMMA ColumnsAreColumns ==
  ASSUME NEW A, NEW B, NEW K, A # {}
  PROVE  Columns(A, B, K) # {} /\ AreColumns(Columns(A, B, K))
<1> DEFINE Shape(name) == ColumnShape(name, name \in A, name \in K)
<1>1. Columns(A, B, K) = {Shape(name) : name \in A \cup B}
  BY DEF Columns
<1>2. ASSUME NEW name
      PROVE  /\ Shape(name).name = name
             /\ Shape(name) = ColumnShape(Shape(name).name, Shape(name).not_null,
                                          Shape(name).is_primary_key)
             /\ {Shape(name).not_null, Shape(name).is_primary_key} \subseteq BOOLEAN
  BY DEF ColumnShape
<1> HIDE DEF Shape
<1>3. QED
  BY <1>1, <1>2 DEF AreColumns

\* What the migration creates is what the entities declare, and not nothing.
LEMMA CreatedIsExpected ==
  /\ expected_shape = created
  /\ \A table \in TableNames : created[table] # {} /\ AreColumns(created[table])
<1>1. expected_shape = created
  BY DEF expected_shape, created, groups_Model, messages_Model, tasks_Model, state_Model,
     sessions_Model, events_Model, groups_columns, messages_columns, tasks_columns, state_columns,
     sessions_columns, events_columns
<1> DEFINE Fine(columns) == columns # {} /\ AreColumns(columns)
<1>2. Fine(groups_columns)
  BY ColumnsAreColumns DEF groups_columns
<1>3. Fine(messages_columns)
  BY ColumnsAreColumns DEF messages_columns
<1>4. Fine(tasks_columns)
  BY ColumnsAreColumns DEF tasks_columns
<1>5. Fine(state_columns)
  BY ColumnsAreColumns DEF state_columns
<1>6. Fine(sessions_columns)
  BY ColumnsAreColumns DEF sessions_columns
<1>7. Fine(events_columns)
  BY ColumnsAreColumns DEF events_columns
<1> HIDE DEF Fine
<1>8. \A table \in TableNames : Fine(created[table])
  BY <1>2, <1>3, <1>4, <1>5, <1>6, <1>7, Tables DEF created
<1>9. QED
  BY <1>1, <1>8 DEF Fine

\* The check goes through the tables, all of them.
LEMMA CheckGoesThroughAll ==
  /\ Len(check) = 6
  /\ \A i \in 1..6 : check[i] \in TableNames
  /\ \A table \in TableNames : \E i \in 1..6 : check[i] = table
<1>1. Len(check) = 6
  BY DEF check
<1>2. /\ check[1] = "messages" /\ check[2] = "groups" /\ check[3] = "tasks"
      /\ check[4] = "state" /\ check[5] = "sessions" /\ check[6] = "events"
  BY DEF check
<1>3. \A i \in 1..6 : i = 1 \/ i = 2 \/ i = 3 \/ i = 4 \/ i = 5 \/ i = 6
  OBVIOUS
<1>4. 1 \in 1..6 /\ 2 \in 1..6 /\ 3 \in 1..6 /\ 4 \in 1..6 /\ 5 \in 1..6 /\ 6 \in 1..6
  OBVIOUS
<1>5. QED
  BY <1>1, <1>2, <1>3, <1>4, Tables

\* Read in two queries, the columns and then which of them are keys, a table
\* has the shape it has.
LEMMA ReadInTwo ==
  ASSUME NEW columns, AreColumns(columns)
  PROVE  Keyed(Unkeyed(columns), pk_names_of(columns)) = columns
<1> DEFINE keys == pk_names_of(columns)
           Keep(c) == [c EXCEPT !.is_primary_key = FALSE]
           Set(c) == [c EXCEPT !.is_primary_key = c.name \in keys]
<1>1. ASSUME NEW c \in columns PROVE (c.name \in keys) = c.is_primary_key
  <2>1. c.is_primary_key \in BOOLEAN
    BY DEF AreColumns
  <2>2. c.name \in keys <=> c.is_primary_key = TRUE
    BY <2>1 DEF pk_names_of, AreColumns
  <2>3. QED
    BY <2>1, <2>2
<1>2. ASSUME NEW c \in columns PROVE Set(Keep(c)) = c
  <2>1. PICK x, y, z : c = ColumnShape(x, y, z)
    BY DEF AreColumns
  <2>2. c.name = x /\ c.is_primary_key = z
    BY <2>1 DEF ColumnShape
  <2>3. \A p, q : /\ [ColumnShape(x, y, p) EXCEPT !.is_primary_key = q] = ColumnShape(x, y, q)
                  /\ ColumnShape(x, y, p).name = x
    BY DEF ColumnShape
  <2>4. Keep(c) = ColumnShape(x, y, FALSE)
    BY <2>1, <2>3
  <2>5. Set(Keep(c)) = ColumnShape(x, y, x \in keys)
    <3>1. Keep(c).name = x
      BY <2>3, <2>4
    <3> HIDE DEF Keep
    <3>2. Set(Keep(c)) = [ColumnShape(x, y, FALSE) EXCEPT !.is_primary_key = x \in keys]
      BY <2>4, <3>1, Zenon
    <3>3. QED
      BY <2>3, <3>2, Zenon
  <2>6. (x \in keys) = z
    BY <1>1, <2>2
  <2>7. QED
    BY <2>1, <2>5, <2>6
<1>3. /\ Unkeyed(columns) = {Keep(c) : c \in columns}
      /\ Keyed(Unkeyed(columns), keys) = {Set(c) : c \in Unkeyed(columns)}
  BY DEF Unkeyed, Keyed
<1> HIDE DEF Keep, Set, keys
<1>4. QED
  BY <1>2, <1>3 DEF keys

-----------------------------------------------------------------------------
(* Steps                                                                     *)

\* No step of a migration takes away what others have seen.
LEMMA SchemaGrows ==
  ASSUME [Next]_vars
  PROVE  schema \subseteq schema' /\ before' = before /\ (recorded => recorded')
<1>1. ASSUME NEW m \in Migrators, Begin(m) \/ migrate(m) \/ Fail(m)
      PROVE  schema \subseteq schema' /\ before' = before /\ (recorded => recorded')
  <2>1. CASE UpToDate(m) \/ CreateAlone(m) \/ Record(m) \/ Commit(m)
    BY <2>1 DEF UpToDate, CreateAlone, Record, Commit
  <2>2. CASE Begin(m) \/ ReadVersions(m) \/ Skip(m) \/ Look(m) \/ Create(m) \/ CreateClashes(m)
             \/ RecordClashes(m) \/ Fail(m)
    BY <2>2 DEF Begin, ReadVersions, Skip, Look, Create, CreateClashes, RecordClashes, Fail
  <2>3. QED
    BY <1>1, <2>1, <2>2 DEF migrate
<1>2. QED
  BY <1>1 DEF Next, vars

\* The record of the check, by its fields.
Check == [phase : {"idle", "columns", "keys"}, at : 1..Len(check), migrated : BOOLEAN,
          read : {{}} \cup {Unkeyed(shape[table]) : table \in TableNames},
          answer : {"none", "ok", "drift", "failed"}]

\* The table the check is at is one of them; on a migrated database it is there.
LEMMA AtATable ==
  ASSUME CheckTypeOK, MigratedIsRecorded, RecordedIsComplete
  PROVE  /\ chk \in Check /\ chk.at \in 1..6 /\ Table \in TableNames /\ AreColumns(shape[Table])
         /\ chk.migrated => Table \in schema
BY CheckGoesThroughAll, TablesAreObjects DEF CheckTypeOK, MigratedIsRecorded, RecordedIsComplete,
   Check, Table

\* The check's step, where the schema and the migrations stand still.
LEMMA StandStill ==
  ASSUME CheckIndInv, UNCHANGED vars, shape' = shape, chk' \in Check,
         chk'.phase # "idle" => chk'.answer = "none",
         PassedIsThere', HalfRead', MigratedIsRecorded', DriftWasThereBefore'
  PROVE  CheckIndInv'
BY DEF CheckIndInv, CheckTypeOK, OwnShape, vars, Check

\* A table that was read as it is, or not found on a database that was not
\* migrated, is judged rightly.
LEMMA JudgedRightly ==
  ASSUME CheckIndInv, RecordedIsComplete, UNCHANGED vars, shape' = shape, chk.phase # "idle",
         NEW actual, check_entity(actual),
         \/ actual = shape[Table] /\ Table \in schema
         \/ actual = {} /\ ~chk.migrated
  PROVE  CheckIndInv'
<1>0. /\ CheckTypeOK /\ OwnShape /\ PassedIsThere /\ HalfRead /\ MigratedIsRecorded
      /\ DriftWasThereBefore
  BY DEF CheckIndInv
<1>1. /\ chk \in Check /\ chk.at \in 1..6 /\ Len(check) = 6 /\ Table \in TableNames
      /\ Table = check[chk.at]
  BY <1>0, AtATable, CheckGoesThroughAll DEF Table
<1>2. expected_shape = created /\ expected_shape[Table] # {}
  BY <1>1, CreatedIsExpected
<1>3. CASE expected_shape[Table] # actual
  <2>1. chk' = [chk EXCEPT !.phase = "idle", !.read = {}, !.answer = "drift"]
    BY <1>3 DEF check_entity, Answer
  <2>2. /\ chk' \in Check /\ chk'.phase = "idle" /\ chk'.answer = "drift" /\ chk'.at = chk.at
        /\ chk'.migrated = chk.migrated
    BY <1>1, <2>1 DEF Check
  <2>3. PassedIsThere' /\ HalfRead' /\ MigratedIsRecorded'
    BY <1>0, <2>2 DEF PassedIsThere, HalfRead, MigratedIsRecorded, vars
  <2>4. chk.migrated => Table \in before /\ shape[Table] # created[Table]
    BY <1>0, <1>1, <1>2, <1>3 DEF OwnShape
  <2>5. DriftWasThereBefore'
    BY <2>2, <2>4 DEF DriftWasThereBefore, Table, vars
  <2>6. QED
    BY <2>2, <2>3, <2>5, StandStill
<1>4. CASE expected_shape[Table] = actual
  <2>1. check[chk.at] \in schema /\ shape[check[chk.at]] = expected_shape[check[chk.at]]
    BY <1>1, <1>2, <1>4
  <2>2. \A i \in 1..chk.at : check[i] \in schema /\ shape[check[i]] = expected_shape[check[i]]
    <3>1. \A i \in 1..6 : i < chk.at => check[i] \in schema /\ shape[check[i]] = expected_shape[check[i]]
      BY <1>0, <1>1 DEF PassedIsThere
    <3>2. \A i \in 1..chk.at : i \in 1..6 /\ (i < chk.at \/ i = chk.at)
      BY <1>1
    <3>3. QED
      BY <2>1, <3>1, <3>2
  <2>3. CASE chk.at = 6
    <3>1. chk' = [chk EXCEPT !.phase = "idle", !.read = {}, !.answer = "ok"]
      BY <1>1, <1>4, <2>3 DEF check_entity, Answer
    <3>2. /\ chk' \in Check /\ chk'.phase = "idle" /\ chk'.answer = "ok"
          /\ chk'.migrated = chk.migrated
      BY <1>1, <3>1 DEF Check
    <3>3. PassedIsThere'
      BY <1>1, <2>2, <2>3 DEF PassedIsThere, vars
    <3>4. HalfRead' /\ MigratedIsRecorded' /\ DriftWasThereBefore'
      BY <1>0, <3>2 DEF HalfRead, MigratedIsRecorded, DriftWasThereBefore, vars
    <3>5. QED
      BY <3>2, <3>3, <3>4, StandStill
  <2>4. CASE chk.at # 6
    <3>0. chk.at + 1 \in 1..6
      BY <1>1, <2>4
    <3>1. chk' = [chk EXCEPT !.phase = "columns", !.at = chk.at + 1, !.read = {}]
      BY <1>1, <1>4, <2>4 DEF check_entity
    <3>2. /\ chk' \in Check /\ chk'.phase = "columns" /\ chk'.answer = chk.answer
          /\ chk'.at = chk.at + 1 /\ chk'.migrated = chk.migrated
      BY <1>1, <3>0, <3>1 DEF Check
    <3>3. PassedIsThere'
      <4>1. \A i \in 1..6 : i < chk.at + 1 => i \in 1..chk.at
        BY <1>1
      <4>2. QED
        BY <1>0, <1>1, <2>2, <3>2, <4>1 DEF PassedIsThere, vars
    <3>4. HalfRead' /\ MigratedIsRecorded'
      BY <1>0, <3>2 DEF HalfRead, MigratedIsRecorded, vars
    <3>5. chk.answer = "none"
      BY <1>0 DEF CheckTypeOK
    <3>6. DriftWasThereBefore'
      BY <3>2, <3>5 DEF DriftWasThereBefore
    <3>7. QED
      BY <3>2, <3>3, <3>4, <3>5, <3>6, StandStill
  <2>5. QED
    BY <2>3, <2>4
<1>5. QED
  BY <1>3, <1>4

\* Every step of the check keeps the invariant, whatever it reads.
LEMMA CheckKeeps ==
  ASSUME CheckIndInv, RecordedIsComplete, recorded \in BOOLEAN, UNCHANGED vars, CheckStep
  PROVE  CheckIndInv'
<1>0. /\ CheckTypeOK /\ OwnShape /\ PassedIsThere /\ HalfRead /\ MigratedIsRecorded
      /\ DriftWasThereBefore
  BY DEF CheckIndInv
<1>1. /\ chk \in Check /\ Len(check) = 6 /\ Table \in TableNames /\ AreColumns(shape[Table])
      /\ chk.migrated => Table \in schema
  BY <1>0, AtATable, CheckGoesThroughAll
<1>2. CASE StartCheck
  <2>1. chk' = Begun /\ shape' = shape
    BY <1>2 DEF StartCheck
  <2>2. /\ chk' \in Check /\ chk'.phase = "columns" /\ chk'.at = 1 /\ chk'.answer = "none"
        /\ chk'.migrated = recorded
    BY <1>0, <1>1, <2>1 DEF Begun, Check
  <2>3. PassedIsThere' /\ HalfRead' /\ MigratedIsRecorded' /\ DriftWasThereBefore'
    BY <2>2 DEF PassedIsThere, HalfRead, MigratedIsRecorded, DriftWasThereBefore, vars
  <2>4. QED
    BY <2>1, <2>2, <2>3, StandStill
<1>3. CASE actual_shape_sqlite
  <2>1. chk.phase # "idle" /\ check_entity(Live(Table)) /\ shape' = shape
    BY <1>3 DEF actual_shape_sqlite
  <2>2. \/ Live(Table) = shape[Table] /\ Table \in schema
        \/ Live(Table) = {} /\ ~chk.migrated
    BY <1>1 DEF Live
  <2>3. QED
    BY <2>1, <2>2, JudgedRightly
<1>4. CASE ReadColumns
  <2>1. /\ chk' = [chk EXCEPT !.phase = "keys", !.read = Unkeyed(Live(Table))] /\ shape' = shape
        /\ chk.phase = "columns"
    BY <1>4 DEF ReadColumns
  <2>2. \/ Table \in schema /\ Unkeyed(Live(Table)) = Unkeyed(shape[Table])
        \/ ~chk.migrated /\ Unkeyed(Live(Table)) = {}
    BY <1>1 DEF Live, Unkeyed
  <2>3. /\ chk' \in Check /\ chk'.phase = "keys" /\ chk'.at = chk.at /\ chk'.answer = chk.answer
        /\ chk'.migrated = chk.migrated /\ chk'.read = Unkeyed(Live(Table))
    BY <1>1, <2>1, <2>2 DEF Check
  <2>4. chk.answer = "none"
    BY <1>0, <2>1 DEF CheckTypeOK
  <2>5. Table' = Table
    BY <2>3 DEF Table
  <2>6. HalfRead'
    BY <2>1, <2>2, <2>3, <2>5 DEF HalfRead, vars
  <2>7. PassedIsThere' /\ MigratedIsRecorded' /\ DriftWasThereBefore'
    BY <1>0, <2>1, <2>3, <2>4 DEF PassedIsThere, MigratedIsRecorded, DriftWasThereBefore, vars
  <2>8. QED
    BY <2>1, <2>3, <2>4, <2>6, <2>7, StandStill
<1>5. CASE ReadKeys
  <2> DEFINE actual == Keyed(chk.read, pk_names_of(Live(Table)))
  <2>1. chk.phase = "keys" /\ check_entity(actual) /\ shape' = shape
    BY <1>5 DEF ReadKeys
  <2>2. CASE Table \in schema /\ chk.read = Unkeyed(shape[Table])
    <3>1. actual = shape[Table]
      BY <1>1, <2>2, ReadInTwo DEF Live
    <3> HIDE DEF actual
    <3>2. QED
      BY <2>1, <2>2, <3>1, JudgedRightly
  <2>3. CASE ~chk.migrated /\ chk.read = {}
    <3>1. actual = {}
      BY <2>3 DEF Keyed
    <3> HIDE DEF actual
    <3>2. QED
      BY <2>1, <2>3, <3>1, JudgedRightly
  <2>4. QED
    BY <1>0, <2>1, <2>2, <2>3 DEF HalfRead
<1>6. CASE QueryFails
  <2>1. chk' = [chk EXCEPT !.phase = "idle", !.read = {}, !.answer = "failed"] /\ shape' = shape
    BY <1>6 DEF QueryFails, Answer
  <2>2. /\ chk' \in Check /\ chk'.phase = "idle" /\ chk'.answer = "failed"
        /\ chk'.migrated = chk.migrated
    BY <1>1, <2>1 DEF Check
  <2>3. PassedIsThere' /\ HalfRead' /\ MigratedIsRecorded' /\ DriftWasThereBefore'
    BY <1>0, <2>2 DEF PassedIsThere, HalfRead, MigratedIsRecorded, DriftWasThereBefore, vars
  <2>4. QED
    BY <2>1, <2>2, <2>3, StandStill
<1>7. QED
  BY <1>2, <1>3, <1>4, <1>5, <1>6 DEF CheckStep

\* So does a step of a migration: what the check has seen stays.
LEMMA MigrationKeeps ==
  ASSUME CheckIndInv, [Next]_vars, UNCHANGED checkVars
  PROVE  CheckIndInv'
<1>0. /\ CheckTypeOK /\ OwnShape /\ PassedIsThere /\ HalfRead /\ MigratedIsRecorded
      /\ DriftWasThereBefore
  BY DEF CheckIndInv
<1>1. /\ shape' = shape /\ chk' = chk /\ schema \subseteq schema' /\ before' = before
      /\ (recorded => recorded')
  BY SchemaGrows DEF checkVars
<1>2. CheckTypeOK' /\ OwnShape' /\ PassedIsThere'
  BY <1>0, <1>1 DEF CheckTypeOK, OwnShape, PassedIsThere
<1>3. HalfRead' /\ MigratedIsRecorded' /\ DriftWasThereBefore'
  BY <1>0, <1>1 DEF HalfRead, MigratedIsRecorded, DriftWasThereBefore, Table
<1>4. QED
  BY <1>2, <1>3 DEF CheckIndInv

\* The check leaves the migrations alone: what holds of them still does.
LEMMA MigratesAsBefore == CheckSpec => Spec
<1>1. CheckInit => Init
  BY DEF CheckInit
<1>2. [CheckNext]_<<vars, checkVars>> => [Next]_vars
  BY DEF CheckNext
<1>3. QED
  BY <1>1, <1>2, PTL DEF CheckSpec, Spec

\* The check's invariant holds in every state.
THEOREM CheckInductive == CheckSpec => []CheckIndInv
<1>1. CheckInit => CheckIndInv
  <2> SUFFICES ASSUME CheckInit PROVE CheckIndInv
    OBVIOUS
  <2>1. recorded = FALSE
    BY DEF CheckInit, Init
  <2>2. PICK drift \in Drifts :
          shape = [t \in TableNames |->
                      IF t \in before \cap DOMAIN drift THEN drift[t] ELSE created[t]]
    BY DEF CheckInit
  <2>3. DOMAIN shape = TableNames /\ \A table \in TableNames : AreColumns(shape[table])
    BY <2>2, DriftsAssumption, CreatedIsExpected
  <2>4. OwnShape
    BY <2>2 DEF OwnShape
  <2>5. /\ chk \in Check /\ chk.phase = "idle" /\ chk.answer = "none" /\ chk.migrated = FALSE
    <3>1. chk = [Begun EXCEPT !.phase = "idle"]
      BY DEF CheckInit
    <3>2. /\ chk.phase = "idle" /\ chk.at = 1 /\ chk.read = {} /\ chk.answer = "none"
          /\ chk.migrated = FALSE
      BY <2>1, <3>1 DEF Begun
    <3>3. 1 \in 1..Len(check)
      BY CheckGoesThroughAll
    <3>4. [phase |-> "idle", at |-> 1, read |-> {}, migrated |-> FALSE, answer |-> "none"] \in Check
      BY <3>3 DEF Check
    <3>5. chk = [phase |-> "idle", at |-> 1, read |-> {}, migrated |-> FALSE, answer |-> "none"]
      BY <2>1, <3>1 DEF Begun
    <3>6. QED
      BY <3>2, <3>4, <3>5
  <2>6. QED
    BY <2>3, <2>4, <2>5 DEF CheckIndInv, CheckTypeOK, PassedIsThere, HalfRead, MigratedIsRecorded,
       DriftWasThereBefore, Check
<1>2. CheckIndInv /\ RecordedIsComplete /\ TypeOK /\ [CheckNext]_<<vars, checkVars>> => CheckIndInv'
  <2> SUFFICES ASSUME CheckIndInv, RecordedIsComplete, TypeOK, [CheckNext]_<<vars, checkVars>>
               PROVE  CheckIndInv'
    OBVIOUS
  <2>1. CASE CheckStep /\ UNCHANGED vars
    BY <2>1, CheckKeeps DEF TypeOK
  <2>2. CASE [Next]_vars /\ UNCHANGED checkVars
    BY <2>2, MigrationKeeps
  <2>3. QED
    BY <2>1, <2>2 DEF CheckNext
<1>3. QED
  BY <1>1, <1>2, MigratesAsBefore, VersionMeansSchema, Typing, PTL DEF CheckSpec

\* An Ok is true of all tables at once, however the migrations go on.
THEOREM OkIsTrue == CheckSpec => []OkMeansShape
<1>1. CheckIndInv => OkMeansShape
  <2> SUFFICES ASSUME CheckIndInv, chk.answer = "ok", NEW table \in TableNames
               PROVE  table \in schema /\ shape[table] = expected_shape[table]
    BY DEF OkMeansShape
  <2>1. PICK i \in 1..6 : check[i] = table
    BY CheckGoesThroughAll
  <2>2. QED
    BY <2>1, CheckGoesThroughAll DEF CheckIndInv, PassedIsThere
<1>2. QED
  BY <1>1, CheckInductive, PTL

\* Drift on a migrated database was there before the migration.
THEOREM DriftIsNotTheMigrations == CheckSpec => []DriftWasThereBefore
<1>1. CheckIndInv => DriftWasThereBefore
  BY DEF CheckIndInv
<1>2. QED
  BY <1>1, CheckInductive, PTL
=============================================================================
