# Verification of forgeclaw

TLA+ specifications of the two crates of forgeclaw that hold code today,
`crates/store` (the persistence layer) and `crates/core` (the command bus, the
event bus, configuration, ids and errors), the TLC instances that check them,
and TLAPS proofs of every safety property that the passing instances check but one. The paths
below are relative to `src/crates/`.

    tlc -workers 2 -config MessageLogPostgres.cfg MCMessageLog    # check an instance
    tlapm MessageLogProofs.tla                                   # check the proofs

## 1. The system

forgeclaw is an orchestrator of agent containers. Fourteen crates are declared;
twelve (`agent-runner`, `auth`, `channels`, `container`, `forgeclaw`, `health`,
`ipc`, `providers`, `queue`, `router`, `scheduler`, `tanren`) are empty shells
whose `lib.rs` holds a doc comment. The scheduler, the router and the consumers
of the message stream are therefore *callers the code is written for*: a model
that needs one takes it from the contract in the doc comments and its map entry
says `external`.

| Component | State | Operations | Talks to |
|---|---|---|---|
| message log, `store/src/ops/messages.rs` | table `messages`, the number sequence, the advisory locks; a consumer's `Cursor` | `store_message`, `get_messages_since` | a database shared by connections, processes and hosts |
| tasks, `store/src/ops/tasks.rs` | table `tasks` | `create_task`, `get_due_tasks`, `update_task_after_run` | the scheduler |
| groups, state, sessions, `store/src/ops/{groups,state,sessions}.rs` | one table each | `get_*`, upserts | every service |
| event log, `store/src/ops/events.rs` | table `events` | `record_event`, `list_events` | observers |
| migrations, `store/src/migrations/` | the schema, `seaql_migrations` | `migrate` | a database that others may be migrating |
| drift check, `store/src/schema_check.rs`, `entities/` | none | `check`, run by tests | the catalogue, while others migrate |
| connection, `store/src/store.rs` | a pool | `connect`, the delegating methods | |
| errors, `store/src/error.rs` | none | classification and sanitizing of `DbErr` | |
| command bus, `core/src/command/` | a bounded channel, a oneshot per call | `call`, `recv`, `respond` | any caller and one handler |
| event bus, `core/src/event/` | a broadcast ring | `emit`, `subscribe` | any emitter and subscriber |
| configuration, `core/src/config/` | none after loading | layered load, merge, environment, validation | the file system, the environment |
| ids, error classes, `core/src/id/`, `core/src/error.rs` | none | constructors, `ErrorClass` | |

Interaction is by shared database (several processes may open one store), by
channels inside a process (command bus, event bus) and otherwise by plain calls.
There is no recovery code: what survives a crash is what the database committed.

What is hard here, and what each component must get right:

- **Message log.** A consumer pages through a group's stream by remembering the
  largest `seq` it has seen. That is sound only if a number smaller than one it
  has seen never becomes visible later. Numbers are given out by a sequence
  while transactions are open, so the code takes a transaction-scoped advisory
  lock keyed on the group's hash before the INSERT (Postgres) or relies on the
  single write lock (SQLite). Rolled back numbers, lost COMMIT answers, retries
  of an id, hash collisions, cancelled futures and consumers that crash in the
  middle of a page all meet there. To hold: no consumer skips a row, seq order
  is commit order within a group, ids and seqs are unique, results are honest,
  calls return, everything committed is delivered.
- **Tasks.** `update_task_after_run` is a load and an update with nothing
  between them but hope; `get_due_tasks` claims nothing. To hold: a row is
  always one run's result, one scheduler does not repeat a recorded run, due
  tasks get run.
- **Command bus.** A call awaits twice and may be dropped at either await; the
  handler may answer, drop one responder, or go away with commands in the
  buffer. To hold: an answer reaches the call it is for, a waiting caller has
  somebody to wait for, calls return, accepted commands are received.
- **Event bus.** Slow subscribers lose the oldest events and are told so; a
  subscriber sees only what is emitted after it subscribed.
- **Groups, state, sessions, event log.** Upserts that preserve `created_at`,
  ids drawn anew for every attempt, retries after a lost answer, an in-memory
  database that exists once per connection, paging by a limit without a cursor.
  On SQLite an insert is two statements, of which the second may fail alone. To
  hold: a call takes effect once at most (which is not so of events on SQLite),
  whatever connection serves a read shows what was written, and every call ends.
- **Migrations and the drift check.** `CREATE ... IF NOT EXISTS` under concurrent
  migrators, crashes (DDL is transactional on Postgres only) and tables that were
  there before; a check of six tables in up to twelve queries meanwhile. To hold:
  the version is listed only with the whole schema, whoever tries again gets
  through, the check's Ok is true of all tables at once.
- **Errors.** What is transient is decided by the text of an error from which
  connection URLs have been taken out in three passes. To hold: what is taken out
  is what one search would find, and only what was not applied is retried.
- **Configuration.** Two files and an unordered environment in layers, read while
  somebody edits. To hold: the layers win path by path, nothing else changes, a
  variable that no other contradicts wins in every order, and what is returned is
  consistent across sections.

`PROJECT.json` lists the hazards line by line, with the properties that cover
each of them.

## 2. Plan

Order: by how much of the system stands or falls with the component.

1. `MessageStream`, the promise; `MessageLog`, the implementation;
   `MessageLogRefinement`; their proofs.
2. `CommandService`, the promise; `CommandBus`, the implementation;
   `CommandBusRefinement`; their proofs.
3. `TaskStore` and its proofs.
4. `Migration` and its proofs.
5. `ConfigTypes`, what serde and the validation accept, and `ConfigLoad`, which
   uses it: `load_layered` and `load`; their proofs.
6. `StoreErrors`, what a driver's error becomes and whether it is retried.
7. `StoreTables`, which composes it with `Store::connect` and the tables of
   events, groups, state and sessions, under callers that retry; and their
   proofs.
8. `SchemaCheck`, the drift check at work on the database that `Migration`'s
   processes bring up; its proofs rest on theirs.
9. `EventBus` and its proofs.

All nine are done. Two ideas were given up. A model of starvation among tasks
that recur for ever needs a scheduling policy, and the scheduler is an empty
crate. Compositions across components would need their glue: nothing in the
repository records bus events in the store, dispatches due tasks on the command
bus or feeds messages from a channel into the log. What does interact is
composed: the migrations with the drift check, the errors with the tables, the
log with its consumers.

## 3. The modules and the code

### MessageStream, MessageLog, MessageLogRefinement

`MessageStream` is the promise of `types/message.rs:55-77`: a group has one
stream, a message is published once behind all its group already shows, and a
consumer is handed the next message it has not seen.

`MessageLog` is the code. A *writer* is one connection on which `store_message`
runs; its phases are the awaits of `ops/messages.rs:57-86`:

| phase | left by | code |
|---|---|---|
| `idle` | `Begin` | `db.begin()`; takes no lock and no snapshot on either back end |
| `begun` | `AcquireLock` (Postgres), `AllocateSeq` (SQLite) | `pg_advisory_xact_lock(hashtextextended(group, ...))`; on SQLite the INSERT takes the write lock |
| `locked` | `AllocateSeq` | the INSERT evaluates the default of `seq` before it checks any index |
| `allocated` | `InsertRow`, `RejectDuplicate` | the unique index on `id`: waits for an open transaction with the same id, then inserts or fails |
| `inserted` | `Commit` | the commit; its answer may be lost (`failed` although the row is there) |
| any | `Abort` | an error of any statement, a dropped future, a dead process |

`HoldsLock` is the transaction-scoped lock: it is released exactly when the
transaction ends. `LockKey` maps a group to its hash, so an instance may let two
groups collide. `lastSeq` is the Postgres sequence, which is not rolled back, or
SQLite's `sqlite_sequence`, which is written at commit: SQLite uses a rolled back
number again. `Fetch`, `Process` and `Restart` are a consumer:
`get_messages_since` with any limit a consumer may use (`Limits`, a set for each:
a negative one is an error and no fetch, 0 an empty page, the rest is capped), the
cursor moved row by row as the contract of `Cursor::after` says, and a restart
from the saved cursor or from `Cursor::beginning()`.

What is abstracted: message text and sender, timestamps (no property depends on
them and the order of the log is by `seq`), and the encoding of rows.

`MessageLogRefinement` maps a row to a published message whose predecessors are
the smaller seqs of its group, and a consumer's processed seqs to the ids seen.

### CommandService, CommandBus, CommandBusRefinement

`CommandService` is the promise of `core/src/command/mod.rs:8-15`, "Exactly one
handler processes each command and returns a typed response": a call is pending,
is taken by the handler once at most, has one outcome, and that outcome goes to its
own caller. A call is turned away while it is pending only after the shutdown, and
one that was given up may be taken all the same.

`CommandBus` is the code. A *ticket* is the oneshot channel of one call. `Call` creates it and queues the
send; `Push` is the moment `send` gets its slot (`HasPermit`: tokio's channel
hands slots to waiting senders in order of arrival); `SendFails` and `Resolve`
are the two error mappings of `core/src/command/mod.rs:161-165`; `Cancel` is a
call whose future is dropped at either await. The handler side is `Receive`,
`Respond`, `DropResponder` (a panic or an early return), `Shutdown` (the receiver
is dropped with commands in it) and `EndOfCommands` (`recv` returns `None`, all
handles are gone). `effective` is the clamp of `CommandBus::new`. Commands and
answers are opaque; the channels themselves are tokio's and `external`.

`CommandBusRefinement` maps a command that waits for a slot or is buffered to a
pending call, one whose `Responder` is held to a taken one, and any other to the
outcome in its oneshot.

### TaskStore

`clock` is `Utc::now()`. A scheduler (external: the crate is empty) polls
`get_due_tasks`, runs the page's tasks one by one, and records each outcome:
`Load` or `LoadFindsNothing`, then `Update`, are the two statements of
`update_task_after_run`. `Fail` is an error in either, `Restart` a scheduler that
loses its page and its run, `StartByHand` a run nobody scheduled, of any id. What
a run leaves follows `TaskRunResult`: "Next run time, if the task is still
active", later than the run's own time. `Update` is `am.update`, on SQLite an
UPDATE and a SELECT of the row: that the second fails is an update whose answer is
lost. The statuses other than `active` are one value: no statement tells them
apart.

### Migration

A process is one call of `Store::migrate`. sea-orm-migration is a dependency and
`external`; `migrations/mod.rs:15-20` says what matters of it: one transaction on
Postgres, none on SQLite. `up` and the `create_*` sequences list what
`m20260411_000001_init.rs` creates, in its order. The call is at the statement
`done + 1`; behind the first one, which creates the metadata table, it reads the
versions (`ReadVersions`, `UpToDate`). `Skip` is `IF NOT EXISTS` finding the
object. SQLite creates in one step (`CreateAlone`); Postgres looks (`Look`) and
then enters the object in its catalog (`Create`), where a concurrent creator makes
it wait and then fail (`CreateClashes`). `Record` and `Commit` add the version's
row, `Fail` is an error or a death at any statement. `before` is what was in the
database when the first process came, as `tests/migration_restart.rs` arranges it.

### SchemaCheck

`SchemaCheck` extends `Migration` with a check that runs among its processes.
`created` has the columns the migration gives each table and `expected_shape`
those the entities declare: name, NOT NULL, primary key, as the code's
`ColumnShape`. `shape` is what the catalogue knows: a table that was there before
may have other columns (`Drifts`). The check goes through `check`'s six tables:
one `PRAGMA` each on SQLite (`actual_shape_sqlite`), a query for the columns and
one for the keys on Postgres (`ReadColumns`, `ReadKeys`), with migrations
starting, committing, failing and rolling back between any two of them.
`check_entity` stops at the first table that differs.

### StoreErrors, StoreTables

`StoreErrors` is `error.rs`: `categorize`, the sanitizing of a chain of causes
(`sanitize_message`, one pass per scheme, in the code's order, over texts that are
sequences of words), `From<DbErr>` and the classes. A pass keeps a text's positions:
a URL becomes its `Redacted` and words that are `Nothing`. `Ends` are the words at
which the code stops to search for a URL's end: white space (`Space`), a quote or a
bracket (`Stop`), which may well stand inside a URL, and the ">" of a `Redacted`
that is there already.

`StoreTables` opens the store (`connect`: which URLs are refused, which make the
database an in-memory one that is confined to one connection) and lets callers
use it. A call is `Attempt` (up to the await; `record_event` draws its id here),
`Execute` (the statement is applied through any connection of the pool) and
`AnswerOk`. The workspace builds sea-orm without `sqlite-use-returning-for-3_35`
(`Cargo.toml:100-108`), so that an insert on SQLite does not give its row back
(`CanReturn`): `Execute` leaves `record_event` `inserted`, and `Lookup` is the
SELECT by id that follows, through whatever connection the pool gives then.
`Fail` and `Refuse` are errors of a statement that was not applied, `LookupFails`
any error after the INSERT, `LoseAnswer` one of a statement that was applied. `Recover` is a caller that follows
`ErrorClass`: it retries what is transient and stops at anything else. The four
writes are functions from tables to tables, the reads by key and `list_events` are
operators on them. `log` and `unsure` are history: the statements applied, in order,
and the calls whose look-up failed.

### EventBus

`Slots` is the clamp of `EventBus::new` above tokio's ring; `emit`, `subscribe`,
`recv`, `Lagged` and `Unsubscribe` are the operations. A subscriber is modelled
with what an observer makes of the events: the last value of each topic. `got` and
`lost` are history. The variants and kinds of `event/types.rs` are the set `Event`.

### ConfigTypes, ConfigLoad

`ConfigTypes` says which TOML values serde takes for a `ForgeclawConfig`: one
operator per struct and enum of `config/types.rs`, with required, optional and
unknown fields, and `validate`, the references between sections.

`ConfigLoad` is one call of `load_layered` (`mode` "layered") or of `load`
("single": one file that is not looked for first, no environment). `Passed`,
`Exists`, `read_guarded`, `GuardFails`, `read_toml` and `ReadFails` are the file
operations, each a look at a disk that `Edit` may change in between;
`apply_env_overrides` applies one variable, in the arbitrary order of
`std::env::vars`; `Finish` deserializes and validates. `deep_merge`,
`set_nested`, `normalize_env_path` and `parse_env_value` are the code's functions
on trees. The code recurses on values and on paths; the model has recursive
functions, `Merge` on `Values` (all values in the files of an instance) and, for
`set_nested`, one that walks the path (`Along`) and one that comes back. `Depth`
says that values nest finitely deep, which the recursion of the code rests on as
well. The properties look at a value by its paths (`Nodes`), up to `MaxPath`
segments.

## 4. What the runs check

| run | instance | what it shows |
|---|---|---|
| `log_postgres` | 2 writers, 2 consumers, 2 groups with different locks, 2 ids, 3 calls, pages of 0, 1, 2, one consumer asking for 3 only | no row is skipped, seq order is commit order in a group, uniqueness, honest results, streams only grow at their end; the log implements `MessageStream`; what is committed is delivered; calls return |
| `log_sqlite` | the same on SQLite | the inductive invariant where numbers are reused, the write lock is the only order and a writer may find the database locked; calls return |
| `log_global_order` | 2 writers of 2 groups, *violated* | the order of `store/src/lib.rs:31-33`, read as one of the whole table, does not hold |
| `bus_calls` | 2 callers that call for ever, 3 tickets, capacity 0, 2 commands in work | answers match, nobody is forgotten; the bus implements `CommandService`; every call returns, every accepted command is received or dies with the receiver |
| `bus_dropped` | 3 callers, a buffer of 2, *violated* | `HandlerDropped` does not mean that the handler is gone |
| `event_bus` | 2 observers, rings of 1 and 2 slots, 3 events of 2 topics | losses are accounted for and no earlier than promised; a stale view was told; who stays catches up |
| `tasks_one` | 1 scheduler, 2 tasks, pages of 1 asked for as 3 | the inductive invariant: a recorded due time is not run again, and a row is one run's result; due tasks get run |
| `tasks_last_result` | 2 schedulers, 1 task, *violated* | `last_result` may be an older run's |
| `schema_check` | 2 processes, either back end, empty or preseeded in 5 shapes, 1 check | the version is listed only with the whole schema; all or nothing on Postgres; answers are true; whoever tries again gets through; the check's Ok is true of all tables at once, its drift none of the migration's |
| `store_tables` | 2 callers, 7 URLs, 2 calls, a pool of 2, pages of 1 | a call takes effect once at most, but for an event that was inserted and not found again; reads see all writes; what is taken out of an error is what one search for URLs finds; `since` shows no other events; calls end |
| `events_twice` | 1 caller, 1 call, *violated* | an event that is recorded again after a transient error is two rows |
| `config_load` | every pair of 6 files, missing ones included, up to 2 of 7 variables in every order, 1 edit | the project's file wins path by path; the environment changes only what it names; a variable that no other contradicts and no scalar blocks wins in every order; what is returned is consistent |

A violated run states what the documentation says; the finding in `PROJECT.json`
quotes it. Every other property has a *mutant*: a definition of
the model changed the way a bug would change the code (they stand in the modules
next to what they mutate), under which TLC finds the property violated.

**Bounds.** Two open transactions suffice to reorder two commits, and to have one
wait on the lock or in the index while the other goes on; the third call retries
the id of a lost answer while another transaction is open. A page of at most two
rows gives short, full and empty pages with a commit in between. Two callers
against a buffer of one make one wait; the third ticket lets a cancelled call's
command outlive it. A ring of two slots and three events overwrite one; two
observers are at different places in it, and two topics make one silent. One task
and two moments suffice for two updates in the wrong order; a second task makes a
page of one row leave one out. Times are bounded by `MaxTime`: the clock stops
there, and what is scheduled after it never becomes due. Two migrations suffice
for one to commit between the other's look and its creation, and `Migration` has
no other bound. Two calls suffice for one statement to be applied between another
one's attempts, for a repeated upsert and for two events of equal or reversed
times; `MaxLog` lets one look-up fail and its call be repeated. The texts of
`MCStoreTables` have URLs in any layer, one kind of URL inside another, and one with
a quote in its password. The files of `MCConfigLoad` hold the same key as a scalar, as a table and
not at all, in names that differ in case only; two variables are needed for an
order, and one edit falls between any two looks at the disk. The paths of
its values and variables have five segments at most: `MaxPath` is beyond them. The proofs of
section 5 have none of these bounds but on time and number of calls, which are
arbitrary there.

**Fairness.** A statement sent to the database is answered and a lock's waiters
are served when it is free: weak fairness of `store_message` as a whole, per
writer. Nothing is assumed of `Begin` (callers need not call) and of `Abort`.
Consumers poll with a positive page size and process what they got; they stop
restarting one day, without which a consumer that always starts over would
deliver nothing. On the command bus, tasks whose await is ready are polled and
the handler keeps receiving and is done with each command; callers may stop or
go on for ever and cancel when they like. A subscriber of the event bus receives
for as long as it is subscribed; nobody need emit or leave. The scheduler polls
when idle and runs what it polled; it stops failing one day. A process whose
migration failed is started again, and the database stops failing one day; the
drift check needs no fairness. A caller of `StoreTables` makes its attempt and an
applied statement is answered or loses its answer (weak fairness); a statement
that is sent again and again is executed or refused one day, and a look-up that
is tried again and again finds its row (strong fairness, since each failure takes
them back).

**Deadlock** is checked except in the configuration run, where the load
returns and nothing follows. Where a whole instance may be over
(`CommandBus`, `StoreTables`), the state in which nothing is left is spelled out
(`Finished`), so that any other stop is an error.

## 5. What is proved

`MessageLogProofs` proves, for both back ends, any sets of writers, consumers,
groups and ids, and *any* hash of groups to lock keys:

- `Typing`: `TypeOK`.
- `Inductive`: `IndInv`, the conjunction of the named parts. The two that matter
  are not inductive alone. That no reader skips a row (`NoSkippedMessage`) needs
  that a commit lands above everything its group shows (`CommitOrder`), for which
  a writer's number must have been taken under a lock no other writer of the
  group holds (`WriterExclusion`), and must be above all rows' and differ from
  all open ones (`FreshNumbers`). It also needs to know that the page in a
  reader's hands is a gapless run after its cursor (`PageFollowsCursor`), whatever
  was committed since it was read. Uniqueness of ids needs `FreshIds`.
- From it `ReadersSkipNothing`, `SeqOrderIsCommitOrder`, `RowsAreUnique`,
  `ResultsAreHonest` and the action property `StreamsAppendOnly`.

The proof of `Inductive` has one lemma per kind of step: steps that only move a
transaction or roll it back, the lock, the number, the insert, the commit, and
the reader's three steps.

`Refinement`, in the same module, says that `MessageLog` implements
`MessageStream`. Initial states map to initial states; a commit maps to `Publish`,
a processed row to `Deliver`, a restart from the beginning to `Rewind`, and
everything else stutters.

`TaskStoreProofs` proves, for any schedulers, ids, page sizes and bound on time:

- `Typing`: `TypeOK`; in it, that an UPDATE finds the row its load found.
- `Inductive` (`IndInv`): for any number of schedulers a row is one run's result
  (`RowIsOneResult`), since `Updated` takes all its columns from one; the rest is
  about one scheduler.
- `DueTasksRunOnce`: `RunsDueTaskOnce`. For one scheduler `IndInv` has that the
  row's schedule is past everything recorded of it (`RecordedIsPast`), so that a
  poll finds nothing recorded; that the page stays so, and lists a task once
  (`PageIsUnrecorded`); and that the run in progress began after everything
  recorded of its task, also when it was asked for by hand (`RunIsNews`), so that
  its update moves the schedule forward. With two schedulers the third fails, and
  with it the theorem, which is why it is stated for one.

`CommandBusProofs` proves, for any callers, tickets, capacity and number of
commands in work:

- `Typing`, `OwnAnswers`, `SomebodyAnswers` and `InOnePlace`: `TypeOK`,
  `AnswersMatch`, `NobodyForgotten` and `OnePlace`. None of the last three is
  inductive alone. `Inductive` adds that no two callers have one ticket and that who
  sends waits (`Links`), that what is on its way or being handled has an open oneshot
  (`PendingIsOpen`: an answer cannot be overwritten, and who waits on an open one is
  in the buffer or in the handler's hands), and that a ticket's answer stays as long
  as somebody holds the ticket (`AnswersStay`). Its lemmas say what appending to and
  removing from a sequence without repetitions does to the set of its elements.
- `Refinement`: `CommandBus` implements `CommandService` (`ImplementsService`). A
  call maps to `Ask`, a command received to `Take`, an answer or a dropped responder
  to `Conclude`, a oneshot that resolves to `Return`, a failed send to `Refuse`, a
  cancellation to `GiveUp`, either way of ending to `Close`; a send that gets its slot
  stutters. Each needs that a command is in one place and what its oneshot says
  there, which is what `IndInv` is.

`EventBusProofs` proves, for any subscribers, events, capacities and any ring with
at least the slots asked for (`RingAssumption`):

- `Typing`, and `NothingDroppedEarly`, the action property `DroppedWhenFull`, which
  follows from it.
- `NothingUnaccounted` and `StaleViewsAreTold`. For the second `Inductive` adds that
  what was lost is overwritten (`LostIsOverwritten`) and that a view is the last of
  what was received of each topic (`ViewIsLatest`).

`MigrationProofs` proves, for any number of processes, any objects that were there
before and both back ends, and of the statements only that they are a list:

- `Typing`: `TypeOK`.
- `VersionMeansSchema`, `MigrationIsAtomic` and `AnswersAreTrue`. Their invariant
  `IndInv` adds that all a call has behind it is there for it (`BehindIsThere`), so
  that one that records the version sees the whole schema; that it records at the
  end (`RecordsAtTheEnd`); that on SQLite nothing is held back in a transaction
  (`NothingHeldBack`); and that on Postgres the schema is what was there `before`
  until the version is listed (`ShownWithVersion`) and a call creates none of that
  (`CreatesWhatIsMissing`), so that a clash of two creations means that the other
  process has committed all of it.

`SchemaCheckProofs` proves, for any of these and any tables of other shapes:

- `OkIsTrue` (`OkMeansShape`) and `DriftIsNotTheMigrations`
  (`DriftWasThereBefore`). `CheckSpec` implies `Spec`, which brings the invariant of
  `MigrationProofs` in. `CheckInductive` adds that a table is of another shape only
  if it was there before (`OwnShape`); that what the check has behind it is there and
  stays as it found it, although it saw each table at another time
  (`PassedIsThere`); that between its two queries it has read a table that is there,
  or none, and none only if the version was not listed at its start (`HalfRead`,
  `MigratedIsRecorded`). That an entity declares what the migration creates enters
  only in the second theorem, column by column.

`StoreTablesProofs` proves all of the invariants of `store_tables`, for any callers, keys,
pool size and errors of the driver:

- `UrlsLeaveErrors` (`ErrorsAreRedacted`), for any texts of any length: three passes
  take out exactly what one search for all schemes would (`Matched`: every word from
  a scheme up to where the search stops). `Redacting` is the invariant of the passes
  (`RedactingGoesOn`): where a search stops it still stops, what is in no URL is as
  it was, and what is in one is gone or is reached by a scheme whose pass is still
  to come (`Reached`).
- `Typing` (`TypeOK`), with which goes that there is always a fresh id: fewer are in
  use than `generate_id` chooses from (`IdIsFresh`).
- `CallsApplyOnce` (`OnceEach`). What a caller retries was not applied, or it is an
  event whose look-up failed, and where INSERT gives its row back there is none of
  these. `IndInv` adds that a call's number is its own (`NumbersAreOwn`) and that
  only an event is looked up, and only where INSERT does not give it back
  (`OnlyEventsAreUnsure`); that a lost answer's error is never retried
  (`LostIsNotRetried`) rests on the sanitizing, since the text of a code inside a
  URL would make it transient.
- `ConnectionsReadAllWrites` (`ReadsSeeAllWrites`). A database that is a connection's
  own has that connection only (`OneDatabase`), so that all read and write one set of
  tables (`OneView`); and table by table what a key holds is the latest statement on
  it, for a group with the time of the first one (`GroupsFollow`).
- `SinceKeepsTheView` (`SinceIsNotAnotherView`): a page with `since` is the page
  without it less what is not later, since what precedes a row that is late enough
  is late enough.

`ConfigLoadProofs` proves all of the run's invariants but `UncontestedOverridesWin`,
for any files, variables and edits. The provers have no induction over data, so it brings its own: `LeastNatural`
is the library's well-foundedness of finite sets, and `Induction` follows from it.
With that a recursive function is shown to be what its definition says
(`MergeUnfolds` by the depth of a table, `SetUnfolds` and `AlongUnfolds` along a
path, `BelowUnfolds` by length): a function on a part of the domain, one step larger
each time, and equal where two of them are defined. From there:

- `ProjectIsOverUser` (`ProjectOverUser`). The nodes of a table are its own and, a
  segment in front, those of what is at its keys (`NodesByKeys`, from
  `BelowByKeys`); so the merge shows what the property says at any depth if it does
  one level down (`MergeNodesTo`). `Layering` adds to the invariant what has been
  read and merged in each phase.
- `EnvironmentInPlace` (`EnvironmentStaysInPlace`), which is inductive, given that
  `set_nested` changes only nodes on the way of its path or below its end
  (`SetStaysInPlace`): level by level from the end of the path back to the root
  (`InsertDiffers`).
- `ReturnedIsConsistent` (`ReferencesHold`): what is returned has been deserialized
  and validated as it is (`Accepted`), and a reference is three segments down
  (`ThirdNode`) and what it names two (`SecondNode`).
- `Typing` (`TypeOK`): merging and overriding leave a table a table.

Assumptions. All but the last two say only that the constants are what they are
meant to be:
`BackendAssumption`, `FunctionAssumption` and `BoundAssumption` of `MessageLog`;
`CapacityAssumption` and `TicketAssumption` of `CommandBus`; `TaskIdsAssumption`,
`SchedulersAssumption` (there are finitely many) and `BoundAssumption` of
`TaskStore`; `PreseededAssumption` of `Migration` (what was there before are
objects of the schema) and `DriftsAssumption` of `SchemaCheck` (a table has one
column of a name); `EmittedAssumption`, `CapacityAssumption` and `RingAssumption`
of `EventBus`; `PoolAssumption`, `BoundAssumption` and
`CallersAssumption` (there are finitely many) of `StoreTables`; of `ConfigLoad`
`ValuesAssumption` (a file holds a table, and a value at a key is less deep than the
table), `VariablesAssumption` (variables are named in words that have a lower case)
and `BoundAssumption`. The last two are about
drivers, which are not in the repository: `TextsAssumption`, that their errors are
chains of texts, and `LostAssumption`, that the answer of a statement which is not
followed by a look-up is lost by the statement (`Exec` or `Query`, not `Conn`, which
the code retries) and that the error of a lost connection does not name a conflict
outside a URL. Nothing of the kind is assumed of the look-up after an INSERT: it may
fail with any of `Failures` and `Lost`. TLC evaluates the assumptions in the runs.

Model-checked only: all liveness, which is beyond the proof system's reach, and
`UncontestedOverridesWin`.

## 6. What is not modelled, and why

- The twelve empty crates: no code.
- Ids (`core/src/id/mod.rs`) and the constructors of errors: newtypes and matches
  without state.
- Row decoding (`row_to_stored` of messages and tasks): only a database that was
  written by something else has a row that does not decode. What such a row does
  to a page of due tasks is a hazard in `PROJECT.json` without a property.
- Answers of the catalogue of another type than the drift check's queries have
  (`schema_drift_err`), and `std::env::vars` itself, which panics at a variable that
  is not Unicode (`config/mod.rs:114`).
- A negative limit, which is an error (`InvalidLimit`, `ops/mod.rs:23-47`) and reads
  nothing: the models have no step for it.
- `down`, which nothing calls, the test hooks of `store.rs`, and the MySQL branch
  of the drift check, which no supported URL reaches. Column types: the check does
  not compare them.
- The filter of `list_events` by kind (it works like that by group), a group's
  display name and flag, `updated_at` of groups, state and sessions, which nothing
  reads; pool options other than the size for in-memory databases, and pragmas,
  which are calls into sqlx.
- The contents of messages, prompts, commands and events. Configuration values are
  modelled by their kind, and where another section refers to them by their text;
  widths of integers and the syntax of TOML are not.
- tokio's channels, the databases and sea-orm-migration are modelled from how this
  code uses them and are marked `external`.

Places where comments and code part ways and which no run states:

- `store/src/lib.rs:36-37` says that "Callers that need more rows page via repeated
  calls", which is so of `get_messages_since` but not of `list_events`, whose filter
  has a lower bound only and whose order is newest first (`ops/events.rs:56-61`).
- `store/src/error.rs:17-19` and `store/src/lib.rs:42-49` say that a `StoreError`
  "cannot leak connection URLs". `sanitize_message` takes a URL to end at the first
  white space, `"`, `'`, `>` or `)` (`error.rs:250-252`). A URL may have some of
  these inside it, and what follows one stays in the text. `ErrorsAreRedacted` says
  what the code does take out, and that is less than the sentence promises.
- `core/src/config/mod.rs:8` gives the environment precedence over the files, and
  `mod.rs:290` has `set_nested` create tables "as needed". A variable that names a
  key below a value which a file gives as a scalar is dropped, and the load succeeds
  with the file's value (`mod.rs:301-306`). `UncontestedOverridesWin` leaves just
  these out, and variables that contradict one another, whose outcome depends on the
  order of `std::env::vars`.
- The table `messages` that `tests/migration_restart.rs:27-35` sets up as a copy of
  the migration's lacks NOT NULL on `seq`, which the drift check would report
  (`MCSchemaCheck` has it among its drifts).
