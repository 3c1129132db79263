------------------------------ MODULE Migration ------------------------------
(* Store::migrate (crates/store/src/store.rs) with the initial migration: any *)
(* number of processes that start against one database and bring its schema   *)
(* up, while any of them may fail or die at any statement.                    *)
(*                                                                            *)
(* sea-orm-migration, which is not in the repository, creates its table       *)
(* seaql_migrations, reads which versions it lists, runs up and adds the      *)
(* version's row.  It does all of that in one transaction on Postgres and     *)
(* without one on SQLite (migrations/mod.rs:15-20).                           *)
EXTENDS Naturals, Sequences, SequencesExt

CONSTANTS
    Migrators,      \* processes that call migrate
    Preseeded       \* what may be in the database before any of them

VARIABLES
    backend,    \* what Store::connect was given, for good
    before,     \* the objects that were there before, for good
    schema,     \* the tables and indexes that are committed
    recorded,   \* is the version's row in seaql_migrations committed?
    mig         \* migrator -> its call: phase, statements done, what its open
                \* transaction holds (Postgres), last result

vars == <<backend, before, schema, recorded, mig>>

create_groups   == <<"groups">>
create_messages == <<"messages", "messages_group_seq_idx">>
create_tasks    == <<"tasks", "tasks_due_idx">>
create_state    == <<"state">>
create_sessions == <<"sessions">>
create_events   == <<"events", "events_created_idx", "events_kind_idx", "events_group_idx">>

up == create_groups \o create_messages \o create_tasks
          \o create_state \o create_sessions \o create_events

\* Everything a call creates, in order: the metadata table comes first.
Statements == <<"seaql_migrations">> \o up

Objects == ToSet(Statements)

ASSUME PreseededAssumption == Preseeded \subseteq SUBSET Objects

Phases  == {"idle", "running", "listing", "creating", "recorded"}
Results == {"none", "ok", "clash", "failed"}

TypeOK ==
    /\ backend \in {"postgres", "sqlite"}
    /\ before \in Preseeded
    /\ schema \subseteq Objects
    /\ recorded \in BOOLEAN
    /\ mig \in [Migrators -> [phase : Phases, done : 0..Len(Statements),
                              created : SUBSET Objects, result : Results]]
    /\ \A m \in Migrators : mig[m].phase = "creating" => mig[m].done < Len(Statements)

Init ==
    /\ backend \in {"postgres", "sqlite"}
    /\ before \in Preseeded
    /\ schema = before
    /\ recorded = FALSE
    /\ mig = [m \in Migrators |->
                 [phase |-> "idle", done |-> 0, created |-> {}, result |-> "none"]]

-----------------------------------------------------------------------------
\* Mutant: no transaction around a migration on Postgres either.
Transactional_Never == FALSE

Transactional == backend = "postgres"

Go(m, call) == mig' = [mig EXCEPT ![m] = call]

\* The call ends; what its transaction holds has been committed or is gone.
Return(m, result) ==
    Go(m, [phase |-> "idle", done |-> 0, created |-> {}, result |-> result])

Begin(m) ==
    /\ mig[m].phase = "idle"
    /\ Go(m, [mig[m] EXCEPT !.phase = "running", !.result = "none"])
    /\ UNCHANGED <<backend, before, schema, recorded>>

\* The list of applied versions is read once: the version is not there ...
ReadVersions(m) ==
    /\ mig[m].phase = "listing"
    /\ ~recorded
    /\ Go(m, [mig[m] EXCEPT !.phase = "running"])
    /\ UNCHANGED <<backend, before, schema, recorded>>

\* ... or it is: nothing to do but to end the transaction.
UpToDate(m) ==
    /\ mig[m].phase = "listing"
    /\ recorded
    /\ schema' = schema \cup mig[m].created
    /\ Return(m, "ok")
    /\ UNCHANGED <<backend, before, recorded>>

Sees(m) == schema \cup mig[m].created

\* The call is at the statement that creates object.
At(m, object) ==
    /\ mig[m].done < Len(Statements)
    /\ object = Statements[mig[m].done + 1]

\* Behind the metadata table the versions are read.
StatementDone(call) ==
    [call EXCEPT !.phase = IF call.done = 0 THEN "listing" ELSE "running", !.done = @ + 1]

\* Mutant: CREATE without IF NOT EXISTS.
Skip_Clashes(m) ==
    /\ mig[m].phase = "running"
    /\ \E object \in Sees(m) : At(m, object)
    /\ Return(m, "clash")
    /\ UNCHANGED <<backend, before, schema, recorded>>

\* Mutant: where one object is there, all of them are taken to be.
Skip_TheRest(m) ==
    /\ mig[m].phase = "running"
    /\ \E object \in Sees(m) : At(m, object)
    /\ Go(m, [StatementDone(mig[m]) EXCEPT !.done = Len(Statements)])
    /\ UNCHANGED <<backend, before, schema, recorded>>

\* IF NOT EXISTS: the object is there.
Skip(m) ==
    /\ mig[m].phase = "running"
    /\ \E object \in Sees(m) : At(m, object)
    /\ Go(m, StatementDone(mig[m]))
    /\ UNCHANGED <<backend, before, schema, recorded>>

\* SQLite looks and creates in one: it compiles a statement again that was
\* compiled against a schema that has changed.
CreateAlone(m) ==
    /\ ~Transactional
    /\ mig[m].phase = "running"
    /\ \E object \in Objects \ schema : At(m, object) /\ schema' = schema \cup {object}
    /\ Go(m, StatementDone(mig[m]))
    /\ UNCHANGED <<backend, before, recorded>>

\* Postgres looks first, and sees no object of an open transaction.
Look(m) ==
    /\ Transactional
    /\ mig[m].phase = "running"
    /\ \E object \in Objects \ Sees(m) : At(m, object)
    /\ Go(m, [mig[m] EXCEPT !.phase = "creating"])
    /\ UNCHANGED <<backend, before, schema, recorded>>

\* It then enters the object in its catalog, waiting there for the end of a
\* transaction that has entered the same one.
Create(m) ==
    /\ mig[m].phase = "creating"
    /\ \E object \in Objects \ schema :
          /\ At(m, object)
          /\ \A n \in Migrators : object \notin mig[n].created
          /\ Go(m, [StatementDone(mig[m]) EXCEPT !.created = @ \cup {object}])
    /\ UNCHANGED <<backend, before, schema, recorded>>

\* The other one has committed: a duplicate key in the catalog.
CreateClashes(m) ==
    /\ mig[m].phase = "creating"
    /\ \E object \in schema : At(m, object)
    /\ Return(m, "clash")
    /\ UNCHANGED <<backend, before, schema, recorded>>

\* Mutant: the version's row is added before up is run.
UpDone_NotYet(m) == mig[m].phase = "running" /\ mig[m].done = 1

UpDone(m) == mig[m].phase = "running" /\ mig[m].done = Len(Statements)

\* The version's row, on Postgres in the open transaction.
Record(m) ==
    /\ UpDone(m)
    /\ ~recorded
    /\ IF Transactional
       THEN /\ \A n \in Migrators : mig[n].phase # "recorded"
            /\ Go(m, [mig[m] EXCEPT !.phase = "recorded"])
            /\ UNCHANGED recorded
       ELSE /\ recorded' = TRUE
            /\ Return(m, "ok")
    /\ UNCHANGED <<backend, before, schema>>

\* The version is the key of seaql_migrations, and another call has added it.
RecordClashes(m) ==
    /\ UpDone(m)
    /\ recorded
    /\ Return(m, "clash")
    /\ UNCHANGED <<backend, before, schema, recorded>>

\* Mutant: the transaction is dropped and Ok returned.
Commit_Forgotten(m) ==
    /\ mig[m].phase = "recorded"
    /\ Return(m, "ok")
    /\ UNCHANGED <<backend, before, schema, recorded>>

\* The answer of COMMIT may be lost.
Commit(m) ==
    /\ mig[m].phase = "recorded"
    /\ schema' = schema \cup mig[m].created
    /\ recorded' = TRUE
    /\ \E result \in {"ok", "failed"} : Return(m, result)
    /\ UNCHANGED <<backend, before>>

\* A statement fails or the process dies.  SQLite keeps what was created.
Fail(m) ==
    /\ mig[m].phase # "idle"
    /\ Return(m, "failed")
    /\ UNCHANGED <<backend, before, schema, recorded>>

-----------------------------------------------------------------------------
migrate(m) ==
    \/ ReadVersions(m) \/ UpToDate(m)
    \/ Skip(m) \/ CreateAlone(m) \/ Look(m) \/ Create(m) \/ CreateClashes(m)
    \/ Record(m) \/ RecordClashes(m) \/ Commit(m)

Next == \E m \in Migrators : Begin(m) \/ migrate(m) \/ Fail(m)

Spec == Init /\ [][Next]_vars

(* Statements are answered, a process whose migrate did not return Ok is      *)
(* started again, and one day the database stops failing.                     *)
Fairness ==
    \A m \in Migrators :
        /\ WF_vars(migrate(m))
        /\ WF_vars(mig[m].result # "ok" /\ Begin(m))
        /\ <>[][~Fail(m)]_vars

LiveSpec == Spec /\ Fairness

-----------------------------------------------------------------------------
(* Properties                                                                *)

\* The version is listed only when everything it stands for is there, whoever
\* created it: no later call will look again.
RecordedIsComplete == recorded => schema = Objects

\* On Postgres others see all of the migration or none of it, whatever was
\* there before, however many processes migrate and wherever they die
\* (migrations/mod.rs:17).
AllOrNothing == backend = "postgres" => schema \in {before, Objects}

\* A call that returns Ok leaves a migrated database, and one that is told
\* that something was there already lost to a call that has done it all: it
\* need not be repeated.
AnswerIsTrue ==
    \A m \in Migrators : mig[m].result \in {"ok", "clash"} => recorded

\* Why the three hold, as parts of an inductive invariant.  A call sees all it
\* has been through, whoever created it; what it still needs is in no rollback.
BehindIsThere ==
    \A m \in Migrators : \A i \in 1..mig[m].done : Statements[i] \in Sees(m)

\* A call adds the version's row behind the last statement.
RecordsAtTheEnd ==
    \A m \in Migrators : mig[m].phase = "recorded" => mig[m].done = Len(Statements)

\* Only a transaction, which SQLite's migration has not, keeps anything back ...
NothingHeldBack ==
    ~Transactional => \A m \in Migrators : /\ mig[m].created = {}
                                           /\ mig[m].phase \notin {"creating", "recorded"}

\* ... and where there is one, nothing is seen of it before the version is.
ShownWithVersion == Transactional => schema = IF recorded THEN Objects ELSE before

\* A call creates nothing that was there before it came.
CreatesWhatIsMissing ==
    \A m \in Migrators : mig[m].phase = "creating" => Statements[mig[m].done + 1] \notin before

IndInv ==
    /\ TypeOK
    /\ BehindIsThere
    /\ RecordsAtTheEnd
    /\ NothingHeldBack
    /\ ShownWithVersion
    /\ CreatesWhatIsMissing
    /\ RecordedIsComplete
    /\ AnswerIsTrue

\* A process that tries again gets through, from every partial state a crash
\* leaves and with others migrating all the time
\* (tests/migration_restart.rs:1-6).
EachGetsThrough == \A m \in Migrators : <>(mig[m].result = "ok")
=============================================================================
