----------------------------- MODULE StoreTables -----------------------------
(* Store::connect and the tables events, groups, state and sessions           *)
(* (crates/store/src/store.rs and ops/): callers write through a pool of      *)
(* connections, statements fail before they are applied or lose their answer  *)
(* after, and a caller does what the class of its error asks for.             *)
(*                                                                            *)
(* The callers are not in the repository; they are the ones ErrorClass        *)
(* (crates/core/src/error.rs) describes: a transient error is retried, at any *)
(* other the caller stops.  Calls are numbered, and the number stands for the *)
(* payload, value or configuration a call hands over.                         *)
EXTENDS Naturals, FiniteSets, StoreErrors

CONSTANTS
    Callers,        \* tasks with a clone of the Store
    Keys,           \* group ids and state keys
    Urls,           \* [base, query] the store may be configured with
    Failures,       \* DbErrs of a statement that was not applied but may be another time
    Refusals,       \* DbErrs of a statement the database will never accept
    Lost,           \* DbErrs of a statement that was applied but not answered
    PoolSize,       \* connections sqlx opens unless it is told otherwise
    MAX_PAGE_SIZE,
    MaxCalls,       \* bound: calls made in a behaviour
    MaxLog,         \* bound: statements applied after which no look-up fails
    MaxTime         \* bound: the times a row may be created at

ASSUME PoolAssumption == PoolSize \in Nat \ {0} /\ MAX_PAGE_SIZE \in Nat \ {0}
ASSUME BoundAssumption == MaxCalls \in Nat /\ MaxLog \in Nat /\ MaxTime \in Nat
ASSUME CallersAssumption == IsFiniteSet(Callers)

ASSUME TextsAssumption == \A err \in Failures \cup Refusals \cup Lost : err.chain \in Seq(Seq(STRING))

\* What a search for URLs finds in one go: every word from a scheme of any kind
\* up to where the search stops.
Matched(text) ==
    {i \in DOMAIN text : \E j \in 1..i :
        text[j] \in ToSet(schemes) /\ \A k \in j..i : ~Ends(text[k])}

\* An answer is lost by a statement, not by a connection that is being opened,
\* and a database that does not answer does not report a conflict either: the
\* texts of one stand at most in the URL of the connection.
ASSUME LostAssumption ==
    \A err \in Lost :
        /\ err.variant \notin {"Conn", "ConnectionAcquire"}
        /\ \A layer \in DOMAIN err.chain : \A i \in DOMAIN err.chain[layer] :
              err.chain[layer][i] \in TransientTexts => i \in Matched(err.chain[layer])

VARIABLES
    pool,       \* the store's connections: [memory, returning, size], of size 0
                \* before connect
    db,         \* connection -> the tables of an in-memory database of its own;
                \* the tables of any other database are at 1
    call,       \* caller -> its call
    calls,      \* number of the last call
    log,        \* the statements applied, in order (history)
    unsure      \* the calls whose row was inserted and not found again (history)

vars == <<pool, db, call, calls, log, unsure>>

-----------------------------------------------------------------------------
(* connect                                                                   *)

is_supported_scheme(url) ==
    url.base \in {"sqlite://", "sqlite://:memory:", "sqlite::memory:", "postgres://", "postgresql://"}

\* Mutant: only the short form is known.
is_sqlite_memory_ShortForm(url) == url.base = "sqlite::memory:"

is_sqlite_memory(url) ==
    \/ url.base \in {"sqlite::memory:", "sqlite://:memory:"}
    \/ url.query \in {"?mode=memory", "&mode=memory"}

\* What SQLite itself makes of a URL.
IsPrivate(url) ==
    \/ url.base \in {"sqlite::memory:", "sqlite://:memory:"}
    \/ (url.base = "sqlite://" /\ url.query \in {"?mode=memory", "&mode=memory"})

\* sea-orm has INSERT give the row back where the build lets it: not on SQLite.
CanReturn(url) == url.base \in {"postgres://", "postgresql://"}

\* A URL that is refused leaves the caller without a store (class Config).
connect(url) ==
    /\ pool.size = 0
    /\ is_supported_scheme(url)
    /\ pool' = [memory |-> IsPrivate(url), returning |-> CanReturn(url),
                size |-> IF is_sqlite_memory(url) THEN 1 ELSE PoolSize]
    /\ UNCHANGED <<db, call, calls, log, unsure>>

Connections == 1..pool.size

\* The tables a connection sees.
Tables(conn) == db[IF pool.memory THEN conn ELSE 1]

-----------------------------------------------------------------------------
(* The statements: tables before, call -> tables after                       *)

Upsert(table, key, row) ==
    [k \in DOMAIN table \cup {key} |-> IF k = key THEN row ELSE table[k]]

\* Mutant: the event's time is left at its default.
record_event_NoTime(tables, c) ==
    [tables EXCEPT !.events = @ \cup {[id |-> c.id, payload |-> c.n, group_id |-> c.key,
                                       created_at |-> 0]}]

record_event(tables, c) ==
    [tables EXCEPT !.events = @ \cup {[id |-> c.id, payload |-> c.n, group_id |-> c.key,
                                       created_at |-> c.created_at]}]

\* Mutant: every column is updated on conflict.
upsert_group_AllColumns(tables, c) ==
    [tables EXCEPT !.groups = Upsert(@, c.key,
        [config_json |-> c.n, created_at |-> c.created_at])]

\* Every column but created_at is updated on conflict.
upsert_group(tables, c) ==
    [tables EXCEPT !.groups = Upsert(@, c.key,
        [config_json |-> c.n,
         created_at |-> IF c.key \in DOMAIN tables.groups THEN tables.groups[c.key].created_at
                        ELSE c.created_at])]

set_state(tables, c) ==
    [tables EXCEPT !.state = Upsert(@, c.key, c.n)]

set_session(tables, c) ==
    [tables EXCEPT !.sessions = Upsert(@, c.key, c.n)]

\* A read by primary key: no row, or one.
find_by_id(table, key) == {table[k] : k \in DOMAIN table \cap {key}}

get_group(tables, key)   == find_by_id(tables.groups, key)
get_state(tables, key)   == find_by_id(tables.state, key)
get_session(tables, key) == find_by_id(tables.sessions, key)

Ops == {"record_event", "upsert_group", "set_state", "set_session"}

Apply(tables, c) ==
    CASE c.op = "record_event" -> record_event(tables, c)
      [] c.op = "upsert_group" -> upsert_group(tables, c)
      [] c.op = "set_state"    -> set_state(tables, c)
      [] c.op = "set_session"  -> set_session(tables, c)

-----------------------------------------------------------------------------
(* list_events                                                               *)

\* Of a limit that is not negative; no rows for 0.
clamped_take(limit) == IF limit < MAX_PAGE_SIZE THEN limit ELSE MAX_PAGE_SIZE

\* Mutant: oldest first.
Precedes_Oldest(d, e) ==
    d.created_at < e.created_at \/ (d.created_at = e.created_at /\ d.id < e.id)

\* ORDER BY created_at DESC, id DESC
Precedes(d, e) ==
    d.created_at > e.created_at \/ (d.created_at = e.created_at /\ d.id > e.id)

\* The first rows in that order of those that match; None matches everything.
\* The filter by kind works like that by group and is left out, and so is a
\* negative limit, which is an error (InvalidLimit).
None == "none"

list_events(events, filter, limit) ==
    LET rows == {e \in events : /\ filter.group_id \in {None, e.group_id}
                                /\ e.created_at > filter.since}
    IN {e \in rows : Cardinality({d \in rows : Precedes(d, e)}) < clamped_take(limit)}

-----------------------------------------------------------------------------
(* A caller                                                                  *)

NoError == [kind |-> None, category |-> None, message |-> <<>>]

NoCall == [phase |-> "idle", op |-> None, key |-> None, n |-> 0, refused |-> FALSE,
           created_at |-> 0, id |-> 0, error |-> NoError]

EmptyTables == [events |-> {}, groups |-> <<>>, state |-> <<>>, sessions |-> <<>>]

Init ==
    /\ pool = [memory |-> FALSE, returning |-> FALSE, size |-> 0]
    /\ db = [conn \in 1..PoolSize |-> EmptyTables]
    /\ call = [w \in Callers |-> NoCall]
    /\ calls = 0
    /\ log = <<>>
    /\ unsure = {}

\* A Store method is called.  The time handed over is the caller's: an event may
\* have happened long ago.
Call(w, op, key) ==
    /\ pool.size > 0
    /\ call[w].phase = "idle"
    /\ calls < MaxCalls
    /\ calls' = calls + 1
    /\ \E created_at \in 1..MaxTime, refused \in BOOLEAN :
          /\ created_at = 1 \/ op \in {"record_event", "upsert_group"}
          /\ call' = [call EXCEPT ![w] = [NoCall EXCEPT
                !.phase = "ready", !.op = op, !.key = key, !.n = calls + 1,
                !.refused = refused, !.created_at = created_at]]
    /\ UNCHANGED <<pool, db, log, unsure>>

\* A UUIDv7 is fresh; one whose statement was not applied is given again here.
generate_id ==
    CHOOSE id \in 1..(Cardinality(Callers) + Len(log) + 1) :
        /\ \A w \in Callers : call[w].id # id
        /\ \A conn \in Connections : \A e \in Tables(conn).events : e.id # id

\* Everything up to the await: the id is drawn anew for every attempt.  The error
\* of the one before is done with.
Attempt(w) ==
    /\ call[w].phase = "ready"
    /\ call' = [call EXCEPT ![w] = [@ EXCEPT !.phase = "sent", !.error = NoError,
                   !.id = IF call[w].op = "record_event" THEN generate_id ELSE 0]]
    /\ UNCHANGED <<pool, db, calls, log, unsure>>

\* The statement is applied, through whatever connection the pool gives.  An
\* insert that cannot give its row back is followed by a look-up of the row; the
\* upserts ask for no row.
Execute(w) ==
    /\ call[w].phase = "sent" /\ ~call[w].refused
    /\ \E conn \in Connections :
          LET i == IF pool.memory THEN conn ELSE 1
          IN db' = [db EXCEPT ![i] = Apply(@, call[w])]
    /\ log' = Append(log, [op |-> call[w].op, key |-> call[w].key, n |-> call[w].n,
                           created_at |-> call[w].created_at])
    /\ call' = [call EXCEPT ![w].phase =
                    IF call[w].op = "record_event" /\ ~pool.returning THEN "inserted" ELSE "executed"]
    /\ UNCHANGED <<pool, calls, unsure>>

\* The row is read by its id, through whatever connection the pool gives now.
Lookup(w) ==
    /\ call[w].phase = "inserted"
    /\ \E conn \in Connections : \E e \in Tables(conn).events : e.id = call[w].id
    /\ call' = [call EXCEPT ![w].phase = "executed"]
    /\ UNCHANGED <<pool, db, calls, log, unsure>>

AnswerOk(w) ==
    /\ call[w].phase = "executed"
    /\ call' = [call EXCEPT ![w] = NoCall]
    /\ UNCHANGED <<pool, db, calls, log, unsure>>

\* Retried when transient; at any other error the caller stops, for good.
Recover(w, error) ==
    call' = [call EXCEPT ![w] = [@ EXCEPT !.error = error,
                !.phase = IF is_retriable(classify(error)) THEN "ready" ELSE "halted"]]

FailureErrors == {FromDbErr(err) : err \in Failures}
RefusalErrors == {FromDbErr(err) : err \in Refusals}
LostErrors    == {FromDbErr(err) : err \in Lost}

\* Not applied, this time or at all.
Fail(w) ==
    /\ call[w].phase = "sent"
    /\ ~call[w].refused
    /\ \E error \in FailureErrors : Recover(w, error)
    /\ UNCHANGED <<pool, db, calls, log, unsure>>

Refuse(w) ==
    /\ call[w].phase = "sent"
    /\ call[w].refused
    /\ \E error \in RefusalErrors : Recover(w, error)
    /\ UNCHANGED <<pool, db, calls, log, unsure>>

\* Applied, but the connection breaks before the answer.
LoseAnswer(w) ==
    /\ call[w].phase = "executed"
    /\ \E error \in LostErrors : Recover(w, error)
    /\ UNCHANGED <<pool, db, calls, log, unsure>>

\* The row is inserted, but the pool has no connection for the look-up, it meets
\* a lock, or the answer to either statement is lost: one error for the two.
LookupFails(w) ==
    /\ call[w].phase = "inserted"
    /\ Len(log) < MaxLog
    /\ \E error \in FailureErrors \cup LostErrors : Recover(w, error)
    /\ unsure' = unsure \cup {call[w].n}
    /\ UNCHANGED <<pool, db, calls, log>>

\* All calls are made and over.
Finished ==
    /\ \A w \in Callers : call[w].phase \in {"idle", "halted"}
    /\ \/ calls = MaxCalls
       \/ \A w \in Callers : call[w].phase = "halted"
    /\ UNCHANGED vars

Next ==
    \/ \E url \in Urls : connect(url)
    \/ \E w \in Callers :
          \/ \E op \in Ops, key \in Keys : Call(w, op, key)
          \/ Attempt(w) \/ Execute(w) \/ Lookup(w) \/ AnswerOk(w)
          \/ Fail(w) \/ Refuse(w) \/ LookupFails(w) \/ LoseAnswer(w)
    \/ Finished

Spec == Init /\ [][Next]_vars

(* A caller tries, the driver answers, and a statement that is sent again and *)
(* again, a look-up too, gets through to the database at last.                *)
Fairness ==
    \A w \in Callers :
        /\ WF_vars(Attempt(w))
        /\ WF_vars(AnswerOk(w))
        /\ SF_vars(Execute(w) \/ Refuse(w))
        /\ SF_vars(Lookup(w))

LiveSpec == Spec /\ Fairness

-----------------------------------------------------------------------------
(* Properties                                                                *)

Numbers == 1..MaxCalls
Times   == 1..MaxTime

Begun == [phase : {"ready", "sent", "inserted", "executed", "halted"}, op : Ops, key : Keys, n : Numbers,
          refused : BOOLEAN, created_at : Times, id : Nat,
          error : {NoError} \cup FailureErrors \cup RefusalErrors \cup LostErrors]

Applied == [op : Ops, key : Keys, n : Numbers, created_at : Times]

TableOf(rows) == UNION {[K -> rows] : K \in SUBSET Keys}

Database ==
    [events   : SUBSET [id : Nat, payload : Numbers, group_id : Keys, created_at : Times],
     groups   : TableOf([config_json : Numbers, created_at : Times]),
     state    : TableOf(Numbers),
     sessions : TableOf(Numbers)]

TypeOK ==
    /\ pool \in [memory : BOOLEAN, returning : BOOLEAN, size : 0..PoolSize]
    /\ calls \in 0..MaxCalls
    /\ call \in [Callers -> {NoCall} \cup Begun]
    /\ log \in Seq(Applied)
    /\ unsure \subseteq Numbers
    /\ db \in [1..PoolSize -> Database]

\* A call takes effect once at most, however often it is tried: what is retried
\* has not been applied, and an answer that was lost is not retried.  The one
\* exception is an event whose row was inserted and not found again, and there
\* is none where INSERT gives its row back.
OnceEach ==
    /\ \A i, j \in DOMAIN log : log[i].n = log[j].n => i = j \/ log[i].n \in unsure
    /\ \A w \in Callers : call[w].phase \in {"ready", "sent"} =>
          \A i \in DOMAIN log : log[i].n = call[w].n => log[i].n \in unsure
    /\ \A i \in DOMAIN log : log[i].n \in unsure => log[i].op = "record_event"
    /\ pool.returning => unsure = {}

\* The audit log is a trace of what happened (types/event.rs): an event that is
\* recorded, and recorded again when the store calls the error transient, is one
\* row.
EventsRecordedOnce ==
    \A conn \in Connections : \A d, e \in Tables(conn).events : d.payload = e.payload => d = e

Of(op, key) == {i \in DOMAIN log : log[i].op = op /\ log[i].key = key}
First(S)  == {log[i] : i \in {i \in S : \A j \in S : i <= j}}
Latest(S) == {log[i] : i \in {i \in S : \A j \in S : i >= j}}

\* Whatever connection serves a read: the tables are what the statements made
\* of them in the order in which they were applied.  A row is one call's, but
\* for the time of a group's first registration, which stays.
ReadsSeeAllWrites ==
    \A conn \in Connections : LET tables == Tables(conn) IN
        /\ {<<e.payload, e.created_at>> : e \in tables.events} =
              {<<log[i].n, log[i].created_at>> : i \in {j \in DOMAIN log : log[j].op = "record_event"}}
        /\ \A key \in Keys :
              /\ get_group(tables, key) =
                    {[config_json |-> last.n, created_at |-> first.created_at] :
                        first \in First(Of("upsert_group", key)), last \in Latest(Of("upsert_group", key))}
              /\ get_state(tables, key) = {last.n : last \in Latest(Of("set_state", key))}
              /\ get_session(tables, key) = {last.n : last \in Latest(Of("set_session", key))}

\* What is left of a text: nothing of what a search finds in one go, and
\* everything else (of a Redacted that a driver wrote, at least its ">").
IsRedaction(message, text) ==
    /\ DOMAIN message = DOMAIN text
    /\ \A i \in DOMAIN text :
          IF i \in Matched(text) THEN message[i] \in {Redacted, Nothing, Stop}
          ELSE message[i] = text[i] \/ (text[i] = Redacted /\ message[i] = Stop)

\* The error a caller holds is a driver's error less its URLs, in whichever layer
\* and of whichever kind they are: the passes one after another, each of which
\* puts words in where the next may stop, take out what one search would.
ErrorsAreRedacted ==
    \A w \in Callers : call[w].error # NoError =>
        \E err \in Failures \cup Refusals \cup Lost :
            /\ DOMAIN call[w].error.message = DOMAIN err.chain
            /\ \A layer \in DOMAIN err.chain :
                  IsRedaction(call[w].error.message[layer], err.chain[layer])

\* A reader that has seen everything up to some time and asks for what is later
\* gets what one that asks for everything gets, less what it has seen.
SinceIsNotAnotherView ==
    \A conn \in Connections : \A since \in 1..MaxTime, limit \in 0..(MAX_PAGE_SIZE + 1) :
        LET events == Tables(conn).events
        IN list_events(events, [group_id |-> None, since |-> since], limit) =
              {e \in list_events(events, [group_id |-> None, since |-> 0], limit) : e.created_at > since}

\* No call is retried for ever: it is answered, or its caller stops.
CallsEnd ==
    \A w \in Callers : call[w].phase \in {"ready", "sent", "inserted", "executed"} ~> call[w].phase \in {"idle", "halted"}
=============================================================================
