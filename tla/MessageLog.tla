----------------------------- MODULE MessageLog -----------------------------
(* The messages table of the store: store_message and get_messages_since     *)
(* (crates/store/src/ops/messages.rs) running concurrently against one        *)
(* database.  A writer is one call of store_message, a transaction of its own *)
(* connection; a reader is a consumer of one group's stream that pages        *)
(* through it with a Cursor.                                                  *)
(*                                                                            *)
(* Two back ends are modelled.  On Postgres a writer takes an advisory lock   *)
(* keyed on a hash of the group, then a number from a sequence that is not    *)
(* rolled back; writers of different keys overlap.  On SQLite the INSERT      *)
(* takes the database's only write lock, and AUTOINCREMENT is rolled back     *)
(* with the transaction.                                                      *)
EXTENDS Integers, FiniteSets

CONSTANTS
    Backend,        \* "postgres" or "sqlite"
    Writers,        \* connections on which store_message is called
    Readers,        \* consumers of get_messages_since
    Groups,         \* group ids
    Ids,            \* caller-supplied correlation ids
    LockKey,        \* group -> the 64-bit hash its advisory lock is keyed on
    ReaderGroup,    \* reader -> the group it follows
    Limits,         \* reader -> the page sizes it asks for
    MAX_PAGE_SIZE,  \* cap on a page
    MaxCalls        \* bound: calls of store_message in a behaviour

ASSUME BackendAssumption  == Backend \in {"postgres", "sqlite"}
ASSUME FunctionAssumption == /\ DOMAIN LockKey = Groups
                             /\ ReaderGroup \in [Readers -> Groups]
ASSUME BoundAssumption    == /\ \A r \in Readers : Limits[r] \subseteq Int
                             /\ MAX_PAGE_SIZE \in Nat \ {0}
                             /\ MaxCalls \in Nat

VARIABLES
    rows,       \* the committed rows of table messages
    lastSeq,    \* Postgres: the sequence's value; SQLite: sqlite_sequence
    tx,         \* writer -> its call: phase, message, seq, last result
    calls,      \* how many calls were made (for the bound MaxCalls)
    cursor,     \* reader -> seq of the Cursor it will ask from
    batch,      \* reader -> rows fetched and not yet processed
    delivered   \* reader -> seqs processed since it started (history)

vars == <<rows, lastSeq, tx, calls, cursor, batch, delivered>>

Phases  == {"idle", "begun", "locked", "allocated", "inserted"}
Results == {"none", "ok", "duplicate", "failed"}

Row == [seq : Nat, id : Ids, group : Groups]

Tx == [phase : Phases, id : Ids, group : Groups, seq : Nat, result : Results]

InGroup(g) == {row \in rows : row.group = g}

Numbered(w) == tx[w].phase \in {"allocated", "inserted"}

\* Mutant: a session-scoped lock, which outlives the transaction that took it.
HoldsLock_Session(w) ==
    Backend = "postgres" /\ (tx[w].seq # 0 \/ tx[w].phase = "locked")

\* A transaction-scoped advisory lock is held until its transaction ends.
HoldsLock(w) ==
    Backend = "postgres" /\ tx[w].phase \in {"locked", "allocated", "inserted"}

TypeOK ==
    /\ rows \subseteq Row
    /\ lastSeq \in Nat
    /\ tx \in [Writers -> Tx]
    /\ calls \in Nat
    /\ cursor \in [Readers -> Nat]
    /\ batch \in [Readers -> SUBSET Row]
    /\ delivered \in [Readers -> SUBSET Nat]

Init ==
    /\ rows = {}
    /\ lastSeq = 0
    /\ \E id \in Ids, g \in Groups :        \* no call yet: any message
          tx = [w \in Writers |-> [phase |-> "idle", id |-> id, group |-> g,
                                  seq |-> 0, result |-> "none"]]
    /\ calls = 0
    /\ cursor = [r \in Readers |-> 0]
    /\ batch = [r \in Readers |-> {}]
    /\ delivered = [r \in Readers |-> {}]

-----------------------------------------------------------------------------
(* store_message                                                             *)

Enter(w, phase) == tx' = [tx EXCEPT ![w].phase = phase]
Return(w, result) ==
    tx' = [tx EXCEPT ![w] = [@ EXCEPT !.phase = "idle", !.result = result]]

\* BEGIN.  SQLite's is deferred, Postgres takes no snapshot yet: nothing is
\* locked.  Any caller may send any id, one that is being stored already too.
Begin(w, id, g) ==
    /\ tx[w].phase = "idle"
    /\ calls < MaxCalls
    /\ tx' = [tx EXCEPT ![w] = [phase |-> "begun", id |-> id, group |-> g,
                                seq |-> 0, result |-> "none"]]
    /\ calls' = calls + 1
    /\ UNCHANGED <<rows, lastSeq, cursor, batch, delivered>>

\* Mutant: pg_try_advisory_xact_lock, whose answer nobody looks at.
AcquireLock_Try(w) ==
    /\ Backend = "postgres"
    /\ tx[w].phase = "begun"
    /\ Enter(w, "locked")
    /\ UNCHANGED <<rows, lastSeq, calls, cursor, batch, delivered>>

\* pg_advisory_xact_lock waits until no open transaction holds the key.  Two
\* groups may share a key: the lock is keyed on a hash.
AcquireLock(w) ==
    /\ Backend = "postgres"
    /\ tx[w].phase = "begun"
    /\ \A v \in Writers : HoldsLock(v) => LockKey[tx[v].group] # LockKey[tx[w].group]
    /\ Enter(w, "locked")
    /\ UNCHANGED <<rows, lastSeq, calls, cursor, batch, delivered>>

\* Mutant: the INSERT runs before the lock is asked for.
AllocateSeq_Unlocked(w) ==
    /\ tx[w].phase = "begun"
    /\ tx' = [tx EXCEPT ![w] = [@ EXCEPT !.phase = "allocated", !.seq = lastSeq + 1]]
    /\ lastSeq' = IF Backend = "postgres" THEN lastSeq + 1 ELSE lastSeq
    /\ UNCHANGED <<rows, calls, cursor, batch, delivered>>

\* The INSERT assigns seq before it checks any index.
AllocateSeq(w) ==
    /\ \/ /\ Backend = "postgres"
          /\ tx[w].phase = "locked"
          /\ lastSeq' = lastSeq + 1
       \/ /\ Backend = "sqlite"
          /\ tx[w].phase = "begun"
          /\ \A v \in Writers : ~Numbered(v)
          /\ lastSeq' = lastSeq
    /\ tx' = [tx EXCEPT ![w] = [@ EXCEPT !.phase = "allocated", !.seq = lastSeq + 1]]
    /\ UNCHANGED <<rows, calls, cursor, batch, delivered>>

\* Mutant: an index on id that is not unique.
InsertRow_NotUnique(w) ==
    /\ tx[w].phase = "allocated"
    /\ Enter(w, "inserted")
    /\ UNCHANGED <<rows, lastSeq, calls, cursor, batch, delivered>>

\* The unique index on id: the INSERT waits for an open transaction that has
\* inserted the same id, and looks again when that one ends.
InsertRow(w) ==
    /\ tx[w].phase = "allocated"
    /\ \A row \in rows : row.id # tx[w].id
    /\ \A v \in Writers : tx[v].phase = "inserted" => tx[v].id # tx[w].id
    /\ Enter(w, "inserted")
    /\ UNCHANGED <<rows, lastSeq, calls, cursor, batch, delivered>>

\* Mutant: a unique violation is taken for a transient error and tried again.
RejectDuplicate_TryAgain(w) ==
    /\ tx[w].phase = "allocated"
    /\ \E row \in rows : row.id = tx[w].id
    /\ UNCHANGED vars

RejectDuplicate(w) ==
    /\ tx[w].phase = "allocated"
    /\ \E row \in rows : row.id = tx[w].id
    /\ Return(w, "duplicate")
    /\ UNCHANGED <<rows, lastSeq, calls, cursor, batch, delivered>>

\* Mutant: commit is forgotten, the transaction is dropped and Ok returned.
Commit_Forgotten(w) ==
    /\ tx[w].phase = "inserted"
    /\ Return(w, "ok")
    /\ UNCHANGED <<rows, lastSeq, calls, cursor, batch, delivered>>

\* COMMIT takes effect at the server; its answer reaches the caller as Ok, or
\* the connection is lost first and the caller sees an error.
Commit(w) ==
    /\ tx[w].phase = "inserted"
    /\ rows' = rows \cup {[seq |-> tx[w].seq, id |-> tx[w].id, group |-> tx[w].group]}
    /\ lastSeq' = IF Backend = "sqlite" THEN tx[w].seq ELSE lastSeq
    /\ \E result \in {"ok", "failed"} : Return(w, result)
    /\ UNCHANGED <<calls, cursor, batch, delivered>>

\* Any of the four awaits fails, or the caller's future is dropped, or its
\* process dies: the transaction is rolled back.  A number taken from the
\* Postgres sequence is not given back.
Abort(w) ==
    /\ tx[w].phase # "idle"
    /\ Return(w, "failed")
    /\ UNCHANGED <<rows, lastSeq, calls, cursor, batch, delivered>>

\* "database is locked": SQLite gives up waiting for the write lock.
Busy(w) ==
    /\ Backend = "sqlite"
    /\ tx[w].phase = "begun"
    /\ \E v \in Writers : Numbered(v)
    /\ Abort(w)

-----------------------------------------------------------------------------
(* get_messages_since, and the consumer that calls it                        *)

\* Mutant: a page larger than the largest is not given at all.
clamped_take_Refuses(limit) == IF limit <= MAX_PAGE_SIZE THEN limit ELSE 0

\* A limit that is not negative, cut down to the largest page.
clamped_take(limit) == IF limit < MAX_PAGE_SIZE THEN limit ELSE MAX_PAGE_SIZE

\* Mutant: LIMIT without ORDER BY.
IsPage_Unordered(page, matching, n) ==
    Cardinality(page) = IF Cardinality(matching) < n THEN Cardinality(matching) ELSE n

\* What ORDER BY seq ASC LIMIT n leaves of a set of rows.
IsPage(page, matching, n) ==
    /\ Cardinality(page) = IF Cardinality(matching) < n THEN Cardinality(matching) ELSE n
    /\ \A row \in page, other \in matching \ page : row.seq < other.seq

\* A negative limit is refused (InvalidLimit): the reader has an error and no page.
Fetch(r, limit) ==
    /\ batch[r] = {}
    /\ limit >= 0
    /\ LET matching == {row \in InGroup(ReaderGroup[r]) : row.seq > cursor[r]}
       IN \E page \in SUBSET matching :
             /\ IsPage(page, matching, clamped_take(limit))
             /\ batch' = [batch EXCEPT ![r] = page]
    /\ UNCHANGED <<rows, lastSeq, tx, calls, cursor, delivered>>

\* Mutant: rows are taken newest first.
Process_NewestFirst(r) ==
    /\ \E row \in batch[r] :
          /\ \A other \in batch[r] : row.seq >= other.seq
          /\ cursor' = [cursor EXCEPT ![r] = row.seq]
          /\ delivered' = [delivered EXCEPT ![r] = @ \cup {row.seq}]
          /\ batch' = [batch EXCEPT ![r] = @ \ {row}]
    /\ UNCHANGED <<rows, lastSeq, tx, calls>>

\* The consumer takes the rows of a page in the order they came and moves its
\* cursor to Cursor::after(seq) of the last one it has seen.
Process(r) ==
    /\ \E row \in batch[r] :
          /\ \A other \in batch[r] : row.seq <= other.seq
          /\ cursor' = [cursor EXCEPT ![r] = row.seq]
          /\ delivered' = [delivered EXCEPT ![r] = @ \cup {row.seq}]
          /\ batch' = [batch EXCEPT ![r] = @ \ {row}]
    /\ UNCHANGED <<rows, lastSeq, tx, calls>>

\* A consumer that dies in the middle of a page starts again from the cursor
\* it saved, or from Cursor::beginning().
Restart(r) ==
    /\ batch' = [batch EXCEPT ![r] = {}]
    /\ \/ UNCHANGED <<cursor, delivered>>
       \/ /\ cursor' = [cursor EXCEPT ![r] = 0]
          /\ delivered' = [delivered EXCEPT ![r] = {}]
    /\ UNCHANGED <<rows, lastSeq, tx, calls>>

-----------------------------------------------------------------------------
store_message(w) ==
    \/ AcquireLock(w)
    \/ AllocateSeq(w)
    \/ InsertRow(w)
    \/ RejectDuplicate(w)
    \/ Commit(w)

Next ==
    \/ \E w \in Writers :
          \/ \E id \in Ids, g \in Groups : Begin(w, id, g)
          \/ store_message(w)
          \/ Abort(w)
    \/ \E r \in Readers :
          \/ \E limit \in Limits[r] : Fetch(r, limit)
          \/ Process(r)
          \/ Restart(r)

Spec == Init /\ [][Next]_vars

(* Postgres queues the waiters of an advisory lock, SQLite's busy handler     *)
(* gives up after a while, and every other statement answers: a call that     *)
(* can go on goes on.  A consumer keeps polling with a page size above 0 and  *)
(* eventually stays up.                                                       *)
Fairness ==
    /\ \A w \in Writers : WF_vars(store_message(w) \/ Busy(w))
    /\ \A r \in Readers : WF_vars(\E limit \in Limits[r] : limit > 0 /\ Fetch(r, limit))
    /\ \A r \in Readers : WF_vars(Process(r))
    /\ \A r \in Readers : <>[][~Restart(r)]_vars

LiveSpec == Spec /\ Fairness

-----------------------------------------------------------------------------
(* Properties                                                                *)

\* No reader is ever past a row it has not seen: what a consumer has processed
\* is exactly what is committed in its group up to its cursor, whatever
\* transactions commit after the page was read (messages.rs:23-29).
NoSkippedMessage ==
    \A r \in Readers :
        delivered[r] = {row.seq : row \in {m \in InGroup(ReaderGroup[r]) : m.seq <= cursor[r]}}

\* A transaction that holds a number will commit behind every row its group
\* already shows: seq order is commit order within a group (messages.rs:54).
CommitOrder ==
    \A w \in Writers : Numbered(w) =>
        \A row \in InGroup(tx[w].group) : row.seq < tx[w].seq

\* The table never holds two rows of one id or of one seq, however often a
\* call is retried after a lost answer and although SQLite reuses the number
\* of a transaction that was rolled back.
UniqueRows ==
    \A m1, m2 \in rows : (m1.seq = m2.seq \/ m1.id = m2.id) => m1 = m2

\* What a caller is told: Ok only if its message is in the table, a unique
\* violation only if some message with that id is.
HonestResult ==
    \A w \in Writers :
        /\ tx[w].result = "ok" =>
              \E row \in rows : row.id = tx[w].id /\ row.group = tx[w].group
        /\ tx[w].result = "duplicate" => \E row \in rows : row.id = tx[w].id

\* Two open transactions that both hold a number hold different advisory locks
\* (so they are of different groups), and SQLite has one such transaction.
WriterExclusion ==
    \A v, w \in Writers : v # w =>
        /\ HoldsLock(v) /\ HoldsLock(w) => LockKey[tx[v].group] # LockKey[tx[w].group]
        /\ Numbered(v) /\ Numbered(w) => Backend = "postgres"

\* Numbers: nobody holds one that a row or another open transaction has.
FreshNumbers ==
    /\ \A row \in rows : row.seq \in 1..lastSeq
    /\ \A w \in Writers : Numbered(w) =>
          /\ IF Backend = "sqlite" THEN tx[w].seq = lastSeq + 1 ELSE tx[w].seq \in 1..lastSeq
          /\ \A row \in rows : row.seq # tx[w].seq
          /\ \A v \in Writers : Numbered(v) /\ tx[v].seq = tx[w].seq => v = w

\* Ids: an id that is inserted and not yet committed is nobody else's.
FreshIds ==
    \A w \in Writers : tx[w].phase = "inserted" =>
        /\ \A row \in rows : row.id # tx[w].id
        /\ \A v \in Writers : tx[v].phase = "inserted" /\ tx[v].id = tx[w].id => v = w

\* A page a consumer is working through is what follows its cursor in its
\* group, from the cursor on and without a gap; the cursor is on a row.
PageFollowsCursor ==
    \A r \in Readers :
        /\ cursor[r] # 0 => \E row \in InGroup(ReaderGroup[r]) : row.seq = cursor[r]
        /\ \A row \in batch[r] :
              /\ row \in InGroup(ReaderGroup[r])
              /\ row.seq > cursor[r]
              /\ \A m \in InGroup(ReaderGroup[r]) :
                    m.seq > cursor[r] /\ m.seq <= row.seq => m \in batch[r]

\* What every step of the table preserves: the named parts are needed together,
\* the order of commits because of the locks, the readers because of the order.
IndInv ==
    /\ TypeOK
    /\ WriterExclusion
    /\ FreshNumbers
    /\ FreshIds
    /\ CommitOrder
    /\ UniqueRows
    /\ HonestResult
    /\ PageFollowsCursor
    /\ NoSkippedMessage

\* A group's stream is append-only: nothing leaves the table, and a row that
\* appears is above every row of its group that is there.
AppendOnly ==
    [][/\ rows \subseteq rows'
       /\ \A new \in rows' \ rows : \A row \in InGroup(new.group) : row.seq < new.seq]_vars

\* Every message that is committed reaches every consumer of its group.
EventuallyDelivered ==
    \A r \in Readers, id \in Ids :
        (\E row \in InGroup(ReaderGroup[r]) : row.id = id)
            ~> (\E row \in InGroup(ReaderGroup[r]) : row.id = id /\ row.seq \in delivered[r])

\* Every call of store_message returns: no writer waits forever for the
\* advisory lock, the write lock or the unique index.
CallsReturn == \A w \in Writers : tx[w].phase # "idle" ~> tx[w].phase = "idle"

\* The crate's documentation (lib.rs:31-33): "a reader that observes seq = N
\* is guaranteed to see every seq < N that will ever exist".  With a lock per
\* group this is not so of the table as a whole.
GlobalCommitOrder ==
    [][\A new \in rows' \ rows : \A row \in rows : row.seq < new.seq]_vars
=============================================================================
