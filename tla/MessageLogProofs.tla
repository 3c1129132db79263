-------------------------- MODULE MessageLogProofs --------------------------
(* Theorems about MessageLog, for every set of writers, readers, groups and   *)
(* ids, either back end and any hash: the type invariant and the inductive    *)
(* invariant, and what follows from it.                                       *)
EXTENDS MessageLogRefinement, TLAPS

USE BackendAssumption, FunctionAssumption, BoundAssumption

\* A call keeps its type through its phases.
LEMMA CallTypes ==
  ASSUME NEW t \in Tx, NEW p \in Phases, NEW r \in Results, NEW n \in Nat
  PROVE  /\ [t EXCEPT !.phase = p] \in Tx
         /\ [t EXCEPT !.phase = p, !.result = r] \in Tx
         /\ [t EXCEPT !.phase = p, !.seq = n] \in Tx
BY DEF Tx

\* Every variable keeps its type: in particular a row that is committed is one
\* that a call of store_message has been given.
THEOREM Typing == Spec => []TypeOK
<1>1. Init => TypeOK
  BY DEF Init, TypeOK, Tx, Phases, Results
<1>2. TypeOK /\ [Next]_vars => TypeOK'
  <2> SUFFICES ASSUME TypeOK, [Next]_vars PROVE TypeOK'
    OBVIOUS
  <2> USE DEF TypeOK
  <2>0. \A w \in Writers : tx[w] \in Tx
    OBVIOUS
  <2>1. ASSUME NEW w \in Writers, NEW id \in Ids, NEW g \in Groups, Begin(w, id, g)
        PROVE  TypeOK'
    <3>1. [phase |-> "begun", id |-> id, group |-> g, seq |-> 0, result |-> "none"] \in Tx
      BY DEF Tx, Phases, Results
    <3>2. QED
      BY <2>1, <3>1 DEF Begin
  <2>2. ASSUME NEW w \in Writers, AcquireLock(w) PROVE TypeOK'
    <3>1. [tx[w] EXCEPT !.phase = "locked"] \in Tx
      BY <2>0, CallTypes DEF Phases, Results
    <3>2. QED
      BY <2>2, <3>1 DEF AcquireLock, Enter
  <2>3. ASSUME NEW w \in Writers, AllocateSeq(w) PROVE TypeOK'
    <3>1. lastSeq' \in Nat /\ lastSeq + 1 \in Nat
      BY <2>3 DEF AllocateSeq
    <3>2. tx' \in [Writers -> Tx]
      <4>1. [tx[w] EXCEPT !.phase = "allocated", !.seq = lastSeq + 1] \in Tx
        BY <3>1, <2>0, CallTypes DEF Phases, Results
      <4>2. QED
        BY <2>3, <4>1 DEF AllocateSeq
    <3>3. QED
      BY <2>3, <3>1, <3>2 DEF AllocateSeq
  <2>4. ASSUME NEW w \in Writers, InsertRow(w) PROVE TypeOK'
    <3>1. [tx[w] EXCEPT !.phase = "inserted"] \in Tx
      BY <2>0, CallTypes DEF Phases, Results
    <3>2. QED
      BY <2>4, <3>1 DEF InsertRow, Enter
  <2>5. ASSUME NEW w \in Writers, RejectDuplicate(w) PROVE TypeOK'
    <3>1. [tx[w] EXCEPT !.phase = "idle", !.result = "duplicate"] \in Tx
      BY <2>0, CallTypes DEF Phases, Results
    <3>2. QED
      BY <2>5, <3>1 DEF RejectDuplicate, Return
  <2>6. ASSUME NEW w \in Writers, Commit(w) PROVE TypeOK'
    <3>1. tx[w].seq \in Nat /\ tx[w].id \in Ids /\ tx[w].group \in Groups
      BY <2>0 DEF Tx
    <3>2. tx' \in [Writers -> Tx]
      <4>1. PICK result \in {"ok", "failed"} : Return(w, result)
        BY <2>6 DEF Commit
      <4>2. [tx[w] EXCEPT !.phase = "idle", !.result = result] \in Tx
        BY <4>1, <2>0, CallTypes DEF Phases, Results
      <4>3. QED
        BY <4>1, <4>2 DEF Return
    <3>3. lastSeq' \in Nat
      <4>1. lastSeq' \in {tx[w].seq, lastSeq}
        BY <2>6 DEF Commit
      <4>2. QED
        BY <3>1, <4>1
    <3>4. rows' \subseteq Row
      <4>1. [seq |-> tx[w].seq, id |-> tx[w].id, group |-> tx[w].group] \in Row
        BY <3>1 DEF Row
      <4>2. QED
        BY <2>6, <4>1 DEF Commit
    <3>5. QED
      BY <2>6, <3>2, <3>3, <3>4 DEF Commit
  <2>7. ASSUME NEW w \in Writers, Abort(w) PROVE TypeOK'
    <3>1. [tx[w] EXCEPT !.phase = "idle", !.result = "failed"] \in Tx
      BY <2>0, CallTypes DEF Phases, Results
    <3>2. QED
      BY <2>7, <3>1 DEF Abort, Return
  <2>8. ASSUME NEW r \in Readers, NEW limit \in Limits[r], Fetch(r, limit) PROVE TypeOK'
    BY <2>8 DEF Fetch, InGroup
  <2>9. ASSUME NEW r \in Readers, Process(r) PROVE TypeOK'
    BY <2>9 DEF Process, Row
  <2>10. ASSUME NEW r \in Readers, Restart(r) PROVE TypeOK'
    BY <2>10 DEF Restart
  <2>11. CASE UNCHANGED vars
    BY <2>11 DEF vars
  <2>12. QED
    BY <2>1, <2>2, <2>3, <2>4, <2>5, <2>6, <2>7, <2>8, <2>9, <2>10, <2>11
    DEF Next, store_message
<1>3. QED
  BY <1>1, <1>2, PTL DEF Spec

\* The inductive invariant holds before the first call.
LEMMA InitEstablishes == Init => IndInv
<1> SUFFICES ASSUME Init PROVE IndInv
  OBVIOUS
<1>1. TypeOK
  BY DEF Init, TypeOK, Tx, Phases, Results
<1>2. rows = {} /\ \A w \in Writers : tx[w].phase = "idle" /\ tx[w].result = "none"
  BY DEF Init
<1>3. WriterExclusion /\ FreshNumbers /\ FreshIds /\ CommitOrder /\ UniqueRows /\ HonestResult
  BY <1>2 DEF WriterExclusion, FreshNumbers, FreshIds, CommitOrder, UniqueRows,
              HonestResult, HoldsLock, Numbered, InGroup
<1>4. PageFollowsCursor /\ NoSkippedMessage
  BY DEF Init, PageFollowsCursor, NoSkippedMessage, InGroup
<1>5. QED
  BY <1>1, <1>3, <1>4 DEF IndInv

\* A step of one writer that changes nothing but its own call.
LEMMA OthersUntouched ==
  ASSUME TypeOK, NEW w \in Writers, NEW t \in Tx, tx' = [tx EXCEPT ![w] = t]
  PROVE  /\ tx'[w] = t
         /\ \A v \in Writers : v # w => /\ tx'[v] = tx[v]
                                        /\ HoldsLock(v)' <=> HoldsLock(v)
                                        /\ Numbered(v)' <=> Numbered(v)
<1>1. tx'[w] = t /\ \A v \in Writers : v # w => tx'[v] = tx[v]
  BY DEF TypeOK
<1>2. QED
  BY <1>1 DEF HoldsLock, Numbered

\* A step after which the writer holds no number, and that commits nothing,
\* preserves the invariant if the lock it may now hold is nobody else's and
\* what it has told its caller is true.
LEMMA QuietStep ==
  ASSUME IndInv, TypeOK', NEW w \in Writers,
         \A v \in Writers : v # w => /\ tx'[v] = tx[v]
                                     /\ HoldsLock(v)' <=> HoldsLock(v)
                                     /\ Numbered(v)' <=> Numbered(v),
         ~Numbered(w)',
         HoldsLock(w)' => \A v \in Writers :
            v # w /\ HoldsLock(v) => LockKey[tx[v].group] # LockKey[tx'[w].group],
         \/ tx'[w].result \notin {"ok", "duplicate"}
         \/ /\ tx'[w].result = "duplicate"
            /\ \E row \in rows : row.id = tx'[w].id
         \/ /\ tx'[w].result = tx[w].result
            /\ tx'[w].id = tx[w].id
            /\ tx'[w].group = tx[w].group,
         UNCHANGED <<rows, lastSeq, cursor, batch, delivered>>
  PROVE  IndInv'
<1>1. WriterExclusion'
  BY DEF IndInv, WriterExclusion
<1>2. FreshNumbers' /\ CommitOrder'
  BY DEF IndInv, FreshNumbers, CommitOrder, InGroup
<1>3. FreshIds'
  BY DEF IndInv, FreshIds, Numbered
<1>4. HonestResult'
  BY DEF IndInv, HonestResult
<1>5. UniqueRows' /\ PageFollowsCursor' /\ NoSkippedMessage'
  BY DEF IndInv, UniqueRows, PageFollowsCursor, NoSkippedMessage, InGroup
<1>6. QED
  BY <1>1, <1>2, <1>3, <1>4, <1>5 DEF IndInv

LEMMA BeginStep ==
  ASSUME IndInv, TypeOK', NEW w \in Writers, NEW id \in Ids, NEW g \in Groups, Begin(w, id, g)
  PROVE  IndInv'
<1> DEFINE t == [phase |-> "begun", id |-> id, group |-> g, seq |-> 0, result |-> "none"]
<1>1. t \in Tx
  BY DEF Tx, Phases, Results
<1>2. tx' = [tx EXCEPT ![w] = t] /\ UNCHANGED <<rows, lastSeq, cursor, batch, delivered>>
  BY DEF Begin
<1>3. tx'[w] = t /\ ~HoldsLock(w)' /\ ~Numbered(w)'
  BY <1>1, <1>2 DEF IndInv, TypeOK, HoldsLock, Numbered
<1>4. tx'[w].result \notin {"ok", "duplicate"}
  BY <1>3
<1>5. QED
  BY <1>1, <1>2, <1>3, <1>4, OthersUntouched, QuietStep DEF IndInv

LEMMA AcquireLockStep ==
  ASSUME IndInv, TypeOK', NEW w \in Writers, AcquireLock(w)
  PROVE  IndInv'
<1> DEFINE t == [tx[w] EXCEPT !.phase = "locked"]
<1>1. t \in Tx
  <2>1. tx[w] \in Tx
    BY DEF IndInv, TypeOK
  <2>2. QED
    BY <2>1 DEF Tx, Phases, Results
<1>2. tx' = [tx EXCEPT ![w] = t] /\ UNCHANGED <<rows, lastSeq, cursor, batch, delivered>>
  BY DEF AcquireLock, Enter
<1>3. /\ t.phase = "locked" /\ t.result = tx[w].result
      /\ t.id = tx[w].id /\ t.group = tx[w].group
  BY DEF IndInv, TypeOK, Tx
<1> HIDE DEF t
<1>4. tx'[w] = t /\ ~Numbered(w)'
  BY <1>1, <1>2, <1>3 DEF IndInv, TypeOK, Numbered
<1>5. \A v \in Writers : HoldsLock(v) => LockKey[tx[v].group] # LockKey[tx'[w].group]
  BY <1>3, <1>4 DEF AcquireLock
<1>6. QED
  BY <1>1, <1>2, <1>3, <1>4, <1>5, OthersUntouched, QuietStep DEF IndInv

\* Ending a transaction without a commit releases what it held and nothing else.
LEMMA RollbackStep ==
  ASSUME IndInv, TypeOK', NEW w \in Writers, NEW result \in {"failed", "duplicate"},
         Return(w, result),
         result = "duplicate" => \E row \in rows : row.id = tx[w].id,
         UNCHANGED <<rows, lastSeq, cursor, batch, delivered>>
  PROVE  IndInv'
<1> DEFINE t == [tx[w] EXCEPT !.phase = "idle", !.result = result]
<1>1. t \in Tx
  <2>1. tx[w] \in Tx
    BY DEF IndInv, TypeOK
  <2>2. QED
    BY <2>1 DEF Tx, Phases, Results
<1>2. tx' = [tx EXCEPT ![w] = t]
  BY DEF Return
<1>3. t.phase = "idle" /\ t.result = result /\ t.id = tx[w].id
  BY DEF IndInv, TypeOK, Tx
<1> HIDE DEF t
<1>4. tx'[w] = t /\ ~HoldsLock(w)' /\ ~Numbered(w)'
  BY <1>1, <1>2, <1>3 DEF IndInv, TypeOK, HoldsLock, Numbered
<1>5. \/ tx'[w].result \notin {"ok", "duplicate"}
      \/ tx'[w].result = "duplicate" /\ \E row \in rows : row.id = tx'[w].id
  BY <1>3, <1>4
<1>6. QED
  BY <1>1, <1>2, <1>4, <1>5, OthersUntouched, QuietStep DEF IndInv

\* The number a transaction takes is above every row's and every other open
\* transaction's; the lock it holds keeps its group to itself.
LEMMA AllocateSeqStep ==
  ASSUME IndInv, TypeOK', NEW w \in Writers, AllocateSeq(w)
  PROVE  IndInv'
<1> DEFINE t == [tx[w] EXCEPT !.phase = "allocated", !.seq = lastSeq + 1]
<1>1. t \in Tx
  <2>1. tx[w] \in Tx /\ lastSeq + 1 \in Nat
    BY DEF IndInv, TypeOK
  <2>2. QED
    BY <2>1 DEF Tx, Phases
<1>2. tx' = [tx EXCEPT ![w] = t] /\ UNCHANGED <<rows, cursor, batch, delivered>>
  BY DEF AllocateSeq
<1>3. /\ t.phase = "allocated" /\ t.seq = lastSeq + 1 /\ t.result = tx[w].result
      /\ t.id = tx[w].id /\ t.group = tx[w].group
  BY DEF IndInv, TypeOK, Tx
<1> HIDE DEF t
<1>0. TypeOK
  BY DEF IndInv
<1>4. /\ tx'[w] = t
      /\ \A v \in Writers : v # w => /\ tx'[v] = tx[v]
                                     /\ HoldsLock(v)' <=> HoldsLock(v)
                                     /\ Numbered(v)' <=> Numbered(v)
  BY ONLY <1>0, <1>1, <1>2, OthersUntouched
<1>5. \/ Backend = "postgres" /\ HoldsLock(w) /\ lastSeq' = lastSeq + 1
      \/ Backend = "sqlite" /\ lastSeq' = lastSeq /\ \A v \in Writers : ~Numbered(v)
  BY DEF AllocateSeq, HoldsLock
<1>6. lastSeq \in Nat /\ rows \subseteq Row /\ \A v \in Writers : tx[v].seq \in Nat
  BY DEF IndInv, TypeOK, Tx
<1>7. WriterExclusion'
  <2>1. CASE Backend = "postgres"
    BY <2>1, <1>3, <1>4, <1>5 DEF IndInv, WriterExclusion
  <2>2. CASE Backend = "sqlite"
    BY <2>2, <1>3, <1>4, <1>5 DEF IndInv, WriterExclusion, HoldsLock
  <2>3. QED
    BY <2>1, <2>2
<1>8. FreshNumbers'
  BY <1>2, <1>3, <1>4, <1>5, <1>6 DEF IndInv, FreshNumbers, Row
<1>9. CommitOrder'
  BY <1>2, <1>3, <1>4, <1>6 DEF IndInv, CommitOrder, FreshNumbers, InGroup, Row
<1>10. FreshIds' /\ HonestResult'
  BY <1>2, <1>3, <1>4 DEF IndInv, FreshIds, HonestResult
<1>11. UniqueRows' /\ PageFollowsCursor' /\ NoSkippedMessage'
  BY <1>2 DEF IndInv, UniqueRows, PageFollowsCursor, NoSkippedMessage, InGroup
<1>12. QED
  BY <1>7, <1>8, <1>9, <1>10, <1>11 DEF IndInv

LEMMA InsertRowStep ==
  ASSUME IndInv, TypeOK', NEW w \in Writers, InsertRow(w)
  PROVE  IndInv'
<1> DEFINE t == [tx[w] EXCEPT !.phase = "inserted"]
<1>1. t \in Tx
  BY DEF IndInv, TypeOK, Tx, Phases
<1>2. /\ tx' = [tx EXCEPT ![w] = t]
      /\ UNCHANGED <<rows, lastSeq, cursor, batch, delivered>>
      /\ tx[w].phase = "allocated"
  BY DEF InsertRow, Enter
<1>3. /\ t.phase = "inserted" /\ t.result = tx[w].result
      /\ t.id = tx[w].id /\ t.group = tx[w].group /\ t.seq = tx[w].seq
  BY DEF IndInv, TypeOK, Tx
<1> HIDE DEF t
<1>0. TypeOK
  BY DEF IndInv
<1>4. /\ tx'[w] = t
      /\ \A v \in Writers : v # w => /\ tx'[v] = tx[v]
                                     /\ HoldsLock(v)' <=> HoldsLock(v)
                                     /\ Numbered(v)' <=> Numbered(v)
  BY ONLY <1>0, <1>1, <1>2, OthersUntouched
<1>5. (HoldsLock(w)' <=> HoldsLock(w)) /\ Numbered(w)' /\ Numbered(w)
  BY <1>2, <1>3, <1>4 DEF HoldsLock, Numbered
<1>6. WriterExclusion' /\ FreshNumbers' /\ CommitOrder' /\ HonestResult'
  BY <1>2, <1>3, <1>4, <1>5
  DEF IndInv, WriterExclusion, FreshNumbers, CommitOrder, HonestResult, InGroup
<1>7. FreshIds'
  BY <1>2, <1>3, <1>4 DEF InsertRow, IndInv, FreshIds
<1>8. UniqueRows' /\ PageFollowsCursor' /\ NoSkippedMessage'
  BY <1>2 DEF IndInv, UniqueRows, PageFollowsCursor, NoSkippedMessage, InGroup
<1>9. QED
  BY <1>6, <1>7, <1>8 DEF IndInv

\* A commit puts one row at the end of its group: nobody else holds a number of
\* the group, and no cursor or page has reached that far.
LEMMA CommitStep ==
  ASSUME IndInv, TypeOK', NEW w \in Writers, Commit(w)
  PROVE  IndInv'
<1> DEFINE new == [seq |-> tx[w].seq, id |-> tx[w].id, group |-> tx[w].group]
<1>1. PICK result \in {"ok", "failed"} : Return(w, result)
  BY DEF Commit
<1> DEFINE t == [tx[w] EXCEPT !.phase = "idle", !.result = result]
<1>2. t \in Tx
  <2>1. tx[w] \in Tx /\ result \in Results
    BY DEF IndInv, TypeOK, Results
  <2>2. QED
    BY <2>1 DEF Tx, Phases
<1>3. /\ tx' = [tx EXCEPT ![w] = t]
      /\ UNCHANGED <<cursor, batch, delivered>>
      /\ tx[w].phase = "inserted"
      /\ rows' = rows \cup {new}
      /\ lastSeq' = IF Backend = "sqlite" THEN tx[w].seq ELSE lastSeq
  BY <1>1 DEF Commit, Return
<1>4. /\ t.phase = "idle" /\ t.result = result
      /\ t.id = tx[w].id /\ t.group = tx[w].group
  BY DEF IndInv, TypeOK, Tx
<1> HIDE DEF t
<1>0. TypeOK
  BY DEF IndInv
<1>5. /\ tx'[w] = t
      /\ \A v \in Writers : v # w => /\ tx'[v] = tx[v]
                                     /\ HoldsLock(v)' <=> HoldsLock(v)
                                     /\ Numbered(v)' <=> Numbered(v)
  BY ONLY <1>0, <1>2, <1>3, OthersUntouched
<1>6. Numbered(w) /\ ~HoldsLock(w)' /\ ~Numbered(w)'
  BY <1>3, <1>4, <1>5 DEF HoldsLock, Numbered
<1>7. new.seq = tx[w].seq /\ new.id = tx[w].id /\ new.group = tx[w].group
  OBVIOUS
<1> HIDE DEF new
<1>8. /\ lastSeq \in Nat /\ rows \subseteq Row
      /\ \A v \in Writers : tx[v].seq \in Nat /\ tx[v].group \in Groups
  BY DEF IndInv, TypeOK, Tx
<1>9. \A v \in Writers : v # w /\ Numbered(v) => tx[v].group # tx[w].group
  BY <1>6 DEF IndInv, WriterExclusion, HoldsLock, Numbered
<1>10. WriterExclusion'
  BY <1>5, <1>6 DEF IndInv, WriterExclusion
<1>11. FreshNumbers'
  <2>1. CASE Backend = "sqlite"
    <3>1. lastSeq' = lastSeq + 1 /\ new.seq = lastSeq + 1
      BY <2>1, <1>3, <1>6, <1>7 DEF IndInv, FreshNumbers
    <3>2. \A v \in Writers : ~Numbered(v)'
      BY <2>1, <1>5, <1>6 DEF IndInv, WriterExclusion
    <3>3. QED
      BY <3>1, <3>2, <1>3, <1>8 DEF IndInv, FreshNumbers, Row
  <2>2. CASE Backend = "postgres"
    BY <2>2, <1>3, <1>5, <1>6, <1>7, <1>8 DEF IndInv, FreshNumbers, Row
  <2>3. QED
    BY <2>1, <2>2
<1>12. CommitOrder'
  BY <1>3, <1>5, <1>6, <1>7, <1>9 DEF IndInv, CommitOrder, InGroup
<1>13. FreshIds'
  BY <1>3, <1>4, <1>5, <1>7 DEF IndInv, FreshIds
<1>14. UniqueRows'
  BY <1>3, <1>6, <1>7 DEF IndInv, UniqueRows, FreshNumbers, FreshIds
<1>15. HonestResult'
  BY <1>3, <1>4, <1>5, <1>7 DEF IndInv, HonestResult
<1>16. \A r \in Readers : ReaderGroup[r] = new.group => cursor[r] < new.seq
  <2> SUFFICES ASSUME NEW r \in Readers, ReaderGroup[r] = new.group
               PROVE  cursor[r] < new.seq
    OBVIOUS
  <2>1. cursor[r] \in Nat
    BY DEF IndInv, TypeOK
  <2>2. CASE cursor[r] = 0
    BY <2>2, <1>6, <1>7, <1>8 DEF IndInv, FreshNumbers
  <2>3. CASE cursor[r] # 0
    BY <2>3, <1>6, <1>7 DEF IndInv, PageFollowsCursor, CommitOrder
  <2>4. QED
    BY <2>2, <2>3
<1>17. PageFollowsCursor'
  <2>1. \A r \in Readers : ReaderGroup[r] = new.group =>
            \A row \in batch[r] : row.seq < new.seq
    BY <1>6, <1>7 DEF IndInv, PageFollowsCursor, CommitOrder
  <2>2. \A g \in Groups : InGroup(g)' = InGroup(g) \cup (IF new.group = g THEN {new} ELSE {})
    BY <1>3 DEF InGroup
  <2>3. \A r \in Readers : ReaderGroup[r] \in Groups /\ batch[r] \subseteq Row
    BY DEF IndInv, TypeOK
  <2>4. new.seq \in Nat
    BY <1>7, <1>8
  <2>5. QED
    BY <2>1, <2>2, <2>3, <2>4, <1>3 DEF IndInv, PageFollowsCursor, Row
<1>18. NoSkippedMessage'
  BY <1>3, <1>7, <1>8, <1>16 DEF IndInv, NoSkippedMessage, InGroup, TypeOK
<1>19. QED
  BY <1>10, <1>11, <1>12, <1>13, <1>14, <1>15, <1>17, <1>18 DEF IndInv

LEMMA FetchStep ==
  ASSUME IndInv, TypeOK', NEW r \in Readers, NEW limit \in Limits[r], Fetch(r, limit)
  PROVE  IndInv'
<1> DEFINE matching == {row \in InGroup(ReaderGroup[r]) : row.seq > cursor[r]}
<1>1. PICK page \in SUBSET matching :
        /\ IsPage(page, matching, clamped_take(limit))
        /\ batch' = [batch EXCEPT ![r] = page]
  BY DEF Fetch
<1>2. UNCHANGED <<rows, lastSeq, tx, cursor, delivered>>
  BY DEF Fetch
<1>3. batch'[r] = page /\ \A q \in Readers : q # r => batch'[q] = batch[q]
  BY <1>1 DEF IndInv, TypeOK
<1>4. rows \subseteq Row /\ cursor[r] \in Nat
  BY DEF IndInv, TypeOK
<1>5. \A row \in page, m \in matching : m.seq <= row.seq => m \in page
  <2>1. \A row \in page, m \in matching : row.seq \in Nat /\ m.seq \in Nat
    BY <1>1, <1>4 DEF InGroup, Row
  <2>2. QED
    BY <1>1, <2>1 DEF IsPage
<1>6. PageFollowsCursor'
  BY <1>1, <1>2, <1>3, <1>5 DEF IndInv, PageFollowsCursor, InGroup
<1>7. UniqueRows' /\ NoSkippedMessage' /\ FreshNumbers' /\ CommitOrder'
  BY <1>2 DEF IndInv, UniqueRows, NoSkippedMessage, FreshNumbers, CommitOrder, InGroup, Numbered
<1>8. FreshIds' /\ WriterExclusion' /\ HonestResult'
  BY <1>2 DEF IndInv, FreshIds, WriterExclusion, HonestResult, HoldsLock, Numbered
<1>9. QED
  BY <1>6, <1>7, <1>8 DEF IndInv

\* The least row of a page is the next committed row of the group: what lies
\* between the cursor and it would be in the page too.
LEMMA ProcessStep ==
  ASSUME IndInv, TypeOK', NEW r \in Readers, Process(r)
  PROVE  IndInv'
<1>1. PICK row \in batch[r] :
        /\ \A other \in batch[r] : row.seq <= other.seq
        /\ cursor' = [cursor EXCEPT ![r] = row.seq]
        /\ delivered' = [delivered EXCEPT ![r] = @ \cup {row.seq}]
        /\ batch' = [batch EXCEPT ![r] = @ \ {row}]
  BY DEF Process
<1>2. UNCHANGED <<rows, lastSeq, tx>>
  BY DEF Process
<1>3. /\ cursor'[r] = row.seq
      /\ delivered'[r] = delivered[r] \cup {row.seq}
      /\ batch'[r] = batch[r] \ {row}
      /\ \A q \in Readers : q # r => /\ cursor'[q] = cursor[q]
                                     /\ delivered'[q] = delivered[q]
                                     /\ batch'[q] = batch[q]
  BY <1>1 DEF IndInv, TypeOK
<1>4. /\ rows \subseteq Row /\ cursor[r] \in Nat /\ batch[r] \subseteq Row
      /\ InGroup(ReaderGroup[r]) \subseteq Row
  BY DEF IndInv, TypeOK, InGroup
<1>5. /\ row \in InGroup(ReaderGroup[r]) /\ row.seq > cursor[r]
      /\ \A m \in InGroup(ReaderGroup[r]) :
            m.seq > cursor[r] /\ m.seq <= row.seq => m \in batch[r]
  BY <1>1 DEF IndInv, PageFollowsCursor
<1>6. \A m1, m2 \in rows : m1.seq = m2.seq => m1 = m2
  BY DEF IndInv, UniqueRows
<1>7. \A m \in InGroup(ReaderGroup[r]) : m.seq <= row.seq <=> m.seq <= cursor[r] \/ m = row
  <2> SUFFICES ASSUME NEW m \in InGroup(ReaderGroup[r])
               PROVE  m.seq <= row.seq <=> m.seq <= cursor[r] \/ m = row
    OBVIOUS
  <2>1. m.seq \in Nat /\ row.seq \in Nat /\ cursor[r] \in Nat
    BY <1>1, <1>4 DEF Row
  <2>2. m.seq > cursor[r] /\ m.seq <= row.seq => m.seq = row.seq
    BY <1>1, <1>5, <2>1
  <2>3. m \in rows /\ row \in rows
    BY <1>5 DEF InGroup
  <2>4. QED
    BY <1>5, <1>6, <2>1, <2>2, <2>3
<1>8. NoSkippedMessage'
  <2>1. delivered[r] = {m.seq : m \in {n \in InGroup(ReaderGroup[r]) : n.seq <= cursor[r]}}
    BY DEF IndInv, NoSkippedMessage
  <2>2. delivered'[r] = {m.seq : m \in {n \in InGroup(ReaderGroup[r]) : n.seq <= row.seq}}
    BY <1>3, <1>5, <1>7, <2>1
  <2>3. QED
    BY <1>2, <1>3, <2>2 DEF IndInv, NoSkippedMessage, InGroup
<1>9. PageFollowsCursor'
  <2>1. \A q \in Readers : InGroup(ReaderGroup[q])' = InGroup(ReaderGroup[q])
    BY <1>2 DEF InGroup
  <2>2. \A m \in batch[r] : m # row => m.seq > row.seq
    <3> SUFFICES ASSUME NEW m \in batch[r], m # row PROVE m.seq > row.seq
      OBVIOUS
    <3>1. m.seq \in Nat /\ row.seq \in Nat /\ row.seq <= m.seq
      BY <1>1, <1>4 DEF Row
    <3>2. m \in rows /\ row \in rows
      BY <1>1 DEF IndInv, PageFollowsCursor, InGroup
    <3>3. QED
      BY <3>1, <3>2, <1>6
  <2>3. ASSUME NEW m \in batch'[r], NEW n \in InGroup(ReaderGroup[r]),
               n.seq > row.seq, n.seq <= m.seq
        PROVE  n \in batch'[r]
    <3>1. n.seq > cursor[r]
      BY <1>1, <1>4, <1>5, <2>3 DEF Row
    <3>2. m \in batch[r] /\ n \in batch[r]
      BY <1>3, <2>3, <3>1 DEF IndInv, PageFollowsCursor
    <3>3. n # row
      BY <1>1, <1>4, <2>3 DEF Row
    <3>4. QED
      BY <1>3, <3>2, <3>3
  <2>4. ASSUME NEW q \in Readers, q # r
        PROVE  /\ cursor'[q] # 0 => \E m \in InGroup(ReaderGroup[q]) : m.seq = cursor'[q]
               /\ \A m \in batch'[q] :
                    /\ m \in InGroup(ReaderGroup[q]) /\ m.seq > cursor'[q]
                    /\ \A n \in InGroup(ReaderGroup[q]) :
                          n.seq > cursor'[q] /\ n.seq <= m.seq => n \in batch'[q]
    BY <1>3, <2>4 DEF IndInv, PageFollowsCursor
  <2>5. /\ \E m \in InGroup(ReaderGroup[r]) : m.seq = cursor'[r]
        /\ \A m \in batch'[r] : m \in InGroup(ReaderGroup[r]) /\ m.seq > cursor'[r]
    BY <1>3, <1>5, <2>2 DEF IndInv, PageFollowsCursor
  <2>6. QED
    BY <1>3, <2>1, <2>3, <2>4, <2>5 DEF PageFollowsCursor
<1>10. UniqueRows' /\ FreshNumbers' /\ CommitOrder'
  BY <1>2 DEF IndInv, UniqueRows, FreshNumbers, CommitOrder, InGroup, Numbered
<1>11. FreshIds' /\ WriterExclusion' /\ HonestResult'
  BY <1>2 DEF IndInv, FreshIds, WriterExclusion, HonestResult, HoldsLock, Numbered
<1>12. QED
  BY <1>8, <1>9, <1>10, <1>11 DEF IndInv

LEMMA RestartStep ==
  ASSUME IndInv, TypeOK', NEW r \in Readers, Restart(r)
  PROVE  IndInv'
<1>1. UNCHANGED <<rows, lastSeq, tx>>
  BY DEF Restart
<1>2. /\ batch'[r] = {}
      /\ \A q \in Readers : q # r => /\ cursor'[q] = cursor[q]
                                     /\ delivered'[q] = delivered[q]
                                     /\ batch'[q] = batch[q]
      /\ \/ cursor'[r] = cursor[r] /\ delivered'[r] = delivered[r]
         \/ cursor'[r] = 0 /\ delivered'[r] = {}
  BY DEF Restart, IndInv, TypeOK
<1>3. \A q \in Readers : InGroup(ReaderGroup[q])' = InGroup(ReaderGroup[q])
  BY <1>1 DEF InGroup
<1>4. PageFollowsCursor'
  BY <1>2, <1>3 DEF IndInv, PageFollowsCursor
<1>5. \A row \in rows : row.seq \in Nat /\ row.seq > 0
  BY DEF IndInv, FreshNumbers, TypeOK
<1>6. {row.seq : row \in {m \in InGroup(ReaderGroup[r]) : m.seq <= 0}} = {}
  BY <1>5 DEF InGroup
<1>7. NoSkippedMessage'
  BY <1>2, <1>3, <1>6 DEF IndInv, NoSkippedMessage
<1>8. UniqueRows' /\ FreshNumbers' /\ CommitOrder'
  BY <1>1 DEF IndInv, UniqueRows, FreshNumbers, CommitOrder, InGroup, Numbered
<1>9. FreshIds' /\ WriterExclusion' /\ HonestResult'
  BY <1>1 DEF IndInv, FreshIds, WriterExclusion, HonestResult, HoldsLock, Numbered
<1>10. QED
  BY <1>4, <1>7, <1>8, <1>9 DEF IndInv

LEMMA StutterStep == ASSUME IndInv, TypeOK', UNCHANGED vars PROVE IndInv'
<1>1. UniqueRows' /\ FreshNumbers' /\ CommitOrder' /\ FreshIds'
  BY DEF vars, IndInv, UniqueRows, FreshNumbers, CommitOrder, FreshIds, InGroup, Numbered
<1>2. WriterExclusion' /\ HonestResult' /\ PageFollowsCursor' /\ NoSkippedMessage'
  BY DEF vars, IndInv, WriterExclusion, HonestResult, HoldsLock, Numbered,
         PageFollowsCursor, NoSkippedMessage, InGroup
<1>3. QED
  BY <1>1, <1>2 DEF IndInv

\* The inductive invariant of the message log, on either back end and for any
\* hash of groups, with every interleaving of writers, failures and readers.
THEOREM Inductive == Spec => []IndInv
<1>1. IndInv /\ TypeOK' /\ [Next]_vars => IndInv'
  <2> SUFFICES ASSUME IndInv, TypeOK', [Next]_vars PROVE IndInv'
    OBVIOUS
  <2>1. ASSUME NEW w \in Writers, Abort(w) PROVE IndInv'
    BY <2>1, RollbackStep DEF Abort
  <2>2. ASSUME NEW w \in Writers, RejectDuplicate(w) PROVE IndInv'
    BY <2>2, RollbackStep DEF RejectDuplicate
  <2>3. ASSUME NEW w \in Writers, store_message(w) PROVE IndInv'
    BY <2>2, <2>3, AcquireLockStep, AllocateSeqStep, InsertRowStep, CommitStep
    DEF store_message
  <2>4. ASSUME NEW w \in Writers, NEW id \in Ids, NEW g \in Groups, Begin(w, id, g)
        PROVE  IndInv'
    BY <2>4, BeginStep
  <2>5. ASSUME NEW r \in Readers, NEW limit \in Limits[r], Fetch(r, limit) PROVE IndInv'
    BY <2>5, FetchStep
  <2>6. ASSUME NEW r \in Readers, Process(r) \/ Restart(r) PROVE IndInv'
    BY <2>6, ProcessStep, RestartStep
  <2>7. CASE UNCHANGED vars
    BY <2>7, StutterStep
  <2>8. QED
    BY <2>1, <2>3, <2>4, <2>5, <2>6, <2>7 DEF Next
<1>2. QED
  BY <1>1, InitEstablishes, Typing, PTL DEF Spec

\* A consumer never moves past a message it has not seen.
THEOREM ReadersSkipNothing == Spec => []NoSkippedMessage
<1>1. IndInv => NoSkippedMessage
  BY DEF IndInv
<1>2. QED
  BY <1>1, Inductive, PTL

\* Within a group, numbers are committed in the order they are given out.
THEOREM SeqOrderIsCommitOrder == Spec => []CommitOrder
<1>1. IndInv => CommitOrder
  BY DEF IndInv
<1>2. QED
  BY <1>1, Inductive, PTL

\* No id and no seq is stored twice, whatever is retried or rolled back.
THEOREM RowsAreUnique == Spec => []UniqueRows
<1>1. IndInv => UniqueRows
  BY DEF IndInv
<1>2. QED
  BY <1>1, Inductive, PTL

\* What a call of store_message answers is so: a message it stored is there
\* under its number, and one it refused, or gave up, is not stored by that call.
THEOREM ResultsAreHonest == Spec => []HonestResult
<1>1. IndInv => HonestResult
  BY DEF IndInv
<1>2. QED
  BY <1>1, Inductive, PTL

\* A group's stream only grows, at its end.
THEOREM StreamsAppendOnly == Spec => AppendOnly
<1>1. IndInv /\ [Next]_vars =>
        [/\ rows \subseteq rows'
         /\ \A new \in rows' \ rows : \A row \in InGroup(new.group) : row.seq < new.seq]_vars
  <2> SUFFICES ASSUME IndInv, [Next]_vars
               PROVE  /\ rows \subseteq rows'
                      /\ \A new \in rows' \ rows :
                            \A row \in InGroup(new.group) : row.seq < new.seq
    OBVIOUS
  <2>1. CASE rows' = rows
    BY <2>1
  <2>2. ASSUME NEW w \in Writers, Commit(w)
        PROVE  /\ rows \subseteq rows'
               /\ \A new \in rows' \ rows :
                     \A row \in InGroup(new.group) : row.seq < new.seq
    <3>1. /\ Numbered(w)
          /\ rows' = rows \cup {[seq |-> tx[w].seq, id |-> tx[w].id, group |-> tx[w].group]}
      BY <2>2 DEF Commit, Numbered
    <3>2. \A row \in InGroup(tx[w].group) : row.seq < tx[w].seq
      BY <3>1 DEF IndInv, CommitOrder
    <3>3. QED
      BY <3>1, <3>2
  <2>3. rows' = rows \/ \E w \in Writers : Commit(w)
    BY DEF Next, vars, store_message, Begin, AcquireLock, AllocateSeq, InsertRow,
           RejectDuplicate, Abort, Fetch, Process, Restart
  <2>4. QED
    BY <2>1, <2>2, <2>3
<1>2. QED
  BY <1>1, Inductive, PTL DEF Spec, AppendOnly

-----------------------------------------------------------------------------
(* The message log implements the abstract stream: every step of the store    *)
(* and of its consumers is a step of MessageStream or changes nothing of it.  *)

Published(row) == [id |-> row.id, group |-> row.group, before |-> Before(row)]

LEMMA InitRefines == Init => Stream!Init
<1> SUFFICES ASSUME Init PROVE Stream!Init
  OBVIOUS
<1>1. publishedRows = {}
  BY DEF Init, publishedRows
<1>2. \A r \in Readers : InGroup(ReaderGroup[r]) = {}
  BY DEF Init, InGroup
<1>3. seenIds = [r \in Readers |-> {}]
  BY <1>2 DEF seenIds
<1>4. QED
  BY <1>1, <1>3 DEF Stream!Init

\* Steps that neither commit nor process a row are invisible.
LEMMA InvisibleStep ==
  ASSUME UNCHANGED <<rows, delivered>>
  PROVE  UNCHANGED <<publishedRows, seenIds>>
<1>1. publishedRows' = publishedRows
  BY DEF publishedRows, Before, InGroup
<1>2. seenIds' = seenIds
  BY DEF seenIds, InGroup
<1>3. QED
  BY <1>1, <1>2

\* A commit is a publication: the new row's seq is above its group's, so what
\* came before it is all its group shows, and nothing older changes its place.
LEMMA CommitRefines ==
  ASSUME IndInv, NEW w \in Writers, Commit(w)
  PROVE  Stream!Publish(tx[w].id, tx[w].group)
<1>1. PICK new : /\ rows' = rows \cup {new}
                 /\ new.seq = tx[w].seq /\ new.id = tx[w].id /\ new.group = tx[w].group
  <2> DEFINE row == [seq |-> tx[w].seq, id |-> tx[w].id, group |-> tx[w].group]
  <2>1. row.seq = tx[w].seq /\ row.id = tx[w].id /\ row.group = tx[w].group
    OBVIOUS
  <2>2. rows' = rows \cup {row}
    BY DEF Commit
  <2> HIDE DEF row
  <2>3. QED
    BY <2>1, <2>2
<1>2. delivered' = delivered /\ Numbered(w) /\ tx[w].phase = "inserted"
  BY DEF Commit, Numbered
<1>3. /\ \A row \in rows : row.id # new.id /\ row.seq # new.seq
      /\ \A row \in rows : row.group = new.group => row.seq < new.seq
      /\ \A row \in rows : row.seq \in Nat
      /\ new.seq \in Nat
  BY <1>2, <1>1 DEF IndInv, TypeOK, Row, Tx, FreshIds, FreshNumbers, CommitOrder, InGroup
<1>4. ASSUME NEW row \in rows PROVE Before(row)' = Before(row)
  <2>1. {n \in InGroup(row.group)' : n.seq < row.seq}
          = {n \in InGroup(row.group) : n.seq < row.seq}
    BY <1>1, <1>3 DEF InGroup
  <2>2. QED
    BY <2>1 DEF Before
<1>5. Before(new)' = {m.id : m \in InGroup(new.group)}
  <2>1. {n \in InGroup(new.group)' : n.seq < new.seq} = InGroup(new.group)
    BY <1>1, <1>3 DEF InGroup
  <2>2. QED
    BY <2>1 DEF Before
<1>6. publishedRows = {Published(row) : row \in rows}
  BY DEF publishedRows, Published
<1>7. {m.id : m \in {n \in publishedRows : n.group = new.group}}
        = {m.id : m \in InGroup(new.group)}
  <2>1. \A row \in rows : Published(row).id = row.id /\ Published(row).group = row.group
    BY DEF Published
  <2>2. QED
    BY <1>6, <2>1 DEF InGroup
<1>8. publishedRows' = publishedRows \cup
         {[id |-> new.id, group |-> new.group,
           before |-> {m.id : m \in {n \in publishedRows : n.group = new.group}}]}
  <2>1. publishedRows' = {[id |-> row.id, group |-> row.group, before |-> Before(row)'] : row \in rows'}
    BY DEF publishedRows
  <2>2. QED
    BY <1>1, <1>4, <1>5, <1>7, <2>1 DEF publishedRows
<1>9. \A m \in publishedRows : m.id # new.id
  BY <1>3, <1>6 DEF Published
<1>10. \A r \in Readers : new.seq \notin delivered[r]
  <2>1. \A r \in Readers : \A s \in delivered[r] : \E row \in rows : row.seq = s
    BY DEF IndInv, NoSkippedMessage, InGroup
  <2>2. QED
    BY <2>1, <1>3
<1>11. seenIds' = seenIds
  <2>1. \A r \in Readers : {m \in InGroup(ReaderGroup[r])' : m.seq \in delivered[r]}
                           = {m \in InGroup(ReaderGroup[r]) : m.seq \in delivered[r]}
    BY <1>1, <1>10 DEF InGroup
  <2>2. QED
    BY <2>1, <1>2 DEF seenIds
<1>12. QED
  BY <1>1, <1>8, <1>9, <1>11 DEF Stream!Publish

\* Processing the least row of a page delivers the next message of the group.
LEMMA ProcessRefines ==
  ASSUME IndInv, IndInv', NEW r \in Readers, Process(r)
  PROVE  Stream!Deliver(r)
<1>1. PICK row \in batch[r] :
        /\ \A other \in batch[r] : row.seq <= other.seq
        /\ cursor' = [cursor EXCEPT ![r] = row.seq]
        /\ delivered' = [delivered EXCEPT ![r] = @ \cup {row.seq}]
  BY DEF Process
<1>2. rows' = rows
  BY DEF Process
<1>3. /\ row \in InGroup(ReaderGroup[r]) /\ row.seq > cursor[r]
      /\ \A m \in InGroup(ReaderGroup[r]) :
            m.seq > cursor[r] /\ m.seq <= row.seq => m \in batch[r]
  BY <1>1 DEF IndInv, PageFollowsCursor
<1>4. /\ delivered'[r] = delivered[r] \cup {row.seq}
      /\ \A q \in Readers : q # r => delivered'[q] = delivered[q]
  BY <1>1 DEF IndInv, TypeOK
<1>5. /\ \A m \in rows : m.seq \in Nat
      /\ \A m \in rows : m.seq = row.seq \/ m.id = row.id => m = row
      /\ cursor[r] \in Nat /\ row \in rows /\ row.group = ReaderGroup[r]
  BY <1>3 DEF IndInv, TypeOK, Row, UniqueRows, InGroup
<1>6. \A m \in InGroup(ReaderGroup[r]) : m.seq <= cursor[r] => m.seq \in delivered[r]
  BY DEF IndInv, NoSkippedMessage
<1>7. row.seq \notin delivered[r]
  BY <1>3, <1>5 DEF IndInv, NoSkippedMessage, InGroup
<1>8. Published(row) \in publishedRows
  BY <1>5 DEF publishedRows, Published
<1>9. /\ Published(row).group = ReaderGroup[r] /\ Published(row).id = row.id
      /\ Published(row).before = Before(row)
  BY <1>5 DEF Published
<1>10. row.id \notin seenIds[r]
  BY <1>5, <1>7 DEF seenIds, InGroup
<1>11. Before(row) \subseteq seenIds[r]
  <2> SUFFICES ASSUME NEW m \in InGroup(ReaderGroup[r]), m.seq < row.seq
               PROVE  m.seq \in delivered[r]
    BY <1>5 DEF Before, seenIds
  <2>1. m \in rows
    BY DEF InGroup
  <2>2. m \notin batch[r]
    BY <1>1, <1>5, <2>1
  <2>3. QED
    BY <1>3, <1>5, <1>6, <2>1, <2>2
<1>12. seenIds' = [seenIds EXCEPT ![r] = @ \cup {row.id}]
  <2>1. {m.id : m \in {n \in InGroup(ReaderGroup[r]) : n.seq \in delivered'[r]}}
          = seenIds[r] \cup {row.id}
    BY <1>3, <1>4, <1>5 DEF seenIds, InGroup
  <2>2. \A q \in Readers : InGroup(ReaderGroup[q])' = InGroup(ReaderGroup[q])
    BY <1>2 DEF InGroup
  <2>3. \A q \in Readers : q # r => seenIds'[q] = seenIds[q]
    BY <1>4, <2>2 DEF seenIds
  <2>4. seenIds'[r] = seenIds[r] \cup {row.id}
    BY <2>1, <2>2 DEF seenIds
  <2>5. /\ seenIds = [q \in Readers |-> seenIds[q]]
        /\ seenIds' = [q \in Readers |-> seenIds'[q]]
    BY DEF seenIds
  <2>6. QED
    BY <2>3, <2>4, <2>5
<1>13. publishedRows' = publishedRows
  BY <1>2 DEF publishedRows, Before, InGroup
<1>14. QED
  BY <1>8, <1>9, <1>10, <1>11, <1>12, <1>13 DEF Stream!Deliver

LEMMA RestartRefines ==
  ASSUME IndInv, NEW r \in Readers, Restart(r)
  PROVE  Stream!Rewind(r) \/ UNCHANGED <<publishedRows, seenIds>>
<1>1. CASE UNCHANGED <<cursor, delivered>>
  BY <1>1, InvisibleStep DEF Restart
<1>2. CASE delivered' = [delivered EXCEPT ![r] = {}]
  <2>1. rows' = rows /\ delivered'[r] = {} /\ \A q \in Readers : q # r => delivered'[q] = delivered[q]
    BY <1>2 DEF Restart, IndInv, TypeOK
  <2>2. seenIds' = [seenIds EXCEPT ![r] = {}]
    BY <2>1 DEF seenIds, InGroup
  <2>3. publishedRows' = publishedRows
    BY <2>1 DEF publishedRows, Before, InGroup
  <2>4. QED
    BY <2>2, <2>3 DEF Stream!Rewind
<1>3. QED
  BY <1>1, <1>2 DEF Restart

\* The store keeps the promise of MessageStream, on either back end, for any
\* number of writers and consumers, any hash and any page sizes.
THEOREM Refinement == Spec => ImplementsStream
<1>1. IndInv /\ IndInv' /\ [Next]_vars => [Stream!Next]_<<publishedRows, seenIds>>
  <2> SUFFICES ASSUME IndInv, IndInv', [Next]_vars
               PROVE  Stream!Next \/ UNCHANGED <<publishedRows, seenIds>>
    OBVIOUS
  <2>1. ASSUME NEW w \in Writers, Commit(w) PROVE Stream!Next
    <3>1. tx[w].id \in Ids /\ tx[w].group \in Groups
      BY DEF IndInv, TypeOK, Tx
    <3>2. QED
      BY <2>1, <3>1, CommitRefines DEF Stream!Next
  <2>2. ASSUME NEW r \in Readers, Process(r) PROVE Stream!Next
    BY <2>2, ProcessRefines DEF Stream!Next
  <2>3. ASSUME NEW r \in Readers, Restart(r)
        PROVE  Stream!Next \/ UNCHANGED <<publishedRows, seenIds>>
    BY <2>3, RestartRefines DEF Stream!Next
  <2>4. CASE UNCHANGED <<rows, delivered>>
    BY <2>4, InvisibleStep
  <2>5. \/ \E w \in Writers : Commit(w)
        \/ \E r \in Readers : Process(r) \/ Restart(r)
        \/ UNCHANGED <<rows, delivered>>
    BY DEF Next, vars, store_message, Begin, AcquireLock, AllocateSeq, InsertRow,
           RejectDuplicate, Abort, Fetch
  <2>6. QED
    BY <2>1, <2>2, <2>3, <2>4, <2>5
<1>2. QED
  BY <1>1, InitRefines, Inductive, PTL DEF Spec, ImplementsStream, Stream!Spec, Stream!streamVars
=============================================================================
