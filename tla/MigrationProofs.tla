--------------------------- MODULE MigrationProofs ---------------------------
(* Theorems about Migration, for any number of processes and both back ends.  *)
(* Of the list of statements they use that it is a list and nothing else.     *)
EXTENDS Migration, TLAPS

\* The statements are a list, of whatever names.
IsList(s) == \E S : s \in Seq(S)

LEMMA Concatenation ==
  ASSUME NEW s, NEW t, IsList(s), IsList(t)
  PROVE  IsList(s \o t)
<1>1. PICK S : s \in Seq(S)
  BY DEF IsList
<1>2. PICK T : t \in Seq(T)
  BY DEF IsList
<1>3. s \in Seq(S \cup T) /\ t \in Seq(S \cup T)
  BY <1>1, <1>2
<1>4. s \o t \in Seq(S \cup T)
  BY <1>3
<1>5. QED
  BY <1>4 DEF IsList

LEMMA StatementsAreAList ==
  /\ Len(Statements) \in Nat
  /\ Objects = {Statements[i] : i \in 1..Len(Statements)}
<1>1. ASSUME NEW a PROVE IsList(<<a>>)
  <2>1. <<a>> \in Seq({a})
    OBVIOUS
  <2>2. QED
    BY <2>1 DEF IsList
<1>2. ASSUME NEW a, NEW b PROVE IsList(<<a, b>>)
  <2>1. <<a, b>> \in Seq({a, b})
    OBVIOUS
  <2>2. QED
    BY <2>1 DEF IsList
<1>3. IsList(create_groups) /\ IsList(create_state) /\ IsList(create_sessions)
  BY <1>1 DEF create_groups, create_state, create_sessions
<1>4. IsList(create_messages) /\ IsList(create_tasks)
  BY <1>2 DEF create_messages, create_tasks
<1>5. IsList(create_events)
  <2>1. create_events \in Seq({"events", "events_created_idx", "events_kind_idx",
                               "events_group_idx"})
    BY DEF create_events
  <2>2. QED
    BY <2>1 DEF IsList
<1>6. IsList(up)
  BY <1>3, <1>4, <1>5, Concatenation DEF up
<1>7. IsList(Statements)
  BY <1>1, <1>6, Concatenation DEF Statements
<1>8. PICK S : Statements \in Seq(S)
  BY <1>7 DEF IsList
<1>9. QED
  BY <1>8 DEF Objects, ToSet

\* A step of one process that leaves the others' calls alone.
LEMMA CallStep ==
  ASSUME TypeOK, NEW m \in Migrators, NEW call, Go(m, call)
  PROVE  mig'[m] = call /\ \A n \in Migrators : n # m => mig'[n] = mig[n]
BY DEF Go, TypeOK

Call == [phase : Phases, done : 0..Len(Statements), created : SUBSET Objects,
         result : Results]

\* Every variable keeps its type if the call that moves does.
LEMMA TypeStep ==
  ASSUME TypeOK, NEW m \in Migrators, NEW call \in Call, Go(m, call),
         call.phase = "creating" => call.done < Len(Statements),
         schema' \subseteq Objects, recorded' \in BOOLEAN, UNCHANGED <<backend, before>>
  PROVE  TypeOK'
<1>1. Migrators' = Migrators /\ Objects' = Objects /\ Statements' = Statements
  BY DEF Objects
<1>2. mig' \in [Migrators -> Call]
  BY DEF Go, TypeOK, Call
<1>3. QED
  BY <1>2, CallStep DEF TypeOK, Call

\* A call that returns is typed, whatever it returns.
LEMMA ReturnType ==
  ASSUME NEW result \in Results
  PROVE  [phase |-> "idle", done |-> 0, created |-> {}, result |-> result] \in Call
BY StatementsAreAList DEF Call, Phases

\* So is one that has done a statement.
LEMMA StatementDoneType ==
  ASSUME NEW call \in Call, call.done < Len(Statements)
  PROVE  /\ StatementDone(call) \in Call
         /\ StatementDone(call).phase \in {"running", "listing"}
         /\ StatementDone(call).done = call.done + 1
         /\ StatementDone(call).created = call.created
         /\ StatementDone(call).result = call.result
<1> DEFINE next == IF call.done = 0 THEN "listing" ELSE "running"
<1>1. next \in Phases /\ next \in {"running", "listing"}
  BY DEF Phases
<1>2. call.done + 1 \in 0..Len(Statements)
  BY StatementsAreAList DEF Call
<1>3. StatementDone(call) = [call EXCEPT !.phase = next, !.done = call.done + 1]
  BY DEF StatementDone
<1> HIDE DEF next
<1>4. QED
  BY <1>1, <1>2, <1>3 DEF Call

\* The facts about a call that every step starts from.
LEMMA CallType ==
  ASSUME TypeOK, NEW m \in Migrators
  PROVE  /\ mig[m] \in Call
         /\ mig[m].phase = "creating" => mig[m].done < Len(Statements)
         /\ Sees(m) \subseteq Objects
BY DEF TypeOK, Call, Sees

\* A call that only changes its phase, to any but "creating", is typed.
LEMMA PhaseType ==
  ASSUME NEW call \in Call, NEW phase \in Phases, NEW result \in Results
  PROVE  /\ [call EXCEPT !.phase = phase] \in Call
         /\ [call EXCEPT !.phase = phase].phase = phase
         /\ [call EXCEPT !.phase = phase, !.result = result] \in Call
         /\ [call EXCEPT !.phase = phase, !.result = result].phase = phase
BY DEF Call

\* Every variable keeps its type; no call runs past the last statement.
THEOREM Typing == Spec => []TypeOK
<1>1. Init => TypeOK
  <2>1. [phase |-> "idle", done |-> 0, created |-> {}, result |-> "none"] \in Call
    BY ReturnType DEF Results
  <2>2. Init => mig \in [Migrators -> Call] /\ \A m \in Migrators : mig[m].phase = "idle"
    BY <2>1 DEF Init
  <2>3. QED
    BY <2>2, PreseededAssumption DEF Init, TypeOK, Call
<1>2. TypeOK /\ [Next]_vars => TypeOK'
  <2> SUFFICES ASSUME TypeOK, [Next]_vars PROVE TypeOK'
    OBVIOUS
  <2>0. schema \subseteq Objects /\ recorded \in BOOLEAN
    BY DEF TypeOK
  <2> USE DEF Phases, Results
  <2>1. ASSUME NEW m \in Migrators, Begin(m) PROVE TypeOK'
    BY <2>0, <2>1, CallType, PhaseType, TypeStep DEF Begin
  <2>2. ASSUME NEW m \in Migrators, ReadVersions(m) PROVE TypeOK'
    BY <2>0, <2>2, CallType, PhaseType, TypeStep DEF ReadVersions
  <2>3. ASSUME NEW m \in Migrators, UpToDate(m) PROVE TypeOK'
    <3>1. schema' \subseteq Objects /\ recorded' \in BOOLEAN
      BY <2>0, <2>3, CallType DEF UpToDate, Sees
    <3>2. QED
      BY <2>3, <3>1, ReturnType, TypeStep DEF UpToDate, Return
  <2>4. ASSUME NEW m \in Migrators, Skip(m) PROVE TypeOK'
    <3>1. mig[m].done < Len(Statements)
      BY <2>4 DEF Skip, At
    <3>2. QED
      BY <2>0, <2>4, <3>1, CallType, StatementDoneType, TypeStep DEF Skip
  <2>5. ASSUME NEW m \in Migrators, CreateAlone(m) PROVE TypeOK'
    <3>1. mig[m].done < Len(Statements) /\ schema' \subseteq Objects
      BY <2>0, <2>5 DEF CreateAlone, At
    <3>2. QED
      BY <2>0, <2>5, <3>1, CallType, StatementDoneType, TypeStep DEF CreateAlone
  <2>6. ASSUME NEW m \in Migrators, Look(m) PROVE TypeOK'
    <3>1. mig[m].done < Len(Statements)
      BY <2>6 DEF Look, At
    <3>2. [mig[m] EXCEPT !.phase = "creating"].done = mig[m].done
      BY CallType DEF Call
    <3>3. QED
      BY <2>0, <2>6, <3>1, <3>2, CallType, PhaseType, TypeStep DEF Look
  <2>7. ASSUME NEW m \in Migrators, Create(m) PROVE TypeOK'
    <3>1. PICK object \in Objects :
             /\ At(m, object)
             /\ Go(m, [StatementDone(mig[m]) EXCEPT !.created = @ \cup {object}])
      BY <2>7 DEF Create
    <3> DEFINE call == [StatementDone(mig[m]) EXCEPT !.created = @ \cup {object}]
    <3>2. /\ StatementDone(mig[m]) \in Call
          /\ StatementDone(mig[m]).phase \in {"running", "listing"}
      BY <3>1, CallType, StatementDoneType DEF At
    <3>3. call \in Call /\ call.phase # "creating"
      BY <3>2 DEF Call
    <3> HIDE DEF call
    <3>4. QED
      BY <2>0, <2>7, <3>1, <3>3, TypeStep DEF Create, call
  <2>8. ASSUME NEW m \in Migrators, CreateClashes(m) PROVE TypeOK'
    BY <2>0, <2>8, ReturnType, TypeStep DEF CreateClashes, Return
  <2>9. ASSUME NEW m \in Migrators, Record(m) PROVE TypeOK'
    <3>1. CASE Transactional
      <4> DEFINE call == [mig[m] EXCEPT !.phase = "recorded"]
      <4>1. call \in Call /\ call.phase = "recorded"
        BY CallType, PhaseType
      <4>2. Go(m, call) /\ UNCHANGED <<backend, before, schema, recorded>>
        BY <2>9, <3>1 DEF Record
      <4> HIDE DEF call
      <4>3. QED
        BY <2>0, <4>1, <4>2, TypeStep
    <3>2. CASE ~Transactional
      BY <2>0, <2>9, <3>2, ReturnType, TypeStep DEF Record, Return
    <3>3. QED
      BY <3>1, <3>2
  <2>10. ASSUME NEW m \in Migrators, RecordClashes(m) PROVE TypeOK'
    BY <2>0, <2>10, ReturnType, TypeStep DEF RecordClashes, Return
  <2>11. ASSUME NEW m \in Migrators, Commit(m) PROVE TypeOK'
    <3>1. schema' \subseteq Objects /\ recorded' \in BOOLEAN
      BY <2>0, <2>11, CallType DEF Commit, Sees
    <3>2. PICK result \in {"ok", "failed"} : Return(m, result)
      BY <2>11 DEF Commit
    <3>3. QED
      BY <2>11, <3>1, <3>2, ReturnType, TypeStep DEF Commit, Return
  <2>12. ASSUME NEW m \in Migrators, Fail(m) PROVE TypeOK'
    BY <2>0, <2>12, ReturnType, TypeStep DEF Fail, Return
  <2>13. CASE UNCHANGED vars
    BY <2>13 DEF vars, TypeOK
  <2>14. QED
    BY <2>1, <2>2, <2>3, <2>4, <2>5, <2>6, <2>7, <2>8, <2>9, <2>10, <2>11, <2>12, <2>13
    DEF Next, migrate
<1>3. QED
  BY <1>1, <1>2, PTL DEF Spec

\* A step of one process preserves the invariant if nothing that was there is
\* gone, what the process has behind it is there, and the version, the schema
\* and its answer agree.
LEMMA Step ==
  ASSUME IndInv, TypeOK', NEW m \in Migrators, NEW call \in Call, Go(m, call),
         UNCHANGED <<backend, before>>, schema \subseteq schema', recorded => recorded',
         \A i \in 1..call.done : Statements[i] \in schema' \cup call.created,
         call.phase = "recorded" => call.done = Len(Statements),
         ~Transactional => call.created = {} /\ call.phase \notin {"creating", "recorded"},
         Transactional => schema' = IF recorded' THEN Objects ELSE before,
         call.phase = "creating" => Statements[call.done + 1] \notin before,
         recorded' => schema' = Objects,
         call.result \in {"ok", "clash"} => recorded'
  PROVE  IndInv'
<1>1. /\ mig'[m] = call
      /\ \A n \in Migrators : n # m => mig'[n] = mig[n]
  BY CallStep DEF IndInv
<1>2. BehindIsThere'
  BY <1>1 DEF IndInv, BehindIsThere, Sees
<1>3. RecordsAtTheEnd'
  BY <1>1 DEF IndInv, RecordsAtTheEnd
<1>4. Transactional' <=> Transactional
  BY DEF Transactional
<1>5. NothingHeldBack'
  BY <1>1, <1>4 DEF IndInv, NothingHeldBack
<1>6. ShownWithVersion' /\ RecordedIsComplete'
  BY <1>4 DEF ShownWithVersion, RecordedIsComplete
<1>7. AnswerIsTrue'
  BY <1>1 DEF IndInv, AnswerIsTrue
<1>8. CreatesWhatIsMissing'
  BY <1>1 DEF IndInv, CreatesWhatIsMissing
<1>9. QED
  BY <1>2, <1>3, <1>5, <1>6, <1>7, <1>8 DEF IndInv

\* A call returns, and leaves the schema and the version as they are: it may
\* say that something was there only when the version is.
LEMMA ReturnStep ==
  ASSUME IndInv, TypeOK', NEW m \in Migrators, NEW result \in Results, Return(m, result),
         UNCHANGED <<backend, before, schema, recorded>>,
         result \in {"ok", "clash"} => recorded
  PROVE  IndInv'
<1> DEFINE call == [phase |-> "idle", done |-> 0, created |-> {}, result |-> result]
<1>1. call \in Call /\ Go(m, call)
  BY ReturnType DEF Return
<1>2. call.phase = "idle" /\ call.done = 0 /\ call.created = {} /\ call.result = result
  OBVIOUS
<1> HIDE DEF call
<1>3. \A i \in 1..call.done : Statements[i] \in schema' \cup call.created
  BY <1>2
<1>4. QED
  BY <1>1, <1>2, <1>3, Step DEF IndInv, ShownWithVersion, RecordedIsComplete

\* Only the phase changes: within a call, or from one that is idle to a new one.
LEMMA PhaseStep ==
  ASSUME IndInv, TypeOK', NEW m \in Migrators, NEW phase \in Phases,
         NEW result \in {mig[m].result, "none"},
         Go(m, [mig[m] EXCEPT !.phase = phase, !.result = result]),
         UNCHANGED <<backend, before, schema, recorded>>,
         phase = "recorded" => mig[m].done = Len(Statements),
         phase \in {"creating", "recorded"} => Transactional,
         phase = "creating" => Statements[mig[m].done + 1] \notin before
  PROVE  IndInv'
<1> DEFINE call == [mig[m] EXCEPT !.phase = phase, !.result = result]
<1>1. mig[m] \in Call /\ result \in Results
  BY CallType DEF IndInv, Call, Results
<1>2. call \in Call
  BY <1>1, PhaseType
<1>3. /\ call.phase = phase /\ call.result = result
      /\ call.done = mig[m].done /\ call.created = mig[m].created
  BY <1>1 DEF Call
<1> HIDE DEF call
<1>4. \A i \in 1..call.done : Statements[i] \in schema' \cup call.created
  BY <1>3 DEF IndInv, BehindIsThere, Sees
<1>5. call.result \in {"ok", "clash"} => recorded
  BY <1>3 DEF IndInv, AnswerIsTrue
<1>6. ~Transactional => call.created = {} /\ call.phase \notin {"creating", "recorded"}
  BY <1>3 DEF IndInv, NothingHeldBack
<1>7. Go(m, call)
  BY DEF call
<1>8. QED
  BY <1>2, <1>3, <1>4, <1>5, <1>6, <1>7, Step
  DEF IndInv, ShownWithVersion, RecordedIsComplete

\* The object of a statement is there when the statement is done, whether it
\* was found, created for all to see, or created in the call's transaction.
LEMMA StatementStep ==
  ASSUME IndInv, TypeOK', NEW m \in Migrators, NEW object \in Objects, At(m, object),
         NEW created \in SUBSET Objects,
         Go(m, [StatementDone(mig[m]) EXCEPT !.created = created]),
         mig[m].created \subseteq created,
         object \in schema' \cup created,
         UNCHANGED <<backend, before, recorded>>, schema \subseteq schema', schema' \subseteq Objects,
         schema' # schema => ~Transactional,
         ~Transactional => created = {}
  PROVE  IndInv'
<1> DEFINE done == StatementDone(mig[m])
           call == [done EXCEPT !.created = created]
<1>1. mig[m] \in Call /\ mig[m].done < Len(Statements) /\ object = Statements[mig[m].done + 1]
  BY CallType DEF IndInv, At
<1>2. /\ done \in Call /\ done.phase \in {"running", "listing"}
      /\ done.done = mig[m].done + 1 /\ done.result = mig[m].result
  BY <1>1, StatementDoneType
<1> HIDE DEF done
<1>3. /\ call \in Call
      /\ call.phase \in {"running", "listing"} /\ call.done = mig[m].done + 1
      /\ call.created = created /\ call.result = mig[m].result
  BY <1>2 DEF Call
<1>4. Go(m, call)
  BY DEF done
<1> HIDE DEF call
<1>5. ASSUME NEW i \in 1..call.done
      PROVE  Statements[i] \in schema' \cup call.created
  <2>1. mig[m].done \in Nat
    BY <1>1, StatementsAreAList DEF Call
  <2>2. CASE i = mig[m].done + 1
    BY <2>2, <1>1, <1>3
  <2>3. CASE i \in 1..mig[m].done
    BY <2>3, <1>3 DEF IndInv, BehindIsThere, Sees
  <2>4. QED
    BY <2>1, <2>2, <2>3, <1>3
<1>6. call.result \in {"ok", "clash"} => recorded'
  BY <1>3 DEF IndInv, AnswerIsTrue
<1>7. Transactional => schema' = IF recorded' THEN Objects ELSE before
  BY DEF IndInv, ShownWithVersion
<1>8. recorded' => schema' = Objects
  BY DEF IndInv, RecordedIsComplete
<1>9. QED
  BY <1>3, <1>4, <1>5, <1>6, <1>7, <1>8, Step DEF IndInv

\* Behind the last statement a call sees the whole schema.
LEMMA AllIsSeen ==
  ASSUME IndInv, NEW m \in Migrators, mig[m].done = Len(Statements)
  PROVE  Sees(m) = Objects
BY CallType, StatementsAreAList DEF IndInv, BehindIsThere

\* The inductive invariant.
THEOREM Inductive == Spec => []IndInv
<1>1. Init /\ TypeOK => IndInv
  <2> SUFFICES ASSUME Init, TypeOK PROVE IndInv
    OBVIOUS
  <2>1. \A m \in Migrators : mig[m] = [phase |-> "idle", done |-> 0, created |-> {},
                                      result |-> "none"]
    BY DEF Init
  <2>2. BehindIsThere /\ RecordsAtTheEnd /\ NothingHeldBack /\ AnswerIsTrue
    BY <2>1 DEF Init, BehindIsThere, RecordsAtTheEnd, NothingHeldBack, AnswerIsTrue
  <2>3. ShownWithVersion /\ RecordedIsComplete /\ CreatesWhatIsMissing
    BY <2>1 DEF Init, ShownWithVersion, RecordedIsComplete, CreatesWhatIsMissing
  <2>4. QED
    BY <2>2, <2>3 DEF IndInv
<1>2. TypeOK' /\ IndInv /\ [Next]_vars => IndInv'
  <2> SUFFICES ASSUME TypeOK', IndInv, [Next]_vars PROVE IndInv'
    OBVIOUS
  <2>0. \A m \in Migrators : mig[m] \in Call
    BY CallType DEF IndInv
  <2>1. ASSUME NEW m \in Migrators, Begin(m) PROVE IndInv'
    BY <2>1, PhaseStep DEF Begin, Phases
  <2>2. ASSUME NEW m \in Migrators, ReadVersions(m) \/ Look(m) PROVE IndInv'
    <3>1. PICK phase \in {"running", "creating"} :
             /\ Go(m, [mig[m] EXCEPT !.phase = phase])
             /\ phase = "creating" => Transactional /\ Look(m)
      BY <2>2 DEF ReadVersions, Look
    <3>2. [mig[m] EXCEPT !.phase = phase]
             = [mig[m] EXCEPT !.phase = phase, !.result = mig[m].result]
      BY <2>0 DEF Call
    <3>3. Look(m) => Statements[mig[m].done + 1] \notin before
      BY DEF Look, At, Sees, IndInv, ShownWithVersion
    <3>4. QED
      BY <2>2, <3>1, <3>2, <3>3, PhaseStep DEF ReadVersions, Look, Phases
  <2>3. ASSUME NEW m \in Migrators, UpToDate(m) PROVE IndInv'
    <3>1. schema = Objects /\ mig[m].created \subseteq Objects
      BY <2>0, <2>3 DEF UpToDate, IndInv, RecordedIsComplete, Call
    <3>2. schema' = schema
      BY <2>3, <3>1 DEF UpToDate
    <3>3. QED
      BY <2>3, <3>2, ReturnStep DEF UpToDate, Results
  <2>4. ASSUME NEW m \in Migrators, Skip(m) PROVE IndInv'
    <3>1. PICK object \in Sees(m) : At(m, object)
      BY <2>4 DEF Skip
    <3>2. StatementDone(mig[m])
             = [StatementDone(mig[m]) EXCEPT !.created = mig[m].created]
      BY <2>0, <3>1, StatementDoneType DEF At, Call
    <3>3. /\ object \in Objects /\ mig[m].created \in SUBSET Objects
          /\ object \in schema \cup mig[m].created
          /\ schema \subseteq Objects
      BY <2>0, CallType DEF IndInv, TypeOK, Call, Sees
    <3>4. ~Transactional => mig[m].created = {}
      BY DEF IndInv, NothingHeldBack
    <3>5. QED
      BY <2>4, <3>1, <3>2, <3>3, <3>4, StatementStep DEF Skip
  <2>5. ASSUME NEW m \in Migrators, CreateAlone(m) PROVE IndInv'
    <3>1. PICK object \in Objects \ schema : At(m, object) /\ schema' = schema \cup {object}
      BY <2>5 DEF CreateAlone
    <3>2. StatementDone(mig[m])
             = [StatementDone(mig[m]) EXCEPT !.created = mig[m].created]
      BY <2>0, <3>1, StatementDoneType DEF At, Call
    <3>3. mig[m].created \in SUBSET Objects /\ schema \subseteq Objects
      BY <2>0 DEF IndInv, TypeOK, Call
    <3>4. ~Transactional /\ mig[m].created = {}
      BY <2>5 DEF CreateAlone, IndInv, NothingHeldBack
    <3>5. QED
      BY <2>5, <3>1, <3>2, <3>3, <3>4, StatementStep DEF CreateAlone
  <2>6. ASSUME NEW m \in Migrators, Create(m) PROVE IndInv'
    <3>1. PICK object \in Objects \ schema :
             /\ At(m, object)
             /\ Go(m, [StatementDone(mig[m]) EXCEPT !.created = @ \cup {object}])
      BY <2>6 DEF Create
    <3> DEFINE created == mig[m].created \cup {object}
    <3>2. [StatementDone(mig[m]) EXCEPT !.created = @ \cup {object}]
             = [StatementDone(mig[m]) EXCEPT !.created = created]
      BY <2>0, <3>1, StatementDoneType DEF At
    <3>3. created \in SUBSET Objects /\ schema \subseteq Objects
      BY <2>0 DEF IndInv, TypeOK, Call
    <3>4. Transactional
      BY <2>6 DEF Create, IndInv, NothingHeldBack
    <3>5. object \in created /\ mig[m].created \subseteq created
      OBVIOUS
    <3> HIDE DEF created
    <3>6. QED
      BY <2>6, <3>1, <3>2, <3>3, <3>4, <3>5, StatementStep DEF Create
  <2>7. ASSUME NEW m \in Migrators, CreateClashes(m) PROVE IndInv'
    <3>1. Transactional /\ schema # before
      BY <2>7 DEF CreateClashes, At, IndInv, NothingHeldBack, CreatesWhatIsMissing
    <3>2. recorded
      BY <3>1 DEF IndInv, ShownWithVersion
    <3>3. QED
      BY <2>7, <3>2, ReturnStep DEF CreateClashes, Results
  <2>8. ASSUME NEW m \in Migrators, Record(m) PROVE IndInv'
    <3>1. mig[m].done = Len(Statements) /\ Sees(m) = Objects
      BY <2>8, AllIsSeen DEF Record, UpDone
    <3>2. CASE Transactional
      <4>1. [mig[m] EXCEPT !.phase = "recorded"]
               = [mig[m] EXCEPT !.phase = "recorded", !.result = mig[m].result]
        BY <2>0 DEF Call
      <4>2. QED
        BY <2>8, <3>1, <3>2, <4>1, PhaseStep DEF Record, Phases
    <3>3. CASE ~Transactional
      <4> DEFINE call == [phase |-> "idle", done |-> 0, created |-> {}, result |-> "ok"]
      <4>1. schema = Objects
        BY <3>1, <3>3 DEF IndInv, NothingHeldBack, Sees
      <4>2. call \in Call /\ Go(m, call) /\ recorded' /\ UNCHANGED <<backend, before, schema>>
        BY <2>8, <3>3, ReturnType DEF Record, Return, Results
      <4>3. call.phase = "idle" /\ call.done = 0 /\ call.created = {}
        OBVIOUS
      <4> HIDE DEF call
      <4>4. \A i \in 1..call.done : Statements[i] \in schema' \cup call.created
        BY <4>3
      <4>5. QED
        BY <3>3, <4>1, <4>2, <4>3, <4>4, Step
    <3>4. QED
      BY <3>2, <3>3
  <2>9. ASSUME NEW m \in Migrators, RecordClashes(m) PROVE IndInv'
    BY <2>9, ReturnStep DEF RecordClashes, Results
  <2>10. ASSUME NEW m \in Migrators, Commit(m) PROVE IndInv'
    <3>1. PICK result \in {"ok", "failed"} : Return(m, result)
      BY <2>10 DEF Commit
    <3>2. Sees(m) = Objects
      BY <2>10, AllIsSeen DEF Commit, IndInv, RecordsAtTheEnd
    <3>3. schema' = Objects /\ recorded' /\ UNCHANGED <<backend, before>> /\ schema \subseteq schema'
      BY <2>10, <3>2 DEF Commit, Sees
    <3> DEFINE call == [phase |-> "idle", done |-> 0, created |-> {}, result |-> result]
    <3>4. call \in Call /\ Go(m, call)
      BY <3>1, ReturnType DEF Return, Results
    <3>5. call.phase = "idle" /\ call.done = 0 /\ call.created = {}
      OBVIOUS
    <3> HIDE DEF call
    <3>6. \A i \in 1..call.done : Statements[i] \in schema' \cup call.created
      BY <3>5
    <3>7. QED
      BY <3>3, <3>4, <3>5, <3>6, Step
  <2>11. ASSUME NEW m \in Migrators, Fail(m) PROVE IndInv'
    BY <2>11, ReturnStep DEF Fail, Results
  <2>12. CASE UNCHANGED vars
    BY <2>12 DEF vars, IndInv, BehindIsThere, RecordsAtTheEnd, NothingHeldBack,
                 ShownWithVersion, CreatesWhatIsMissing, RecordedIsComplete, AnswerIsTrue,
                 Sees, Transactional
  <2>13. QED
    BY <2>1, <2>2, <2>3, <2>4, <2>5, <2>6, <2>7, <2>8, <2>9, <2>10, <2>11, <2>12
    DEF Next, migrate
<1>3. QED
  BY <1>1, <1>2, Typing, PTL DEF Spec

\* The version is never listed before the whole schema is there.
THEOREM VersionMeansSchema == Spec => []RecordedIsComplete
<1>1. IndInv => RecordedIsComplete
  BY DEF IndInv
<1>2. QED
  BY <1>1, Inductive, PTL

\* On Postgres a migration is seen as a whole or not at all.
THEOREM MigrationIsAtomic == Spec => []AllOrNothing
<1>1. IndInv => AllOrNothing
  BY DEF IndInv, ShownWithVersion, AllOrNothing, Transactional
<1>2. QED
  BY <1>1, Inductive, PTL

\* Ok, and an error that says that something is there already, mean that the
\* database is migrated.
THEOREM AnswersAreTrue == Spec => []AnswerIsTrue
<1>1. IndInv => AnswerIsTrue
  BY DEF IndInv
<1>2. QED
  BY <1>1, Inductive, PTL
=============================================================================
