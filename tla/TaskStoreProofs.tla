--------------------------- MODULE TaskStoreProofs ---------------------------
(* Theorems about TaskStore, for any schedulers, ids, page sizes and times.   *)
EXTENDS TaskStore, FiniteSetTheorems, TLAPS

USE TaskIdsAssumption, BoundAssumption

Result == [ran_at : Times, status : TaskStatus, next_run : Times]

Run == [id : TaskIds, due : Times, result : Result]

\* What a run may leave is a result, later than the run if it is scheduled.
LEMMA ResultTypes ==
  ASSUME NEW t \in 0..MaxTime, NEW result \in TaskRunResults(t)
  PROVE  /\ result \in Result
         /\ result.ran_at = t
         /\ result.next_run = None \/ result.next_run > t
BY DEF TaskRunResults, Result, Times, TaskStatus, None

\* The initial value of a row's last result, and of a run's.
LEMMA NoResultType == NoResult \in Result
BY DEF NoResult, Result, Times, TaskStatus, None

\* An update writes four columns of a row that stays a row.
LEMMA UpdatedType ==
  ASSUME NEW task \in StoredTask, NEW result \in Result
  PROVE  /\ Updated(task, result) \in StoredTask
         /\ Updated(task, result).status = result.status
         /\ Updated(task, result).next_run = result.next_run
         /\ Updated(task, result).updated_at = result.ran_at
         /\ Updated(task, result).last_result = result
BY DEF Updated, StoredTask, Result

\* Before the first call every variable has its type.
LEMMA InitTypes ==
  ASSUME Init PROVE TypeOK
<1>1. (CHOOSE id \in TaskIds : TRUE) \in TaskIds
  OBVIOUS
<1>2. [id |-> CHOOSE id \in TaskIds : TRUE, due |-> None, result |-> NoResult] \in Run
  BY <1>1, NoResultType DEF Run, Times, None
<1>3. run \in [Schedulers -> Run]
  BY <1>2 DEF Init
<1>4. clock \in 0..MaxTime
  BY DEF Init
<1>5. QED
  BY <1>3, <1>4 DEF Init, TypeOK, Run, Result

\* Every variable keeps its type; the update of a loaded row finds the row.
THEOREM Typing == Spec => []TypeOK
<1>1. Init => TypeOK
  BY InitTypes
<1>2. TypeOK /\ [Next]_vars => TypeOK'
  <2> SUFFICES ASSUME TypeOK, [Next]_vars PROVE TypeOK'
    OBVIOUS
  <2>0. run \in [Schedulers -> Run]
    BY DEF TypeOK, Run, Result
  <2>1. CASE Tick
    <3>1. clock' \in 0..MaxTime
      BY <2>1 DEF Tick, TypeOK
    <3>2. QED
      BY <2>1, <3>1 DEF Tick, TypeOK
  <2>2. ASSUME NEW id \in TaskIds, NEW status \in TaskStatus, NEW t \in Times,
               create_task(id, status, t)
        PROVE  TypeOK'
    <3> DEFINE new == [status |-> status, next_run |-> t, last_result |-> NoResult,
                       created_at |-> clock, updated_at |-> clock]
    <3>1. clock \in Times
      BY DEF TypeOK, Times
    <3>2. new \in StoredTask
      BY <3>1, NoResultType DEF StoredTask, Result
    <3>3. /\ DOMAIN tasks' = DOMAIN tasks \cup {id}
          /\ \A i \in DOMAIN tasks' : tasks'[i] = IF i = id THEN new ELSE tasks[i]
      BY <2>2 DEF create_task
    <3> HIDE DEF new
    <3>4. DOMAIN tasks' \subseteq TaskIds /\ \A i \in DOMAIN tasks' : tasks'[i] \in StoredTask
      BY <3>2, <3>3 DEF TypeOK
    <3>5. QED
      BY <2>2, <3>3, <3>4 DEF create_task, TypeOK
  <2>3. ASSUME NEW s \in Schedulers, NEW limit \in Limits, get_due_tasks(s, limit)
        PROVE  TypeOK'
    <3>1. PICK ids \in SUBSET Due :
             page' = [page EXCEPT ![s] =
                         {[id |-> id, next_run |-> tasks[id].next_run] : id \in ids}]
      BY <2>3 DEF get_due_tasks
    <3>2. \A id \in ids : id \in TaskIds /\ tasks[id].next_run \in Times
      BY DEF Due, TypeOK, StoredTask
    <3>3. {[id |-> id, next_run |-> tasks[id].next_run] : id \in ids}
             \subseteq [id : TaskIds, next_run : Times]
      BY <3>2
    <3>4. page' \in [Schedulers -> SUBSET [id : TaskIds, next_run : Times]]
      BY <3>1, <3>3 DEF TypeOK
    <3>5. QED
      BY <2>3, <3>4 DEF get_due_tasks, TypeOK
  <2>4. ASSUME NEW s \in Schedulers, Start(s)
        PROVE  TypeOK'
    <3>1. PICK task \in page[s], result \in TaskRunResults(clock) :
             /\ page' = [page EXCEPT ![s] = @ \ {task}]
             /\ run' = [run EXCEPT ![s] = [id |-> task.id, due |-> task.next_run,
                                           result |-> result]]
      BY <2>4 DEF Start
    <3>2. result \in Result
      BY ResultTypes DEF TypeOK
    <3>3. task \in [id : TaskIds, next_run : Times]
      BY DEF TypeOK
    <3>4. [id |-> task.id, due |-> task.next_run, result |-> result] \in Run
      BY <3>2, <3>3 DEF Run
    <3>5. run' \in [Schedulers -> Run]
      BY <3>1, <3>4, <2>0
    <3>6. page' \in [Schedulers -> SUBSET [id : TaskIds, next_run : Times]]
      BY <3>1 DEF TypeOK
    <3>7. phase' \in [Schedulers -> {"idle", "running", "loaded"}]
             /\ \A v \in Schedulers : phase'[v] = "loaded" => v # s /\ phase[v] = "loaded"
      BY <2>4 DEF Start, TypeOK
    <3>8. \A v \in Schedulers : phase'[v] = "loaded" => run'[v].id \in DOMAIN tasks
      BY <3>1, <3>7, <2>0 DEF TypeOK
    <3>9. QED
      BY <2>4, <3>5, <3>6, <3>7, <3>8 DEF Start, TypeOK, Run, Result
  <2>5. ASSUME NEW s \in Schedulers, NEW id \in TaskIds, StartByHand(s, id)
        PROVE  TypeOK'
    <3>1. PICK result \in TaskRunResults(clock) :
             run' = [run EXCEPT ![s] = [id |-> id, due |-> None, result |-> result]]
      BY <2>5 DEF StartByHand
    <3>2. result \in Result
      BY ResultTypes DEF TypeOK
    <3>3. [id |-> id, due |-> None, result |-> result] \in Run
      BY <3>2 DEF Run, Times
    <3>4. run' \in [Schedulers -> Run]
      BY <3>1, <3>3, <2>0
    <3>5. phase' \in [Schedulers -> {"idle", "running", "loaded"}]
             /\ \A v \in Schedulers : phase'[v] = "loaded" => v # s /\ phase[v] = "loaded"
      BY <2>5 DEF StartByHand, TypeOK
    <3>6. \A v \in Schedulers : phase'[v] = "loaded" => run'[v].id \in DOMAIN tasks
      BY <3>1, <3>5, <2>0 DEF TypeOK
    <3>7. QED
      BY <2>5, <3>4, <3>5, <3>6 DEF StartByHand, TypeOK, Run, Result
  <2>6. ASSUME NEW s \in Schedulers, Load(s) PROVE TypeOK'
    BY <2>6 DEF Load, TypeOK
  <2>7. ASSUME NEW s \in Schedulers, LoadFindsNothing(s) PROVE TypeOK'
    BY <2>7 DEF LoadFindsNothing, TypeOK
  <2>8. ASSUME NEW s \in Schedulers, Update(s) PROVE TypeOK'
    <3>1. run[s].id \in DOMAIN tasks /\ run[s].result \in Result
      BY <2>0, <2>8 DEF Update, TypeOK, Run
    <3>2. Updated(tasks[run[s].id], run[s].result) \in StoredTask
      BY <3>1, UpdatedType DEF TypeOK
    <3>3. DOMAIN tasks' = DOMAIN tasks
             /\ \A id \in DOMAIN tasks : tasks'[id] = IF id = run[s].id
                    THEN Updated(tasks[run[s].id], run[s].result) ELSE tasks[id]
      BY <2>8 DEF Update
    <3>4. \A id \in DOMAIN tasks' : tasks'[id] \in StoredTask
      BY <3>2, <3>3 DEF TypeOK
    <3>5. done' \subseteq TaskIds \X Times
      BY <2>0, <2>8 DEF Update, TypeOK, Run
    <3>6. QED
      BY <2>8, <3>3, <3>4, <3>5 DEF Update, TypeOK
  <2>9. ASSUME NEW s \in Schedulers, Fail(s) PROVE TypeOK'
    BY <2>9 DEF Fail, TypeOK
  <2>10. ASSUME NEW s \in Schedulers, Restart(s) PROVE TypeOK'
    BY <2>10 DEF Restart, TypeOK
  <2>11. CASE UNCHANGED vars
    BY <2>11 DEF vars, TypeOK
  <2>12. QED
    BY <2>1, <2>2, <2>3, <2>4, <2>5, <2>6, <2>7, <2>8, <2>9, <2>10, <2>11 DEF Next
<1>3. QED
  BY <1>1, <1>2, PTL DEF Spec

\* What TypeOK says of a row and of a run, under the names used here.
LEMMA TypeFacts ==
  ASSUME TypeOK
  PROVE  /\ clock \in 0..MaxTime
         /\ \A id \in DOMAIN tasks : tasks[id] \in StoredTask /\ id \in TaskIds
         /\ run \in [Schedulers -> Run]
         /\ \A s \in Schedulers : phase[s] = "loaded" => run[s].id \in DOMAIN tasks
         /\ done \subseteq TaskIds \X Times
BY DEF TypeOK, Run, Result

\* A new row carries no result, and an update leaves what its run found.
LEMMA RowsStep ==
  ASSUME TypeOK, RowIsOneResult, [Next]_vars
  PROVE  RowIsOneResult'
<1>1. ASSUME UNCHANGED tasks PROVE RowIsOneResult'
  BY <1>1 DEF RowIsOneResult
<1>2. ASSUME NEW id \in TaskIds, NEW status \in TaskStatus, NEW t \in Times,
             create_task(id, status, t)
      PROVE  RowIsOneResult'
  BY <1>2 DEF create_task, RowIsOneResult
<1>3. ASSUME NEW s \in Schedulers, Update(s) PROVE RowIsOneResult'
  <2> DEFINE row == Updated(tasks[run[s].id], run[s].result)
  <2>1. run[s].id \in DOMAIN tasks /\ run[s].result \in Result
    BY <1>3, TypeFacts DEF Update, Run
  <2>2. /\ row.status = row.last_result.status
        /\ row.next_run = row.last_result.next_run
        /\ row.updated_at = row.last_result.ran_at
    BY <2>1, TypeFacts, UpdatedType
  <2>3. /\ DOMAIN tasks' = DOMAIN tasks
        /\ \A id \in DOMAIN tasks : tasks'[id] = IF id = run[s].id THEN row ELSE tasks[id]
    BY <1>3 DEF Update
  <2> HIDE DEF row
  <2>4. QED
    BY <2>2, <2>3 DEF RowIsOneResult
<1>4. QED
  BY <1>1, <1>2, <1>3 DEF Next, Tick, get_due_tasks, Start, StartByHand, Load,
                         LoadFindsNothing, Fail, Restart, vars

\* The parts that hold of one scheduler.
OneScheduler == RecordedIsPast /\ PageIsUnrecorded /\ RunIsNews

\* The clock going on and a new task take nothing away: what is over is over.
LEMMA TimePasses ==
  ASSUME TypeOK, OneScheduler, clock' \in Nat, clock' >= clock,
         DOMAIN tasks \subseteq DOMAIN tasks',
         \A id \in DOMAIN tasks : tasks'[id] = tasks[id],
         UNCHANGED <<phase, page, run, done>>
  PROVE  OneScheduler'
<1> USE DEF OneScheduler
<1>1. clock \in Nat /\ 0..clock \subseteq 0..clock'
  BY DEF TypeOK
<1>2. RecordedIsPast'
  BY <1>1 DEF RecordedIsPast
<1>3. PageIsUnrecorded'
  BY <1>1 DEF PageIsUnrecorded
<1>4. RunIsNews'
  <2>1. \A t : TaskRunResults(t)' = TaskRunResults(t)
    BY DEF TaskRunResults
  <2>2. QED
    BY <1>1, <2>1 DEF RunIsNews
<1>5. QED
  BY <1>2, <1>3, <1>4

\* A page holds rows that are due: their schedule is past all that was recorded.
LEMMA PollStep ==
  ASSUME TypeOK, OneScheduler,
         NEW s \in Schedulers, NEW limit \in Limits, get_due_tasks(s, limit)
  PROVE  OneScheduler'
<1> USE DEF OneScheduler
<1>1. PICK ids \in SUBSET Due :
         page' = [page EXCEPT ![s] =
                     {[id |-> id, next_run |-> tasks[id].next_run] : id \in ids}]
  BY DEF get_due_tasks
<1>2. phase[s] = "idle" /\ UNCHANGED <<clock, tasks, phase, run, done>>
  BY DEF get_due_tasks
<1>3. page'[s] = {[id |-> id, next_run |-> tasks[id].next_run] : id \in ids}
         /\ \A v \in Schedulers : v # s => page'[v] = page[v]
  BY <1>1 DEF TypeOK
<1>4. \A id \in ids : /\ id \in DOMAIN tasks
                      /\ tasks[id].next_run # None
                      /\ tasks[id].next_run <= clock
                      /\ tasks[id].next_run \in Times
  BY TypeFacts DEF Due, IsDue, StoredTask
<1>5. ASSUME NEW id \in ids
      PROVE  tasks[id].next_run \in 0..clock /\ <<id, tasks[id].next_run>> \notin done
  BY <1>4, TypeFacts DEF RecordedIsPast, Times, None
<1>6. RecordedIsPast'
  BY <1>2 DEF RecordedIsPast
<1>7. PageIsUnrecorded'
  <2> SUFFICES ASSUME NEW v \in Schedulers, NEW p \in page'[v]
               PROVE  /\ p.id \in DOMAIN tasks
                      /\ p.next_run \in 0..clock
                      /\ <<p.id, p.next_run>> \notin done
                      /\ \A q \in page'[v] : p.id = q.id => p = q
    BY <1>2 DEF PageIsUnrecorded
  <2>1. CASE v = s
    BY <2>1, <1>3, <1>4, <1>5
  <2>2. CASE v # s
    BY <2>2, <1>3 DEF PageIsUnrecorded
  <2>3. QED
    BY <2>1, <2>2
<1>8. RunIsNews'
  BY <1>2, <1>3 DEF RunIsNews, TaskRunResults
<1>9. QED
  BY <1>6, <1>7, <1>8

\* A run is started now, which is not before anything that was recorded.
LEMMA StartStep ==
  ASSUME TypeOK, OneScheduler, OnlyScheduler, NEW s \in Schedulers, Start(s)
  PROVE  OneScheduler'
<1> USE DEF OneScheduler
<1>1. PICK task \in page[s], result \in TaskRunResults(clock) :
         /\ page' = [page EXCEPT ![s] = @ \ {task}]
         /\ run' = [run EXCEPT ![s] = [id |-> task.id, due |-> task.next_run,
                                       result |-> result]]
  BY DEF Start
<1>2. UNCHANGED <<clock, tasks, done>> /\ \A v \in Schedulers : v = s
  BY DEF Start, OnlyScheduler
<1>3. /\ page'[s] = page[s] \ {task}
      /\ run'[s].id = task.id /\ run'[s].due = task.next_run /\ run'[s].result = result
  BY <1>1 DEF TypeOK
<1>4. result.ran_at = clock /\ clock \in Nat
  BY ResultTypes, TypeFacts
<1>5. /\ task.id \in DOMAIN tasks
      /\ task.next_run \in 0..clock
      /\ <<task.id, task.next_run>> \notin done
      /\ \A p \in page[s] \ {task} : p.id # task.id
  BY DEF PageIsUnrecorded
<1>6. \A d \in done : d[2] <= clock
  BY <1>4 DEF RecordedIsPast
<1>7. RecordedIsPast'
  BY <1>2 DEF RecordedIsPast
<1>8. PageIsUnrecorded'
  BY <1>2, <1>3 DEF PageIsUnrecorded
<1>9. RunIsNews'
  BY <1>2, <1>3, <1>4, <1>5, <1>6 DEF RunIsNews, TaskRunResults
<1>10. QED
  BY <1>7, <1>8, <1>9

\* A run by hand has no due time and starts now as well.
LEMMA StartByHandStep ==
  ASSUME TypeOK, OneScheduler, OnlyScheduler, NEW s \in Schedulers,
         NEW id \in TaskIds, StartByHand(s, id)
  PROVE  OneScheduler'
<1> USE DEF OneScheduler
<1>1. PICK result \in TaskRunResults(clock) :
         run' = [run EXCEPT ![s] = [id |-> id, due |-> None, result |-> result]]
  BY DEF StartByHand
<1>2. UNCHANGED <<clock, tasks, page, done>> /\ \A v \in Schedulers : v = s
  BY DEF StartByHand, OnlyScheduler
<1>3. run'[s].id = id /\ run'[s].due = None /\ run'[s].result = result
  BY <1>1 DEF TypeOK
<1>4. result.ran_at = clock /\ clock \in Nat
  BY ResultTypes, TypeFacts
<1>5. \A d \in done : d[2] <= clock
  BY <1>4 DEF RecordedIsPast
<1>6. RecordedIsPast' /\ PageIsUnrecorded'
  BY <1>2 DEF RecordedIsPast, PageIsUnrecorded
<1>7. RunIsNews'
  BY <1>2, <1>3, <1>4, <1>5 DEF RunIsNews, TaskRunResults
<1>8. QED
  BY <1>6, <1>7

\* An update moves the schedule past the due time it records, and past all that
\* was recorded before; the page has no other entry of its task.
LEMMA UpdateStep ==
  ASSUME TypeOK, OneScheduler, OnlyScheduler, NEW s \in Schedulers, Update(s)
  PROVE  OneScheduler'
<1> USE DEF OneScheduler
<1> DEFINE row == Updated(tasks[run[s].id], run[s].result)
<1>1. /\ run[s].id \in DOMAIN tasks
      /\ run[s].result \in Result
      /\ run[s].result \in TaskRunResults(run[s].result.ran_at)
      /\ run[s].result.ran_at \in 0..clock
  BY TypeFacts DEF Update, Run, RunIsNews
<1>2. /\ row.next_run \in Int
      /\ row.next_run = None \/ row.next_run > run[s].result.ran_at
  <2>1. row.next_run = run[s].result.next_run
    BY <1>1, TypeFacts, UpdatedType
  <2>2. run[s].result.next_run \in Times /\ run[s].result.ran_at \in 0..MaxTime
    BY <1>1, TypeFacts DEF Result
  <2>3. QED
    BY <1>1, <2>1, <2>2, ResultTypes DEF Times, None
<1>3. /\ DOMAIN tasks' = DOMAIN tasks
      /\ tasks'[run[s].id] = row
      /\ \A id \in DOMAIN tasks : id # run[s].id => tasks'[id] = tasks[id]
  BY <1>1 DEF Update
<1> HIDE DEF row
<1>4. UNCHANGED <<clock, page, run>> /\ phase'[s] = "idle" /\ \A v \in Schedulers : v = s
  BY DEF Update, OnlyScheduler, TypeOK
<1>5. \A d \in done' : d \in done \/ (run[s].due # None /\ d = <<run[s].id, run[s].due>>)
  BY DEF Update
<1>6. RecordedIsPast'
  <2> SUFFICES ASSUME NEW d \in done'
               PROVE  /\ d[1] \in DOMAIN tasks
                      /\ d[2] \in 0..clock
                      /\ tasks'[d[1]].next_run = None \/ tasks'[d[1]].next_run > d[2]
    BY <1>3, <1>4 DEF RecordedIsPast
  <2>1. CASE d \in done /\ d[1] # run[s].id
    BY <2>1, <1>3 DEF RecordedIsPast
  <2>2. CASE d \in done /\ d[1] = run[s].id
    <3>1. d[2] <= run[s].result.ran_at /\ d[2] \in 0..clock
      BY <2>2 DEF RecordedIsPast, RunIsNews, Update
    <3>2. QED
      BY <2>2, <3>1, <1>1, <1>2, <1>3
  <2>3. CASE run[s].due # None /\ d = <<run[s].id, run[s].due>>
    <3>1. run[s].due \in 0..run[s].result.ran_at
      BY <2>3 DEF RunIsNews, Update
    <3>2. clock \in Nat
      BY TypeFacts
    <3>3. QED
      BY <2>3, <3>1, <3>2, <1>1, <1>2, <1>3
  <2>4. QED
    BY <1>5, <2>1, <2>2, <2>3
<1>7. PageIsUnrecorded'
  <2>1. \A p \in page[s] : <<p.id, p.next_run>> \notin done'
    BY <1>5 DEF PageIsUnrecorded, RunIsNews, Update
  <2>2. QED
    BY <2>1, <1>3, <1>4 DEF PageIsUnrecorded
<1>8. RunIsNews'
  BY <1>4 DEF RunIsNews
<1>9. QED
  BY <1>6, <1>7, <1>8

\* Steps that only move a run on, end it or forget it.
LEMMA QuietStep ==
  ASSUME TypeOK, OneScheduler, NEW s \in Schedulers,
         Load(s) \/ LoadFindsNothing(s) \/ Fail(s) \/ Restart(s)
  PROVE  OneScheduler'
<1> USE DEF OneScheduler
<1>1. UNCHANGED <<clock, tasks, run, done>>
  BY DEF Load, LoadFindsNothing, Fail, Restart
<1>2. \A v \in Schedulers : page'[v] \subseteq page[v]
  BY DEF Load, LoadFindsNothing, Fail, Restart, TypeOK
<1>3. \A v \in Schedulers : phase'[v] # "idle" => phase[v] # "idle"
  BY DEF Load, LoadFindsNothing, Fail, Restart, TypeOK
<1>4. RecordedIsPast'
  BY <1>1 DEF RecordedIsPast
<1>5. PageIsUnrecorded'
  BY <1>1, <1>2 DEF PageIsUnrecorded
<1>6. RunIsNews'
  BY <1>1, <1>2, <1>3 DEF RunIsNews, TaskRunResults
<1>7. QED
  BY <1>4, <1>5, <1>6

\* The inductive invariant: a row is one run's result, and with one scheduler
\* what was recorded is behind the row's schedule, its page and its run.
THEOREM Inductive == Spec => []IndInv
<1>1. Init => IndInv
  BY InitTypes DEF Init, IndInv, RowIsOneResult, RecordedIsPast, PageIsUnrecorded, RunIsNews
<1>2. TypeOK /\ TypeOK' /\ IndInv /\ [Next]_vars => IndInv'
  <2> SUFFICES ASSUME TypeOK, TypeOK', IndInv, [Next]_vars PROVE IndInv'
    OBVIOUS
  <2>1. RowIsOneResult'
    BY RowsStep DEF IndInv
  <2>2. ASSUME OnlyScheduler PROVE OneScheduler'
    <3>0. OneScheduler
      BY <2>2 DEF IndInv, OneScheduler
    <3>1. CASE Tick
      <4>1. clock' \in Nat /\ clock' >= clock
        BY <3>1 DEF Tick, TypeOK
      <4>2. QED
        BY <3>0, <3>1, <4>1, TimePasses DEF Tick
    <3>2. ASSUME NEW id \in TaskIds, NEW status \in TaskStatus, NEW t \in Times,
                 create_task(id, status, t)
          PROVE  OneScheduler'
      <4>1. clock' \in Nat /\ clock' >= clock
        BY <3>2 DEF create_task, TypeOK
      <4>2. QED
        BY <3>0, <3>2, <4>1, TimePasses DEF create_task
    <3>3. ASSUME NEW s \in Schedulers, NEW limit \in Limits, get_due_tasks(s, limit)
          PROVE  OneScheduler'
      BY <3>0, <3>3, PollStep
    <3>4. ASSUME NEW s \in Schedulers, Start(s) PROVE OneScheduler'
      BY <2>2, <3>0, <3>4, StartStep
    <3>5. ASSUME NEW s \in Schedulers, NEW id \in TaskIds, StartByHand(s, id)
          PROVE  OneScheduler'
      BY <2>2, <3>0, <3>5, StartByHandStep
    <3>6. ASSUME NEW s \in Schedulers, Update(s) PROVE OneScheduler'
      BY <2>2, <3>0, <3>6, UpdateStep
    <3>7. ASSUME NEW s \in Schedulers,
                 Load(s) \/ LoadFindsNothing(s) \/ Fail(s) \/ Restart(s)
          PROVE  OneScheduler'
      BY <3>0, <3>7, QuietStep
    <3>8. CASE UNCHANGED vars
      <4>1. clock' \in Nat /\ clock' >= clock
        BY <3>8 DEF vars, TypeOK
      <4>2. QED
        BY <3>0, <3>8, <4>1, TimePasses DEF vars
    <3>9. QED
      BY <3>1, <3>2, <3>3, <3>4, <3>5, <3>6, <3>7, <3>8 DEF Next
  <2>3. QED
    BY <2>1, <2>2 DEF IndInv, OneScheduler, OnlyScheduler
<1>3. QED
  BY <1>1, <1>2, Typing, PTL DEF Spec

\* A single scheduler never runs again what it has recorded.
THEOREM DueTasksRunOnce == Spec => []RunsDueTaskOnce
<1>1. IndInv => RunsDueTaskOnce
  <2>1. Cardinality(Schedulers) = 1 => OnlyScheduler
    BY SchedulersAssumption, FS_Singleton DEF OnlyScheduler
  <2>2. QED
    BY <2>1 DEF IndInv, RunIsNews, RunsDueTaskOnce
<1>2. QED
  BY <1>1, Inductive, PTL
=============================================================================
