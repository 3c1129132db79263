------------------------------ MODULE TaskStore ------------------------------
(* The tasks table of the store (crates/store/src/ops/tasks.rs) under one or  *)
(* more schedulers: each polls get_due_tasks, runs what the page lists and    *)
(* records the outcome with update_task_after_run, which first loads the row  *)
(* and then updates it in a second statement.                                 *)
(*                                                                            *)
(* The scheduler is not in the repository; it is the caller TaskRunResult     *)
(* describes: a task that stays active gets a next run after the present one, *)
(* any other has none.  A run may also be asked for by hand, of any task id.  *)
EXTENDS Integers, FiniteSets, FiniteSetsExt

CONSTANTS
    Schedulers,     \* tasks that poll and run
    TaskIds,        \* ids generate_id may return; a set of numbers
    Limits,         \* page sizes the schedulers ask for
    MAX_PAGE_SIZE,
    MaxTime         \* bound: the clock stops there

ASSUME TaskIdsAssumption    == TaskIds \subseteq Nat /\ TaskIds # {}
ASSUME SchedulersAssumption == IsFiniteSet(Schedulers)
ASSUME BoundAssumption      == MaxTime \in Nat /\ MAX_PAGE_SIZE \in Nat \ {0}

VARIABLES
    clock,      \* Utc::now()
    tasks,      \* the rows of table tasks, by id
    phase,      \* scheduler -> "idle", "running", "loaded"
    page,       \* scheduler -> [id, next_run] of the tasks it has yet to run
    run,        \* scheduler -> the run in progress, or the last one
    done        \* <<id, next_run>> of the due runs that were recorded (history)

vars == <<clock, tasks, phase, page, run, done>>

None == -1      \* a NULL time

\* paused, completed and failed are one: no statement of the store tells them apart.
TaskStatus == {"active", "inactive"}

Times == {None} \cup 0..(MaxTime + 1)

NoResult == [ran_at |-> None, status |-> "active", next_run |-> None]

\* Next run time, if the task is still active.
TaskRunResults(ran_at) ==
    {[ran_at |-> ran_at, status |-> "active", next_run |-> t] : t \in (ran_at + 1)..(MaxTime + 1)}
        \cup {[ran_at |-> ran_at, status |-> "inactive", next_run |-> None]}

StoredTask == [status : TaskStatus, next_run : Times,
               last_result : [ran_at : Times, status : TaskStatus, next_run : Times],
               created_at : Times, updated_at : Times]

TypeOK ==
    /\ clock \in 0..MaxTime
    /\ DOMAIN tasks \subseteq TaskIds
    /\ \A id \in DOMAIN tasks : tasks[id] \in StoredTask
    /\ phase \in [Schedulers -> {"idle", "running", "loaded"}]
    /\ page \in [Schedulers -> SUBSET [id : TaskIds, next_run : Times]]
    /\ run \in [Schedulers -> [id : TaskIds, due : Times,
                               result : [ran_at : Times, status : TaskStatus, next_run : Times]]]
    /\ \A s \in Schedulers : phase[s] = "loaded" => run[s].id \in DOMAIN tasks
    /\ done \subseteq TaskIds \X Times

Init ==
    /\ clock = 0
    /\ tasks = [id \in {} |-> NoResult]
    /\ phase = [s \in Schedulers |-> "idle"]
    /\ page = [s \in Schedulers |-> {}]
    /\ run = [s \in Schedulers |-> [id |-> CHOOSE id \in TaskIds : TRUE, due |-> None, result |-> NoResult]]
    /\ done = {}

Tick ==
    /\ clock < MaxTime
    /\ clock' = clock + 1
    /\ UNCHANGED <<tasks, phase, page, run, done>>

\* Status and first run are the caller's; the id is fresh, in no known order.
create_task(id, status, next_run) ==
    /\ id \notin DOMAIN tasks
    /\ tasks' = [i \in DOMAIN tasks \cup {id} |->
                    IF i = id
                    THEN [status |-> status, next_run |-> next_run, last_result |-> NoResult,
                          created_at |-> clock, updated_at |-> clock]
                    ELSE tasks[i]]
    /\ UNCHANGED <<clock, phase, page, run, done>>

-----------------------------------------------------------------------------
\* Mutant: a page larger than the largest is not given at all.
clamped_take_Refuses(limit) == IF limit <= MAX_PAGE_SIZE THEN limit ELSE 0

\* A limit that is not negative, cut down to the largest page.
clamped_take(limit) == Min({limit, MAX_PAGE_SIZE})

\* Mutant: every scheduled task is due.
IsDue_AnyTime(task) == task.status = "active" /\ task.next_run # None

\* status = 'active' AND next_run IS NOT NULL AND next_run <= now
IsDue(task) ==
    /\ task.status = "active"
    /\ task.next_run # None
    /\ task.next_run <= clock

Due == {id \in DOMAIN tasks : IsDue(tasks[id])}

\* ORDER BY next_run ASC, id ASC
RunsBefore(i, j) ==
    \/ tasks[i].next_run < tasks[j].next_run
    \/ tasks[i].next_run = tasks[j].next_run /\ i < j

IsDuePage(ids, n) ==
    /\ Cardinality(ids) = IF Cardinality(Due) < n THEN Cardinality(Due) ELSE n
    /\ \A i \in ids, j \in Due \ ids : RunsBefore(i, j)

\* A negative limit is refused (InvalidLimit): the scheduler has an error and no page.
get_due_tasks(s, limit) ==
    /\ phase[s] = "idle" /\ page[s] = {}
    /\ limit >= 0
    /\ \E ids \in SUBSET Due :
          /\ IsDuePage(ids, clamped_take(limit))
          /\ page' = [page EXCEPT ![s] =
                         {[id |-> id, next_run |-> tasks[id].next_run] : id \in ids}]
    /\ UNCHANGED <<clock, tasks, phase, run, done>>

\* The scheduler runs a task of its page, as the page shows it.
Start(s) ==
    /\ phase[s] = "idle"
    /\ \E task \in page[s] :
          /\ page' = [page EXCEPT ![s] = @ \ {task}]
          /\ \E result \in TaskRunResults(clock) :
                run' = [run EXCEPT ![s] = [id |-> task.id, due |-> task.next_run,
                                           result |-> result]]
    /\ phase' = [phase EXCEPT ![s] = "running"]
    /\ UNCHANGED <<clock, tasks, done>>

\* A run that is asked for by hand, perhaps of a task that does not exist.
StartByHand(s, id) ==
    /\ phase[s] = "idle"
    /\ \E result \in TaskRunResults(clock) :
          run' = [run EXCEPT ![s] = [id |-> id, due |-> None, result |-> result]]
    /\ phase' = [phase EXCEPT ![s] = "running"]
    /\ UNCHANGED <<clock, tasks, page, done>>

-----------------------------------------------------------------------------
(* update_task_after_run                                                     *)

Load(s) ==
    /\ phase[s] = "running"
    /\ run[s].id \in DOMAIN tasks
    /\ phase' = [phase EXCEPT ![s] = "loaded"]
    /\ UNCHANGED <<clock, tasks, page, run, done>>

LoadFindsNothing(s) ==
    /\ phase[s] = "running"
    /\ run[s].id \notin DOMAIN tasks
    /\ phase' = [phase EXCEPT ![s] = "idle"]
    /\ UNCHANGED <<clock, tasks, page, run, done>>

\* Mutant: the schedule is somebody else's to move on.
Updated_KeepsSchedule(task, result) ==
    [task EXCEPT !.status = result.status,
                 !.last_result = result,
                 !.updated_at = result.ran_at]

\* The row as the UPDATE leaves it: four columns, whatever they held.
Updated(task, result) ==
    [task EXCEPT !.status = result.status,
                 !.next_run = result.next_run,
                 !.last_result = result,
                 !.updated_at = result.ran_at]

\* The UPDATE.  It does not ask whether the row is still the one that was loaded.
\* Its answer may be lost on the way back, and so may that of the SELECT by id
\* that follows it on SQLite: the row is written, and this step is over.
Update(s) ==
    /\ phase[s] = "loaded"
    /\ tasks' = [tasks EXCEPT ![run[s].id] = Updated(@, run[s].result)]
    /\ phase' = [phase EXCEPT ![s] = "idle"]
    /\ done' = IF run[s].due = None THEN done ELSE done \cup {<<run[s].id, run[s].due>>}
    /\ UNCHANGED <<clock, page, run>>

\* Either statement fails, or the run is given up: nothing is recorded.
Fail(s) ==
    /\ phase[s] \in {"running", "loaded"}
    /\ phase' = [phase EXCEPT ![s] = "idle"]
    /\ UNCHANGED <<clock, tasks, page, run, done>>

\* The scheduler's process stops and starts again with no page and no run.
Restart(s) ==
    /\ phase[s] # "idle" \/ page[s] # {}
    /\ page' = [page EXCEPT ![s] = {}]
    /\ phase' = [phase EXCEPT ![s] = "idle"]
    /\ UNCHANGED <<clock, tasks, run, done>>

Next ==
    \/ Tick
    \/ \E id \in TaskIds, status \in TaskStatus, t \in Times : create_task(id, status, t)
    \/ \E s \in Schedulers :
          \/ \E limit \in Limits : get_due_tasks(s, limit)
          \/ Start(s)
          \/ \E id \in TaskIds : StartByHand(s, id)
          \/ Load(s)
          \/ LoadFindsNothing(s)
          \/ Update(s)
          \/ Fail(s)
          \/ Restart(s)

Spec == Init /\ [][Next]_vars

(* The database answers and the clock goes on; a scheduler polls when it has  *)
(* nothing to run and runs what it polled; it stops failing and restarting one *)
(* day, and runs by hand are not asked for for ever.                              *)
Fairness ==
    /\ WF_vars(Tick)
    /\ \A s \in Schedulers :
          /\ WF_vars(\E limit \in Limits : limit > 0 /\ get_due_tasks(s, limit))
          /\ WF_vars(Start(s))
          /\ WF_vars(Load(s) \/ LoadFindsNothing(s) \/ Update(s))
          /\ <>[][~Fail(s) /\ ~Restart(s)]_vars
          /\ <>[][\A id \in TaskIds : ~StartByHand(s, id)]_vars

LiveSpec == Spec /\ Fairness

-----------------------------------------------------------------------------
(* Properties                                                                *)

\* One scheduler runs a due task once: after its outcome was recorded, the
\* same due time is never run again, whatever pages, failures and runs by hand
\* lie between (with two schedulers it may be: nothing claims a task).
RunsDueTaskOnce ==
    Cardinality(Schedulers) = 1 =>
        \A s \in Schedulers :
            phase[s] # "idle" /\ run[s].due # None => <<run[s].id, run[s].due>> \notin done

\* Why that is so: the parts of an inductive invariant.  A row carries the
\* result its status, next run and update time came from.
RowIsOneResult ==
    \A id \in DOMAIN tasks :
        LET task == tasks[id] IN task.last_result # NoResult =>
            /\ task.status = task.last_result.status
            /\ task.next_run = task.last_result.next_run
            /\ task.updated_at = task.last_result.ran_at

OnlyScheduler == \A s, t \in Schedulers : s = t

\* What was recorded is over, and the row's schedule is past it.
RecordedIsPast ==
    \A d \in done :
        /\ d[1] \in DOMAIN tasks
        /\ d[2] \in 0..clock
        /\ tasks[d[1]].next_run = None \/ tasks[d[1]].next_run > d[2]

\* A page lists rows that were due, each once, and none that was recorded.
PageIsUnrecorded ==
    \A s \in Schedulers : \A p \in page[s] :
        /\ p.id \in DOMAIN tasks
        /\ p.next_run \in 0..clock
        /\ <<p.id, p.next_run>> \notin done
        /\ \A q \in page[s] : p.id = q.id => p = q

\* A run in progress schedules its task for later than all that was recorded
\* of it, and of its own due time, of which the page holds no other entry.
RunIsNews ==
    \A s \in Schedulers : phase[s] # "idle" =>
        /\ run[s].result \in TaskRunResults(run[s].result.ran_at)
        /\ run[s].result.ran_at \in 0..clock
        /\ \A d \in done : d[1] = run[s].id => d[2] <= run[s].result.ran_at
        /\ run[s].due # None =>
              /\ run[s].due \in 0..run[s].result.ran_at
              /\ run[s].id \in DOMAIN tasks
              /\ <<run[s].id, run[s].due>> \notin done
              /\ \A p \in page[s] : p.id # run[s].id

\* The invariant that is inductive: with one scheduler all of its parts hold
\* at every moment between two statements.
IndInv ==
    /\ TypeOK
    /\ RowIsOneResult
    /\ OnlyScheduler => RecordedIsPast /\ PageIsUnrecorded /\ RunIsNews

\* A due task does not stay due for ever, with pages of one row as well.
DueTasksAreRun ==
    \A id \in TaskIds : \A t \in 0..MaxTime :
        (id \in Due /\ tasks[id].next_run = t) ~> ~(id \in Due /\ tasks[id].next_run = t)

\* types/task.rs:48 of last_result: "from the most recent run, if any".
LastResultIsMostRecent ==
    [][\A id \in DOMAIN tasks :
          tasks'[id].last_result.ran_at >= tasks[id].last_result.ran_at]_vars
=============================================================================
