----------------------------- MODULE WorkerJobs -----------------------------
(***************************************************************************)
(* Worker scripts and their history: the API that runs, retries and        *)
(* cancels jobs (api/routers/workers.py), the thread that executes one     *)
(* (workers/executor.py) and the cron scheduler (workers/scheduler.py).    *)
(*                                                                         *)
(* A job asked for through the API is executed by a thread of the API      *)
(* process that accepted it.  A job the scheduler makes is pushed to a     *)
(* Redis list that no code of this repository reads (so it is no variable  *)
(* here), under the key of ARQ's sorted set.  Everybody writes the status  *)
(* of a row by its key, whatever it has become since it was read.          *)
(***************************************************************************)
EXTENDS Integers, Sequences, FiniteSets

CONSTANTS
    Tasks,        \* task names of SCRIPTS
    Schedules,    \* rows of worker.worker_schedule that may exist
    TaskOf,       \* schedule -> its task
    Processes,    \* API worker processes
    Schedulers,   \* CronSchedulers running
    None,
    MaxJobs,      \* bound on the jobs created
    MaxFaults     \* bound on failures, and on the schedules deleted

ASSUME JobsAssumption ==
    /\ TaskOf \in [Schedules -> Tasks]
    /\ None \notin Schedules \cup Processes
    /\ MaxJobs \in Nat /\ MaxFaults \in Nat

VARIABLES
    jobs,       \* committed rows of worker.job_history, in the order of creation
    thread,     \* job -> where run_script is: "none", "ready" or "script"
    home,       \* job -> the API process of its thread, or None
    cancels,    \* jobs that a cancel request has read as queued
    table,      \* schedule -> its row
    tick,       \* scheduler -> where _tick_sync is, the schedules it has still
                \* to serve, the one it is at, whether a commit has expired the
                \* copies of the rows, and which of the copies have a bad cron
    lost,       \* history: jobs whose thread ended without its last write
    faults

threads == <<thread, home>>
vars == <<jobs, threads, cancels, table, tick, lost, faults>>

JobIds == 1..MaxJobs

\* The five values the comment in workers/models.py lists.
Statuses == {"queued", "running", "completed", "failed", "cancelled"}

Idle == [pc |-> "idle", todo |-> {}, at |-> None, expired |-> FALSE, bad |-> {}]

\* valid: croniter can read the cron_expression.
NoSchedule == [exists |-> FALSE, active |-> FALSE, due |-> FALSE, valid |-> FALSE]

Init ==
    /\ jobs    = <<>>
    /\ thread  = [j \in JobIds |-> "none"]
    /\ home    = [j \in JobIds |-> None]
    /\ cancels = {}
    /\ table   = [c \in Schedules |-> NoSchedule]
    /\ tick    = [s \in Schedulers |-> Idle]
    /\ lost    = {}
    /\ faults  = 0

-----------------------------------------------------------------------------
\* An INSERT of a queued job.
NewJob(t, by) ==
    /\ Len(jobs) < MaxJobs
    /\ jobs' = Append(jobs, [task |-> t, status |-> "queued", by |-> by])

\* enqueue_job: the row is committed, then a thread is started.
EnqueueJob(p, t, by) ==
    /\ NewJob(t, by)
    /\ thread' = [thread EXCEPT ![Len(jobs) + 1] = "ready"]
    /\ home'   = [home EXCEPT ![Len(jobs) + 1] = p]
    /\ UNCHANGED <<cancels, table, tick, lost, faults>>

\* run_task and retry_job.
RunTask(p, t) == EnqueueJob(p, t, "ui")

RetryJob(p, j) ==
    /\ j \in DOMAIN jobs
    /\ jobs[j].status \in {"failed", "cancelled"}
    /\ EnqueueJob(p, jobs[j].task, "retry")

\* cancel_job loads the row and finds it queued ...
CancelRead(j) ==
    /\ j \in DOMAIN jobs
    /\ jobs[j].status = "queued"
    /\ cancels' = cancels \cup {j}
    /\ UNCHANGED <<jobs, threads, table, tick, lost, faults>>

\* ... and writes cancelled, whatever the row is by then.
CancelCommit(j) ==
    /\ j \in cancels
    /\ cancels' = cancels \ {j}
    /\ jobs' = [jobs EXCEPT ![j].status = "cancelled"]
    /\ UNCHANGED <<threads, table, tick, lost, faults>>

-----------------------------------------------------------------------------
EndThread(j) ==
    /\ thread' = [thread EXCEPT ![j] = "none"]
    /\ home'   = [home EXCEPT ![j] = None]

\* run_script: the job is marked running (a cancelled one as well) and the
\* script is started.
Begin(j) ==
    /\ thread[j] = "ready"
    /\ thread' = [thread EXCEPT ![j] = "script"]
    /\ jobs'   = [jobs EXCEPT ![j].status = "running"]
    /\ UNCHANGED <<home, cancels, table, tick, lost, faults>>

\* Mutant: nothing is written for a script that fails.
Finish_OnlySuccess(j) ==
    /\ thread[j] = "script"
    /\ EndThread(j)
    /\ jobs' \in {jobs, [jobs EXCEPT ![j].status = "completed"]}
    /\ UNCHANGED <<cancels, table, tick, lost, faults>>

\* run_script: the script ends, or cannot be started.
Finish(j) ==
    /\ thread[j] = "script"
    /\ EndThread(j)
    /\ \E outcome \in {"completed", "failed"} :
           jobs' = [jobs EXCEPT ![j].status = outcome]
    /\ UNCHANGED <<cancels, table, tick, lost, faults>>

\* run_script: a commit fails, with or without an effect, and the handler's
\* commit of failed succeeds or fails too.
CommitError(j) ==
    /\ thread[j] # "none"
    /\ faults < MaxFaults
    /\ faults' = faults + 1
    /\ EndThread(j)
    /\ \E s \in {jobs[j].status, "failed"} \cup
                (IF thread[j] = "ready" THEN {"running"} ELSE {"completed"}) :
           jobs' = [jobs EXCEPT ![j].status = s]
    /\ lost' = lost \cup {j}
    /\ UNCHANGED <<cancels, table, tick>>

\* An API process ends: its threads are daemons and end with it.
ProcessDies(p) ==
    LET dead == {j \in JobIds : home[j] = p} IN
    /\ dead # {}
    /\ faults < MaxFaults
    /\ faults' = faults + 1
    /\ thread' = [j \in JobIds |-> IF j \in dead THEN "none" ELSE thread[j]]
    /\ home'   = [j \in JobIds |-> IF j \in dead THEN None ELSE home[j]]
    /\ lost'   = lost \cup dead
    /\ UNCHANGED <<jobs, cancels, table, tick>>

-----------------------------------------------------------------------------
\* create_schedule (next_run_at is NULL, so it is due), update_schedule and
\* delete_schedule.  A new row has a new key: one no tick knows.  Nobody tests
\* the cron_expression, here or there.
CreateSchedule(c, active, valid) ==
    /\ ~table[c].exists
    /\ \A s \in Schedulers : c \notin tick[s].todo \cup {tick[s].at}
    /\ table' = [table EXCEPT ![c] = [exists |-> TRUE, active |-> active, due |-> TRUE,
                                           valid |-> valid]]
    /\ UNCHANGED <<jobs, threads, cancels, tick, lost, faults>>

UpdateSchedule(c, active, valid) ==
    /\ table[c].exists
    /\ table' = [table EXCEPT ![c].active = active, ![c].valid = valid]
    /\ UNCHANGED <<jobs, threads, cancels, tick, lost, faults>>

DeleteSchedule(c) ==
    /\ table[c].exists
    /\ faults < MaxFaults
    /\ faults' = faults + 1
    /\ table' = [table EXCEPT ![c] = NoSchedule]
    /\ UNCHANGED <<jobs, threads, cancels, tick, lost>>

\* Time reaches next_run_at.
BecomeDue(c) ==
    /\ table[c].exists /\ ~table[c].due
    /\ table' = [table EXCEPT ![c].due = TRUE]
    /\ UNCHANGED <<jobs, threads, cancels, tick, lost, faults>>

Due == {c \in Schedules : table[c].exists /\ table[c].active /\ table[c].due}

\* _tick_sync: _get_due_schedules.
TickBegin(s) ==
    /\ tick[s].pc = "idle"
    /\ Due # {}
    /\ tick' = [tick EXCEPT ![s] =
           [Idle EXCEPT !.pc = "serve", !.todo = Due,
                        !.bad = {c \in Due : ~table[c].valid}]]
    /\ UNCHANGED <<jobs, threads, cancels, table, lost, faults>>

\* Mutant: only running jobs count.
HasPendingJob_Running(t) ==
    \E j \in DOMAIN jobs : jobs[j].task = t /\ jobs[j].status = "running"

\* _has_pending_job.
HasPendingJob(t) ==
    \E j \in DOMAIN jobs : jobs[j].task = t /\ jobs[j].status \in {"queued", "running"}

\* The schedule's next_run_at moves into the future (no row, no UPDATE).
Served(c) == table' = [table EXCEPT ![c].due = FALSE]

\* The tick goes on to its next schedule, or ends.
Proceed(s, todo) ==
    tick' = [tick EXCEPT ![s] = IF todo = {} THEN Idle
                                ELSE [Idle EXCEPT !.pc = "serve", !.todo = todo, !.expired = TRUE]]

\* The row of schedule c can still be read: from the copy or, when a commit
\* has expired it, from the database.
Readable(s, c) == c \in tick[s].todo /\ (tick[s].expired => table[c].exists)

\* ... but croniter raises on its cron_expression.
BadCron(s, c) == IF tick[s].expired THEN ~table[c].valid ELSE c \in tick[s].bad

\* _enqueue_sync: the task has a job already.
Skip(s, c) ==
    /\ tick[s].pc = "serve"
    /\ Readable(s, c) /\ ~BadCron(s, c)
    /\ HasPendingJob(TaskOf[c])
    /\ Served(c)
    /\ Proceed(s, tick[s].todo \ {c})
    /\ UNCHANGED <<jobs, threads, cancels, lost, faults>>

\* _enqueue_sync: it has none ...
Choose(s, c) ==
    /\ tick[s].pc = "serve"
    /\ Readable(s, c) /\ ~BadCron(s, c)
    /\ ~HasPendingJob(TaskOf[c])
    /\ tick' = [tick EXCEPT ![s].pc = "insert", ![s].at = c, ![s].todo = @ \ {c}]
    /\ UNCHANGED <<jobs, threads, cancels, table, lost, faults>>

\* ... so a job is inserted and the schedule moved on, in one transaction ...
Insert(s) ==
    /\ tick[s].pc = "insert"
    /\ NewJob(TaskOf[tick[s].at], "scheduler")
    /\ Served(tick[s].at)
    /\ tick' = [tick EXCEPT ![s].pc = "push"]
    /\ UNCHANGED <<threads, cancels, lost, faults>>

\* ... and the job is pushed to the list, with the task's name read again.
Push(s) ==
    /\ tick[s].pc = "push"
    /\ table[tick[s].at].exists
    /\ Proceed(s, tick[s].todo)
    /\ UNCHANGED <<jobs, threads, cancels, table, lost, faults>>

\* Redis refuses the LPUSH (WRONGTYPE) while ARQ's sorted set has the key: the
\* tick ends, the row stays.
PushRefused(s) ==
    /\ tick[s].pc = "push"
    /\ table[tick[s].at].exists
    /\ tick' = [tick EXCEPT ![s] = Idle]
    /\ UNCHANGED <<jobs, threads, cancels, table, lost, faults>>

\* Nothing catches what croniter raises, before the schedule is moved on: the
\* tick ends, and the next one meets the same schedule again.
CronRaises(s) ==
    /\ tick[s].pc = "serve"
    /\ \E c \in Schedules : Readable(s, c) /\ BadCron(s, c)
    /\ tick' = [tick EXCEPT ![s] = Idle]
    /\ UNCHANGED <<jobs, threads, cancels, table, lost, faults>>

\* The row of a schedule that was deleted cannot be read again: the tick ends.
RowGone(s) ==
    /\ \/ tick[s].pc = "serve" /\ \E c \in tick[s].todo : ~Readable(s, c)
       \/ tick[s].pc = "push" /\ ~table[tick[s].at].exists
    /\ tick' = [tick EXCEPT ![s] = Idle]
    /\ UNCHANGED <<jobs, threads, cancels, table, lost, faults>>

\* Mutant: the exception ends the loop.
TickFails_Fatal(s) ==
    /\ tick[s].pc # "idle"
    /\ faults < MaxFaults
    /\ faults' = faults + 1
    /\ tick' = [tick EXCEPT ![s].pc = "ended"]
    /\ UNCHANGED <<jobs, threads, cancels, table, lost>>

\* A statement or the connection to Redis fails, or the process dies and is started again.
\* run logs the exception; the next tick comes.
TickFails(s) ==
    /\ tick[s].pc # "idle"
    /\ faults < MaxFaults
    /\ faults' = faults + 1
    /\ tick' = [tick EXCEPT ![s] = Idle]
    /\ UNCHANGED <<jobs, threads, cancels, table, lost>>

RunScript(j) == Begin(j) \/ Finish(j) \/ CommitError(j)

Tick(s) ==
    \/ TickBegin(s) \/ Insert(s) \/ Push(s) \/ PushRefused(s)
    \/ CronRaises(s) \/ RowGone(s) \/ TickFails(s)
    \/ \E c \in Schedules : Skip(s, c) \/ Choose(s, c)

Next ==
    \/ \E p \in Processes, t \in Tasks : RunTask(p, t)
    \/ \E p \in Processes, j \in JobIds : RetryJob(p, j)
    \/ \E j \in JobIds : CancelRead(j) \/ CancelCommit(j) \/ RunScript(j)
    \/ \E p \in Processes : ProcessDies(p)
    \/ \E c \in Schedules, a, v \in BOOLEAN :
           CreateSchedule(c, a, v) \/ UpdateSchedule(c, a, v)
    \/ \E c \in Schedules : DeleteSchedule(c) \/ BecomeDue(c)
    \/ \E s \in Schedulers : Tick(s)

Spec == Init /\ [][Next]_vars

\* Threads run, scripts end, and a scheduler ticks again and again.
FairSpec ==
    /\ Spec
    /\ \A j \in JobIds : WF_vars(RunScript(j))
    /\ \A s \in Schedulers : WF_vars(Tick(s))

-----------------------------------------------------------------------------
\* Every variable has its type.
TypeOK ==
    /\ \A j \in DOMAIN jobs : /\ jobs[j].task \in Tasks /\ jobs[j].status \in Statuses
                              /\ jobs[j].by \in {"ui", "retry", "scheduler"}
    /\ thread \in [JobIds -> {"none", "ready", "script"}]
    /\ home \in [JobIds -> Processes \cup {None}]
    /\ table \in [Schedules -> [exists : BOOLEAN, active : BOOLEAN, due : BOOLEAN,
                              valid : BOOLEAN]]
    /\ \A s \in Schedulers : /\ tick[s].pc \in {"idle", "serve", "insert", "push"}
                             /\ tick[s].todo \subseteq Schedules
    /\ cancels \cup lost \subseteq DOMAIN jobs
    /\ faults \in 0..MaxFaults

\* A row of the API that counts as pending, which keeps the scheduler from its
\* task, is never left over by a race of threads, cancellations, retries and
\* ticks: a thread is going to run it or runs it, or the failure of its thread
\* is to blame.
PendingIsAccountedFor ==
    \A j \in DOMAIN jobs : jobs[j].by # "scheduler" =>
        /\ jobs[j].status = "running" => thread[j] = "script" \/ j \in lost
        /\ jobs[j].status = "queued" => thread[j] = "ready" \/ j \in lost

\* A row of the scheduler, pushed or not, is run by nobody, failure or none: it
\* stays queued, and keeps every schedule from its task, until it is cancelled.
SchedulerRowsStayQueued ==
    \A j \in DOMAIN jobs : jobs[j].by = "scheduler" =>
        thread[j] = "none" /\ jobs[j].status \in {"queued", "cancelled"}

\* The tables hold what the routes and the scheduler may write; every pending
\* row of the API has someone to end it, and no row of the scheduler has.
RowsAreAccountedFor == TypeOK /\ PendingIsAccountedFor /\ SchedulerRowsStayQueued

\* One scheduler never has two jobs of its own pending for one task, however
\* many schedules the task has and whatever happens to a job between the test
\* (_has_pending_job) and the insert.
SchedulerDoesNotPileUp ==
    \A t \in Tasks :
        Cardinality({j \in DOMAIN jobs : /\ jobs[j].task = t /\ jobs[j].by = "scheduler"
                                         /\ jobs[j].status \in {"queued", "running"}}) <= 1

\* A job asked for through the API settles: its status becomes a final one and
\* stays so, although a cancellation may land before, during or after the run
\* -- unless its thread is lost.
JobSettles ==
    \A j \in JobIds :
        (j \in DOMAIN jobs /\ thread[j] = "ready")
            ~> [](/\ j \in DOMAIN jobs
                  /\ jobs[j].status \in {"completed", "failed", "cancelled"} \/ j \in lost)

\* A due schedule is served although ticks fail, pushes are refused and other
\* schedules come first: it gets a job or is skipped, or is switched off or
\* deleted (or the bound on jobs is reached) -- but only as long as no due
\* schedule, itself or another one, has a cron_expression that croniter cannot
\* read: one of those can end every tick before its turn.
ScheduleIsServed ==
    \A c \in Schedules :
        c \in Due ~> \/ c \notin Due
                    \/ \E b \in Due : ~table[b].valid
                    \/ Len(jobs) = MaxJobs
=============================================================================
