-------------------------- MODULE WorkerJobs_proofs -------------------------
(***************************************************************************)
(* Proofs about WorkerJobs: every pending row of the API has someone to    *)
(* end it, or a failure to explain it, and nobody runs a scheduler's, for  *)
(* any number of tasks, schedules, processes, schedulers, jobs and faults, *)
(* and a single scheduler never has two jobs of its own for one task.      *)
(***************************************************************************)
EXTENDS WorkerJobs, FiniteSetTheorems, TLAPS

Rows  == [task : Tasks, status : Statuses, by : {"ui", "retry", "scheduler"}]
Sched == [exists : BOOLEAN, active : BOOLEAN, due : BOOLEAN, valid : BOOLEAN]
Table == [Schedules -> Sched]
Ticks == [pc : {"idle", "serve", "insert", "push"}, todo : SUBSET Schedules,
          at : Schedules \cup {None}, expired : BOOLEAN, bad : SUBSET Schedules]

\* A tick that inserts or pushes is at a schedule.
TickIsSound(k) == k.pc \in {"insert", "push"} => k.at \in Schedules

\* Only jobs have threads, can be cancelled or are lost.
RowsInv ==
    /\ jobs \in Seq(Rows) /\ Len(jobs) \in 0..MaxJobs
    /\ thread \in [JobIds -> {"none", "ready", "script"}]
    /\ home \in [JobIds -> Processes \cup {None}]
    /\ table \in Table
    /\ tick \in [Schedulers -> Ticks]
    /\ faults \in 0..MaxFaults
    /\ cancels \subseteq DOMAIN jobs /\ lost \subseteq DOMAIN jobs
    /\ \A j \in JobIds : thread[j] # "none" \/ home[j] # None => j \in DOMAIN jobs
    /\ \A s \in Schedulers : TickIsSound(tick[s])

\* Everything that is proved of the rows.
JobsInv == RowsInv /\ PendingIsAccountedFor /\ SchedulerRowsStayQueued

-----------------------------------------------------------------------------
(* The rows of the history.                                                *)

\* A row gets another status; the others stay as they are.
LEMMA StatusChanges ==
    ASSUME NEW q \in Seq(Rows), NEW j \in DOMAIN q, NEW st \in Statuses
    PROVE  LET r == [q EXCEPT ![j].status = st]
           IN  /\ r \in Seq(Rows) /\ Len(r) = Len(q) /\ DOMAIN r = DOMAIN q
               /\ \A k \in DOMAIN q : /\ r[k].task = q[k].task /\ r[k].by = q[k].by
                                      /\ r[k].status = IF k = j THEN st ELSE q[k].status
  <1> DEFINE r == [q EXCEPT ![j].status = st]
  <1>1. PICK n \in Nat : n = Len(q) /\ DOMAIN q = 1..n /\ q \in [1..n -> Rows]
    OBVIOUS
  <1>2. PICK new : new = [q[j] EXCEPT !.status = st]
    OBVIOUS
  <1>3. q[j] \in Rows
    BY <1>1
  <1>4. /\ new \in Rows /\ new.task = q[j].task /\ new.by = q[j].by /\ new.status = st
    BY <1>2, <1>3 DEF Rows
  <1>5. r = [q EXCEPT ![j] = new]
    BY <1>2
  <1>6. r \in [1..n -> Rows] /\ \A k \in 1..n : r[k] = IF k = j THEN new ELSE q[k]
    BY <1>1, <1>4, <1>5
  <1>7. r \in Seq(Rows) /\ Len(r) = n /\ DOMAIN r = 1..n
    BY <1>6
  <1> HIDE DEF r
  <1> QED BY <1>1, <1>4, <1>6, <1>7 DEF r

\* A row is added at the end.
LEMMA RowIsAdded ==
    ASSUME NEW q \in Seq(Rows), NEW row \in Rows
    PROVE  LET r == Append(q, row)
           IN  /\ r \in Seq(Rows) /\ Len(r) = Len(q) + 1 /\ Len(q) + 1 \in DOMAIN r
               /\ DOMAIN r = DOMAIN q \cup {Len(q) + 1} /\ Len(q) + 1 \notin DOMAIN q
               /\ r[Len(q) + 1] = row /\ \A k \in DOMAIN q : r[k] = q[k]
  OBVIOUS

-----------------------------------------------------------------------------
(* What each kind of step keeps.                                           *)

\* At first there are no rows.
LEMMA JobsInit == Init => JobsInv
  <1> SUFFICES ASSUME Init PROVE JobsInv
    OBVIOUS
  <1>1. Idle \in Ticks /\ Idle.pc = "idle" /\ NoSchedule \in Sched
    BY DEF Idle, Ticks, NoSchedule, Sched
  <1>2. jobs \in Seq(Rows) /\ Len(jobs) = 0 /\ DOMAIN jobs = {} /\ 0 \in 0..MaxJobs /\ 0 \in 0..MaxFaults
    BY JobsAssumption DEF Init
  <1>3. \A s \in Schedulers : TickIsSound(tick[s])
    BY <1>1 DEF Init, TickIsSound
  <1> QED BY <1>1, <1>2, <1>3 DEF Init, JobsInv, RowsInv, Table, PendingIsAccountedFor, SchedulerRowsStayQueued

\* A job is given to a thread, or a job that one has, or nobody is to run, changes
\* its status: a running one has its script, a queued one its thread, or it is lost.
LEMMA JobChanges ==
    ASSUME JobsInv, NEW j \in DOMAIN jobs, NEW st \in Statuses,
           NEW a \in {"none", "ready", "script"}, NEW h \in Processes \cup {None},
           jobs' = [jobs EXCEPT ![j].status = st],
           thread' = [thread EXCEPT ![j] = a], home' = [home EXCEPT ![j] = h],
           cancels' \subseteq DOMAIN jobs, lost \subseteq lost', lost' \subseteq DOMAIN jobs,
           faults' \in 0..MaxFaults, UNCHANGED <<table, tick>>,
           st = "running" => a = "script" \/ j \in lost',
           st = "queued" => j \in lost',
           jobs[j].by = "scheduler" => a = "none" /\ st = "cancelled"
    PROVE  JobsInv'
  <1> USE DEF JobsInv, RowsInv
  <1>1. /\ jobs' \in Seq(Rows) /\ Len(jobs') = Len(jobs) /\ DOMAIN jobs' = DOMAIN jobs
        /\ \A k \in DOMAIN jobs : /\ jobs'[k].by = jobs[k].by
                                  /\ jobs'[k].status = IF k = j THEN st ELSE jobs[k].status
    BY StatusChanges
  <1>2. /\ thread' \in [JobIds -> {"none", "ready", "script"}] /\ home' \in [JobIds -> Processes \cup {None}]
        /\ \A k \in JobIds : k # j => thread'[k] = thread[k] /\ home'[k] = home[k]
        /\ j \in JobIds => thread'[j] = a
    OBVIOUS
  <1>3. DOMAIN jobs \subseteq JobIds
    BY JobsAssumption DEF JobIds
  <1>4. \A k \in JobIds : thread'[k] # "none" \/ home'[k] # None => k \in DOMAIN jobs'
    BY <1>1, <1>2
  <1>5. \A s \in Schedulers : TickIsSound(tick[s])'
    BY <1>1 DEF TickIsSound
  <1>6. PendingIsAccountedFor' /\ SchedulerRowsStayQueued'
    <2> SUFFICES ASSUME NEW k \in DOMAIN jobs
                 PROVE  /\ jobs'[k].by # "scheduler" =>
                              /\ jobs'[k].status = "running" => thread'[k] = "script" \/ k \in lost'
                              /\ jobs'[k].status = "queued" => thread'[k] = "ready" \/ k \in lost'
                        /\ jobs'[k].by = "scheduler" =>
                              thread'[k] = "none" /\ jobs'[k].status \in {"queued", "cancelled"}
      BY <1>1 DEF PendingIsAccountedFor, SchedulerRowsStayQueued
    <2>1. CASE k = j
      BY <1>1, <1>2, <1>3, <2>1
    <2>2. CASE k # j
      BY <1>1, <1>2, <1>3, <2>2 DEF PendingIsAccountedFor, SchedulerRowsStayQueued
    <2> QED BY <2>1, <2>2
  <1> QED BY <1>1, <1>2, <1>4, <1>5, <1>6

\* The rows stay as they are, and a tick moves on.
LEMMA TickMoves ==
    ASSUME JobsInv, NEW s \in Schedulers, NEW new \in Ticks, TickIsSound(new),
           tick' = [tick EXCEPT ![s] = new],
           table' \in Table, faults' \in 0..MaxFaults,
           UNCHANGED <<jobs, threads, cancels, lost>>
    PROVE  JobsInv'
  <1> USE DEF JobsInv, RowsInv, threads
  <1>1. tick' \in [Schedulers -> Ticks] /\ \A x \in Schedulers : tick'[x] = IF x = s THEN new ELSE tick[x]
    OBVIOUS
  <1>2. \A x \in Schedulers : TickIsSound(tick[x])'
    BY <1>1 DEF TickIsSound
  <1>3. PendingIsAccountedFor' /\ SchedulerRowsStayQueued'
    BY DEF PendingIsAccountedFor, SchedulerRowsStayQueued
  <1> QED BY <1>1, <1>2, <1>3

\* A job is added, for a thread or by a tick, which moves on.
LEMMA JobIsAdded ==
    ASSUME JobsInv, NEW t \in Tasks, NEW by \in {"ui", "retry", "scheduler"}, NewJob(t, by),
           thread' \in [JobIds -> {"none", "ready", "script"}], home' \in [JobIds -> Processes \cup {None}],
           tick' \in [Schedulers -> Ticks], table' \in Table,
           \A s \in Schedulers : TickIsSound(tick'[s]),
           \A k \in JobIds : k # Len(jobs) + 1 => thread'[k] = thread[k] /\ home'[k] = home[k],
           IF by = "scheduler" THEN UNCHANGED thread ELSE thread'[Len(jobs) + 1] = "ready",
           UNCHANGED <<cancels, lost, faults>>
    PROVE  JobsInv'
  <1> USE DEF JobsInv, RowsInv
  <1>1. PICK row : row = [task |-> t, status |-> "queued", by |-> by]
    OBVIOUS
  <1>2. row \in Rows /\ row.status = "queued"
    BY <1>1 DEF Rows, Statuses
  <1>3. PICK n \in Nat : n = Len(jobs) + 1
    OBVIOUS
  <1>4. n <= MaxJobs /\ jobs' = Append(jobs, row)
    BY <1>1, <1>3, JobsAssumption DEF NewJob
  <1>5. /\ jobs' \in Seq(Rows) /\ Len(jobs') = n /\ DOMAIN jobs' = DOMAIN jobs \cup {n}
        /\ jobs'[n] = row /\ (\A k \in DOMAIN jobs : jobs'[k] = jobs[k]) /\ n \notin DOMAIN jobs
    BY <1>2, <1>3, <1>4, RowIsAdded
  <1>6. Len(jobs') \in 0..MaxJobs
    BY <1>4, <1>5, JobsAssumption
  <1>7. \A k \in JobIds : thread'[k] # "none" \/ home'[k] # None => k \in DOMAIN jobs'
    BY <1>3, <1>5
  <1>8. \A s \in Schedulers : TickIsSound(tick[s])'
    BY DEF TickIsSound
  <1>9. DOMAIN jobs \subseteq JobIds
    BY JobsAssumption DEF JobIds
  <1>10. PendingIsAccountedFor' /\ SchedulerRowsStayQueued'
    <2> SUFFICES ASSUME NEW k \in DOMAIN jobs \cup {n}
                 PROVE  /\ jobs'[k].by # "scheduler" =>
                              /\ jobs'[k].status = "running" => thread'[k] = "script" \/ k \in lost'
                              /\ jobs'[k].status = "queued" => thread'[k] = "ready" \/ k \in lost'
                        /\ jobs'[k].by = "scheduler" =>
                              thread'[k] = "none" /\ jobs'[k].status \in {"queued", "cancelled"}
      BY <1>5 DEF PendingIsAccountedFor, SchedulerRowsStayQueued
    <2>1. CASE k = n
      <3>1. thread[n] = "none" /\ n \in JobIds
        BY <1>3, <1>4, <1>5 DEF JobIds
      <3> QED BY <1>1, <1>2, <1>3, <1>5, <2>1, <3>1
    <2>2. CASE k \in DOMAIN jobs
      <3>1. jobs'[k] = jobs[k] /\ thread'[k] = thread[k]
        BY <1>3, <1>5, <1>9, <2>2
      <3> QED BY <2>2, <3>1 DEF PendingIsAccountedFor, SchedulerRowsStayQueued
    <2> QED BY <2>1, <2>2
  <1> QED BY <1>5, <1>6, <1>7, <1>8, <1>10

\* What a row holds.
LEMMA RowOf ==
    ASSUME RowsInv, NEW j \in DOMAIN jobs
    PROVE  jobs[j] \in Rows /\ jobs[j].task \in Tasks /\ jobs[j].status \in Statuses
                           /\ jobs[j].by \in {"ui", "retry", "scheduler"}
  <1>1. jobs[j] \in Rows
    BY DEF RowsInv
  <1> QED BY <1>1 DEF Rows

-----------------------------------------------------------------------------
(* The actions.                                                            *)

\* The API starts a job with a thread of its own.
LEMMA EnqueueKeeps ==
    ASSUME JobsInv, NEW p \in Processes, NEW t \in Tasks, NEW by \in {"ui", "retry"}, EnqueueJob(p, t, by)
    PROVE  JobsInv'
  <1> USE DEF JobsInv, RowsInv
  <1>1. Len(jobs) + 1 \in JobIds
    BY JobsAssumption DEF EnqueueJob, NewJob, JobIds
  <1>2. /\ NewJob(t, by) /\ UNCHANGED <<cancels, table, tick, lost, faults>>
        /\ thread' = [thread EXCEPT ![Len(jobs) + 1] = "ready"]
        /\ home' = [home EXCEPT ![Len(jobs) + 1] = p]
    BY DEF EnqueueJob
  <1>3. /\ thread' \in [JobIds -> {"none", "ready", "script"}] /\ home' \in [JobIds -> Processes \cup {None}]
        /\ \A k \in JobIds : k # Len(jobs) + 1 => thread'[k] = thread[k] /\ home'[k] = home[k]
        /\ thread'[Len(jobs) + 1] = "ready"
    BY <1>1, <1>2
  <1>4. tick' \in [Schedulers -> Ticks] /\ table' \in Table /\ \A s \in Schedulers : TickIsSound(tick'[s])
    BY <1>2
  <1>5. by # "scheduler"
    OBVIOUS
  <1> QED BY <1>1, <1>2, <1>3, <1>4, <1>5, JobIsAdded, ZenonT(30)

\* A cancellation reads, and writes what it has not read.
LEMMA CancelKeeps ==
    ASSUME JobsInv, NEW j \in JobIds, CancelRead(j) \/ CancelCommit(j)
    PROVE  JobsInv'
  <1>0. faults \in 0..MaxFaults /\ lost \subseteq DOMAIN jobs
    BY DEF JobsInv, RowsInv
  <1>1. CASE CancelRead(j)
    BY <1>1 DEF CancelRead, threads, JobsInv, RowsInv, TickIsSound, PendingIsAccountedFor,
        SchedulerRowsStayQueued
  <1>2. CASE CancelCommit(j)
    <2>1. /\ j \in DOMAIN jobs /\ jobs' = [jobs EXCEPT ![j].status = "cancelled"]
          /\ cancels' \subseteq DOMAIN jobs
          /\ UNCHANGED <<thread, home, table, tick, lost, faults>>
      BY <1>2 DEF CancelCommit, threads, JobsInv, RowsInv
    <2>2. PICK a \in {"none", "ready", "script"}, h \in Processes \cup {None} : a = thread[j] /\ h = home[j]
      BY DEF JobsInv, RowsInv
    <2>3. thread' = [thread EXCEPT ![j] = a] /\ home' = [home EXCEPT ![j] = h]
      BY <2>1, <2>2 DEF JobsInv, RowsInv
    <2>4. PICK st \in Statuses : st = "cancelled"
      BY DEF Statuses
    <2>5. /\ jobs' = [jobs EXCEPT ![j].status = st] /\ st # "running" /\ st # "queued"
          /\ lost \subseteq lost' /\ lost' \subseteq DOMAIN jobs /\ faults' \in 0..MaxFaults
      BY <1>0, <2>1, <2>4
    <2>6. jobs[j].by = "scheduler" => a = "none" /\ st = "cancelled"
      BY <2>1, <2>2, <2>4 DEF JobsInv, SchedulerRowsStayQueued
    <2> QED BY <2>1, <2>3, <2>5, <2>6, JobChanges
  <1> QED BY <1>1, <1>2

\* The thread of a job.
LEMMA ScriptKeeps ==
    ASSUME JobsInv, NEW j \in JobIds, RunScript(j)
    PROVE  JobsInv'
  <1>0. /\ faults \in 0..MaxFaults /\ lost \subseteq DOMAIN jobs /\ cancels \subseteq DOMAIN jobs
        /\ home[j] \in Processes \cup {None} /\ home \in [JobIds -> Processes \cup {None}]
    BY DEF JobsInv, RowsInv
  <1>1. j \in DOMAIN jobs /\ jobs[j].status \in Statuses /\ jobs[j].by # "scheduler"
    <2>1. thread[j] # "none"
      BY DEF RunScript, Begin, Finish, CommitError
    <2>2. j \in DOMAIN jobs
      BY <2>1 DEF JobsInv, RowsInv
    <2>3. jobs[j].by # "scheduler"
      BY <2>1, <2>2 DEF JobsInv, SchedulerRowsStayQueued
    <2> QED BY <2>2, <2>3, RowOf DEF JobsInv
  <1>2. CASE Begin(j)
    <2>1. /\ jobs' = [jobs EXCEPT ![j].status = "running"] /\ thread' = [thread EXCEPT ![j] = "script"]
          /\ UNCHANGED <<home, cancels, table, tick, lost, faults>>
      BY <1>2 DEF Begin
    <2>2. PICK h \in Processes \cup {None} : h = home[j]
      BY <1>0
    <2>3. home' = [home EXCEPT ![j] = h]
      BY <1>0, <2>1, <2>2
    <2>4. PICK st \in Statuses, a \in {"none", "ready", "script"} : st = "running" /\ a = "script"
      BY DEF Statuses
    <2>5. /\ jobs' = [jobs EXCEPT ![j].status = st] /\ thread' = [thread EXCEPT ![j] = a]
          /\ st # "queued" /\ cancels' \subseteq DOMAIN jobs
          /\ lost \subseteq lost' /\ lost' \subseteq DOMAIN jobs /\ faults' \in 0..MaxFaults
      BY <1>0, <2>1, <2>4
    <2> QED BY <1>1, <2>1, <2>3, <2>4, <2>5, JobChanges
  <1>3. CASE Finish(j)
    <2>1. PICK st \in {"completed", "failed"} : jobs' = [jobs EXCEPT ![j].status = st]
      BY <1>3 DEF Finish
    <2>2. /\ thread' = [thread EXCEPT ![j] = "none"] /\ home' = [home EXCEPT ![j] = None]
          /\ UNCHANGED <<cancels, table, tick, lost, faults>> /\ st \in Statuses
      BY <1>3 DEF Finish, EndThread, Statuses
    <2> QED BY <1>0, <1>1, <2>1, <2>2, JobChanges
  <1>4. CASE CommitError(j)
    <2>1. PICK st \in {jobs[j].status, "failed"} \cup
                      (IF thread[j] = "ready" THEN {"running"} ELSE {"completed"}) :
                 jobs' = [jobs EXCEPT ![j].status = st]
      BY <1>4 DEF CommitError
    <2>2. /\ thread' = [thread EXCEPT ![j] = "none"] /\ home' = [home EXCEPT ![j] = None]
          /\ UNCHANGED <<cancels, table, tick>> /\ lost' = lost \cup {j}
          /\ faults' = faults + 1 /\ faults < MaxFaults
      BY <1>4 DEF CommitError, EndThread
    <2>3. st \in Statuses /\ faults' \in 0..MaxFaults
      BY <1>0, <1>1, <2>1, <2>2, JobsAssumption DEF Statuses
    <2> QED BY <1>0, <1>1, <2>1, <2>2, <2>3, JobChanges
  <1> QED BY <1>2, <1>3, <1>4 DEF RunScript

\* A process takes its threads with it.
LEMMA DeathKeeps ==
    ASSUME JobsInv, NEW p \in Processes, ProcessDies(p)
    PROVE  JobsInv'
  <1> USE DEF JobsInv, RowsInv
  <1>1. PICK dead \in SUBSET JobIds : dead = {j \in JobIds : home[j] = p}
    OBVIOUS
  <1>2. /\ thread' = [j \in JobIds |-> IF j \in dead THEN "none" ELSE thread[j]]
        /\ home'   = [j \in JobIds |-> IF j \in dead THEN None ELSE home[j]]
        /\ lost'   = lost \cup dead
        /\ UNCHANGED <<jobs, cancels, table, tick>>
        /\ faults < MaxFaults /\ faults' = faults + 1
    BY <1>1 DEF ProcessDies
  <1>3. dead \subseteq DOMAIN jobs
    BY <1>1, JobsAssumption
  <1>4. faults' \in 0..MaxFaults
    BY <1>2, JobsAssumption
  <1>5. /\ thread' \in [JobIds -> {"none", "ready", "script"}] /\ home' \in [JobIds -> Processes \cup {None}]
        /\ \A j \in JobIds : IF j \in dead THEN thread'[j] = "none" /\ home'[j] = None
                             ELSE thread'[j] = thread[j] /\ home'[j] = home[j]
    BY <1>2
  <1>6. DOMAIN jobs \subseteq JobIds
    BY JobsAssumption DEF JobIds
  <1>7. PendingIsAccountedFor' /\ SchedulerRowsStayQueued'
    BY <1>2, <1>5, <1>6 DEF PendingIsAccountedFor, SchedulerRowsStayQueued
  <1>8. \A s \in Schedulers : TickIsSound(tick[s])'
    BY <1>2 DEF TickIsSound
  <1> QED BY <1>2, <1>3, <1>4, <1>5, <1>7, <1>8

\* The routes and the time only change the table of the schedules.
LEMMA ScheduleKeeps ==
    ASSUME JobsInv, NEW c \in Schedules,
           \/ \E active, valid \in BOOLEAN : CreateSchedule(c, active, valid) \/ UpdateSchedule(c, active, valid)
           \/ DeleteSchedule(c) \/ BecomeDue(c)
    PROVE  JobsInv'
  <1> USE DEF JobsInv, RowsInv
  <1>1. UNCHANGED <<jobs, thread, home, cancels, tick, lost>>
    BY DEF CreateSchedule, UpdateSchedule, DeleteSchedule, BecomeDue, threads
  <1>2. faults' \in 0..MaxFaults
    <2>1. faults' = faults \/ (faults < MaxFaults /\ faults' = faults + 1)
      BY DEF CreateSchedule, UpdateSchedule, DeleteSchedule, BecomeDue
    <2> QED BY <2>1, JobsAssumption
  <1>3. table' \in Table
    <2>1. PICK row \in Sched : row = table[c]
      BY DEF Table
    <2>2. PICK new \in Sched : table' = [table EXCEPT ![c] = new]
      <3>1. ASSUME NEW active \in BOOLEAN, NEW valid \in BOOLEAN, CreateSchedule(c, active, valid)
            PROVE  \E new \in Sched : table' = [table EXCEPT ![c] = new]
        BY <3>1 DEF CreateSchedule, Sched
      <3>2. ASSUME NEW active \in BOOLEAN, NEW valid \in BOOLEAN, UpdateSchedule(c, active, valid)
            PROVE  \E new \in Sched : table' = [table EXCEPT ![c] = new]
        <4>1. PICK new : new = [row EXCEPT !.active = active, !.valid = valid]
          OBVIOUS
        <4>2. new \in Sched /\ table' = [table EXCEPT ![c] = new]
          BY <2>1, <3>2, <4>1 DEF UpdateSchedule, Table, Sched
        <4> QED BY <4>2
      <3>3. CASE BecomeDue(c)
        <4>1. table' = [table EXCEPT ![c] = [row EXCEPT !.due = TRUE]]
          BY <2>1, <3>3 DEF BecomeDue, Table
        <4> QED BY <4>1 DEF Sched
      <3>4. CASE DeleteSchedule(c)
        BY <3>4 DEF DeleteSchedule, NoSchedule, Sched
      <3> QED BY <3>1, <3>2, <3>3, <3>4
    <2> QED BY <2>2 DEF Table
  <1> QED BY <1>1, <1>2, <1>3 DEF TickIsSound, PendingIsAccountedFor, SchedulerRowsStayQueued

\* What the tick goes on with.
LEMMA ProceedMoves ==
    ASSUME NEW s \in Schedulers, NEW todo \in SUBSET Schedules, Proceed(s, todo)
    PROVE  \E new \in Ticks : tick' = [tick EXCEPT ![s] = new] /\ new.pc \in {"idle", "serve"}
  <1>1. PICK new : new = IF todo = {} THEN Idle
                         ELSE [Idle EXCEPT !.pc = "serve", !.todo = todo, !.expired = TRUE]
    OBVIOUS
  <1>2. new \in Ticks /\ new.pc \in {"idle", "serve"}
    BY <1>1 DEF Idle, Ticks
  <1>3. tick' = [tick EXCEPT ![s] = new]
    BY <1>1, Zenon DEF Proceed
  <1> QED BY <1>2, <1>3

\* The steps of a tick.
LEMMA TickKeeps ==
    ASSUME JobsInv, NEW s \in Schedulers, Tick(s)
    PROVE  JobsInv'
  <1> USE DEF JobsInv, RowsInv
  <1>0. tick[s] \in Ticks /\ TickIsSound(tick[s])
    OBVIOUS
  <1>1. CASE TickBegin(s)
    <2>1. PICK new : new = [Idle EXCEPT !.pc = "serve", !.todo = Due,
                                       !.bad = {c \in Due : ~table[c].valid}]
      OBVIOUS
    <2>2. new \in Ticks /\ new.pc = "serve"
      BY <2>1 DEF Idle, Ticks, Due
    <2>3. /\ tick' = [tick EXCEPT ![s] = new] /\ tick[s].pc = "idle"
          /\ UNCHANGED <<jobs, threads, cancels, table, lost, faults>>
      BY <1>1, <2>1 DEF TickBegin
    <2>4. TickIsSound(new)
      BY <2>2 DEF TickIsSound
    <2> QED BY <2>2, <2>3, <2>4, TickMoves
  <1>2. ASSUME NEW c \in Schedules, Skip(s, c)
        PROVE  JobsInv'
    <2>1. PICK new \in Ticks : tick' = [tick EXCEPT ![s] = new] /\ new.pc \in {"idle", "serve"}
      <3>1. tick[s].todo \ {c} \in SUBSET Schedules
        BY <1>0 DEF Ticks
      <3> QED BY <1>2, <3>1, ProceedMoves DEF Skip
    <2>2. table' \in Table
      BY <1>2 DEF Skip, Served, Table, Sched
    <2>3. tick[s].pc = "serve" /\ UNCHANGED <<jobs, threads, cancels, lost, faults>>
      BY <1>2 DEF Skip
    <2>4. TickIsSound(new)
      BY <2>1 DEF TickIsSound
    <2> QED BY <2>1, <2>2, <2>3, <2>4, TickMoves
  <1>3. ASSUME NEW c \in Schedules, Choose(s, c)
        PROVE  JobsInv'
    <2>1. PICK m1, m2, new : /\ m1 = [tick[s] EXCEPT !.pc = "insert"] /\ m2 = [m1 EXCEPT !.at = c]
                             /\ new = [m2 EXCEPT !.todo = tick[s].todo \ {c}]
      OBVIOUS
    <2>2. m1 \in Ticks /\ m2 \in Ticks /\ new \in Ticks /\ new.pc = "insert" /\ new.at = c
      BY <1>0, <2>1 DEF Ticks
    <2>3. /\ tick' = [tick EXCEPT ![s].pc = "insert", ![s].at = c, ![s].todo = @ \ {c}]
          /\ tick[s].pc = "serve" /\ UNCHANGED <<jobs, threads, cancels, table, lost, faults>>
      BY <1>3 DEF Choose
    <2>4. tick' = [tick EXCEPT ![s] = new]
      BY <1>0, <2>1, <2>2, <2>3 DEF Ticks
    <2>5. TickIsSound(new)
      BY <2>2 DEF TickIsSound
    <2> QED BY <2>2, <2>3, <2>4, <2>5, TickMoves
  <1>4. CASE Insert(s)
    <2>1. tick[s].at \in Schedules /\ TaskOf[tick[s].at] \in Tasks
      BY <1>0, <1>4, JobsAssumption DEF Insert, TickIsSound
    <2>3. PICK new : new = [tick[s] EXCEPT !.pc = "push"]
      OBVIOUS
    <2>4. new \in Ticks /\ new.pc = "push" /\ new.at = tick[s].at
      BY <1>0, <2>3 DEF Ticks
    <2>5. /\ tick' = [tick EXCEPT ![s].pc = "push"]
          /\ NewJob(TaskOf[tick[s].at], "scheduler") /\ table' \in Table
          /\ UNCHANGED <<threads, cancels, lost, faults>>
      BY <1>4 DEF Insert, Served, Table, Sched
    <2>6. tick' = [tick EXCEPT ![s] = new]
      BY <2>3, <2>5
    <2>7. tick' \in [Schedulers -> Ticks] /\ \A x \in Schedulers : TickIsSound(tick'[x])
      BY <2>1, <2>4, <2>6 DEF TickIsSound
    <2>8. /\ thread' \in [JobIds -> {"none", "ready", "script"}] /\ home' \in [JobIds -> Processes \cup {None}]
          /\ \A k \in JobIds : k # Len(jobs) + 1 => thread'[k] = thread[k] /\ home'[k] = home[k]
          /\ UNCHANGED <<thread, cancels, lost, faults>>
      BY <2>5 DEF threads
    <2>9. PICK by \in {"ui", "retry", "scheduler"} : by = "scheduler"
      OBVIOUS
    <2> QED BY <2>1, <2>5, <2>7, <2>8, <2>9, JobIsAdded
  <1>5. CASE Push(s)
    <2>1. PICK new \in Ticks : tick' = [tick EXCEPT ![s] = new] /\ new.pc \in {"idle", "serve"}
      <3>1. tick[s].todo \in SUBSET Schedules
        BY <1>0 DEF Ticks
      <3> QED BY <1>5, <3>1, ProceedMoves DEF Push
    <2>2. UNCHANGED <<jobs, threads, cancels, table, lost, faults>>
      BY <1>5 DEF Push
    <2>3. TickIsSound(new)
      BY <2>1 DEF TickIsSound
    <2> QED BY <2>1, <2>2, <2>3, TickMoves
  <1>6. CASE PushRefused(s) \/ CronRaises(s) \/ RowGone(s) \/ TickFails(s)
    <2>1. Idle \in Ticks /\ TickIsSound(Idle)
      BY DEF Idle, Ticks, TickIsSound
    <2>2. /\ tick' = [tick EXCEPT ![s] = Idle]
          /\ UNCHANGED <<jobs, threads, cancels, table, lost>>
      BY <1>6 DEF PushRefused, CronRaises, RowGone, TickFails
    <2>3. faults' \in 0..MaxFaults
      BY <1>6, JobsAssumption DEF PushRefused, CronRaises, RowGone, TickFails
    <2> QED BY <2>1, <2>2, <2>3, TickMoves
  <1> QED BY <1>1, <1>2, <1>3, <1>4, <1>5, <1>6 DEF Tick

\* Every step keeps what is true of the rows.
LEMMA JobsStep == JobsInv /\ [Next]_vars => JobsInv'
  <1> SUFFICES ASSUME JobsInv, [Next]_vars PROVE JobsInv'
    OBVIOUS
  <1>1. ASSUME NEW p \in Processes, NEW t \in Tasks, RunTask(p, t)
        PROVE  JobsInv'
    BY <1>1, EnqueueKeeps DEF RunTask
  <1>2. ASSUME NEW p \in Processes, NEW j \in JobIds, RetryJob(p, j)
        PROVE  JobsInv'
    <2>1. jobs[j].task \in Tasks /\ EnqueueJob(p, jobs[j].task, "retry")
      BY <1>2, RowOf DEF RetryJob, JobsInv
    <2> QED BY <2>1, EnqueueKeeps
  <1>3. CASE UNCHANGED vars
    BY <1>3 DEF vars, threads, JobsInv, RowsInv, TickIsSound, PendingIsAccountedFor, SchedulerRowsStayQueued
  <1> QED BY <1>1, <1>2, <1>3, CancelKeeps, ScriptKeeps, DeathKeeps, ScheduleKeeps, TickKeeps DEF Next

\* A queued or running row of the API is never left over by a race: a thread is
\* going to run it or runs it, or it was lost by a failure.  A scheduler's row is
\* run by nobody: it stays queued until it is cancelled.
THEOREM RowsAreAlwaysAccountedFor == Spec => []RowsAreAccountedFor
  <1>1. JobsInv => RowsAreAccountedFor
    <2> SUFFICES ASSUME JobsInv PROVE TypeOK
      BY DEF JobsInv, RowsAreAccountedFor
    <2>1. \A j \in DOMAIN jobs : /\ jobs[j].task \in Tasks /\ jobs[j].status \in Statuses
                                 /\ jobs[j].by \in {"ui", "retry", "scheduler"}
      BY RowOf DEF JobsInv
    <2>2. \A s \in Schedulers : /\ tick[s].pc \in {"idle", "serve", "insert", "push"}
                                /\ tick[s].todo \subseteq Schedules
      BY DEF JobsInv, RowsInv, Ticks
    <2> QED BY <2>1, <2>2 DEF JobsInv, RowsInv, TypeOK, Table, Sched
  <1> QED BY <1>1, JobsInit, JobsStep, PTL DEF Spec

-----------------------------------------------------------------------------
(* A single scheduler.                                                     *)

Pending(j) == jobs[j].status \in {"queued", "running"}

\* A task has one pending job of a scheduler at most, and the one that the
\* scheduler s is about to insert a job for has none.
PileInv(s) ==
    /\ \A i, j \in DOMAIN jobs :
          /\ jobs[i].by = "scheduler" /\ jobs[j].by = "scheduler"
          /\ Pending(i) /\ Pending(j) /\ jobs[i].task = jobs[j].task
          => i = j
    /\ tick[s].pc = "insert" =>
          \A j \in DOMAIN jobs :
             jobs[j].by = "scheduler" /\ jobs[j].task = TaskOf[tick[s].at] => ~Pending(j)

\* The rows of schedulers that are pending afterwards were so before.
LEMMA NoPileGrows ==
    ASSUME JobsInv, NEW s, PileInv(s), jobs' \in Seq(Rows), DOMAIN jobs \subseteq DOMAIN jobs',
           \A j \in DOMAIN jobs' : jobs'[j].by = "scheduler" /\ Pending(j)' =>
              j \in DOMAIN jobs /\ jobs[j].by = "scheduler" /\ Pending(j) /\ jobs'[j].task = jobs[j].task,
           tick'[s].pc = "insert" =>
              \/ tick[s].pc = "insert" /\ tick'[s].at = tick[s].at
              \/ \A j \in DOMAIN jobs : jobs[j].task = TaskOf[tick'[s].at] => ~Pending(j)
    PROVE  PileInv(s)'
  <1>1. ASSUME NEW i \in DOMAIN jobs', NEW j \in DOMAIN jobs',
               jobs'[i].by = "scheduler", jobs'[j].by = "scheduler",
               Pending(i)', Pending(j)', jobs'[i].task = jobs'[j].task
        PROVE  i = j
    BY <1>1, Zenon DEF PileInv
  <1>2. ASSUME tick'[s].pc = "insert", NEW j \in DOMAIN jobs',
               jobs'[j].by = "scheduler", jobs'[j].task = TaskOf[tick'[s].at], Pending(j)'
        PROVE  FALSE
    BY <1>2, Zenon DEF PileInv
  <1> QED BY <1>1, <1>2, Zenon DEF PileInv

\* A job changes its status: one that has a thread, or one that is cancelled.
LEMMA PileWhenAJobChanges ==
    ASSUME JobsInv, NEW s, PileInv(s), NEW j \in DOMAIN jobs, NEW st \in Statuses,
           jobs' = [jobs EXCEPT ![j].status = st],
           jobs[j].by # "scheduler" \/ st = "cancelled",
           UNCHANGED tick
    PROVE  PileInv(s)'
  <1>1. /\ jobs' \in Seq(Rows) /\ DOMAIN jobs' = DOMAIN jobs
        /\ \A k \in DOMAIN jobs : /\ jobs'[k].task = jobs[k].task /\ jobs'[k].by = jobs[k].by
                                  /\ jobs'[k].status = IF k = j THEN st ELSE jobs[k].status
    BY StatusChanges DEF JobsInv, RowsInv
  <1>2. \A k \in DOMAIN jobs' : jobs'[k].by = "scheduler" /\ Pending(k)' =>
              k \in DOMAIN jobs /\ jobs[k].by = "scheduler" /\ Pending(k) /\ jobs'[k].task = jobs[k].task
    BY <1>1 DEF Pending
  <1> QED BY <1>1, <1>2, NoPileGrows

\* The rows stay as they are.
LEMMA PileWhenNoJobChanges ==
    ASSUME JobsInv, NEW s, PileInv(s), UNCHANGED jobs,
           tick'[s].pc = "insert" =>
              \/ tick[s].pc = "insert" /\ tick'[s].at = tick[s].at
              \/ \A j \in DOMAIN jobs : jobs[j].task = TaskOf[tick'[s].at] => ~Pending(j)
    PROVE  PileInv(s)'
  <1>1. jobs' \in Seq(Rows)
    BY DEF JobsInv, RowsInv
  <1>2. \A k \in DOMAIN jobs' : jobs'[k].by = "scheduler" /\ Pending(k)' =>
              k \in DOMAIN jobs /\ jobs[k].by = "scheduler" /\ Pending(k) /\ jobs'[k].task = jobs[k].task
    BY DEF Pending
  <1> QED BY <1>1, <1>2, NoPileGrows

\* The API adds a job with a thread.
LEMMA PileWhenEnqueued ==
    ASSUME JobsInv, NEW s, PileInv(s), NEW p \in Processes, NEW t \in Tasks, NEW by \in {"ui", "retry"},
           EnqueueJob(p, t, by)
    PROVE  PileInv(s)'
  <1>0. PICK n \in Nat : n = Len(jobs) + 1
    BY DEF JobsInv, RowsInv
  <1>1. PICK row : row = [task |-> t, status |-> "queued", by |-> by]
    OBVIOUS
  <1>2. row \in Rows /\ row.by # "scheduler"
    BY <1>1 DEF Rows, Statuses
  <1>3. jobs' = Append(jobs, row) /\ UNCHANGED tick
    BY <1>0, <1>1 DEF EnqueueJob, NewJob
  <1>4. /\ jobs' \in Seq(Rows) /\ DOMAIN jobs' = DOMAIN jobs \cup {n} /\ jobs'[n] = row
        /\ \A k \in DOMAIN jobs : jobs'[k] = jobs[k]
    BY <1>0, <1>1, <1>2, <1>3, RowIsAdded DEF JobsInv, RowsInv
  <1>5. \A k \in DOMAIN jobs' : jobs'[k].by = "scheduler" /\ Pending(k)' =>
              k \in DOMAIN jobs /\ jobs[k].by = "scheduler" /\ Pending(k) /\ jobs'[k].task = jobs[k].task
    BY <1>2, <1>4 DEF Pending
  <1>6. DOMAIN jobs \subseteq DOMAIN jobs'
    BY <1>4
  <1> QED BY <1>3, <1>4, <1>5, <1>6, NoPileGrows

\* The scheduler adds a job: none of its own is pending for the task.
LEMMA PileWhenInserted ==
    ASSUME JobsInv, NEW s \in Schedulers, PileInv(s), Insert(s)
    PROVE  PileInv(s)'
  <1>0. PICK n \in Nat : n = Len(jobs) + 1
    BY DEF JobsInv, RowsInv
  <1>1. PICK row : row = [task |-> TaskOf[tick[s].at], status |-> "queued", by |-> "scheduler"]
    OBVIOUS
  <1>2. row \in Rows /\ row.task = TaskOf[tick[s].at] /\ tick[s].pc = "insert"
    <2>1. tick[s].at \in Schedules /\ tick[s].pc = "insert"
      BY DEF Insert, JobsInv, RowsInv, TickIsSound
    <2> QED BY <1>1, <2>1, JobsAssumption DEF Rows, Statuses
  <1>3. jobs' = Append(jobs, row) /\ tick' = [tick EXCEPT ![s].pc = "push"]
    BY <1>1 DEF Insert, NewJob
  <1>4. /\ jobs' \in Seq(Rows) /\ DOMAIN jobs' = DOMAIN jobs \cup {n} /\ jobs'[n] = row
        /\ \A k \in DOMAIN jobs : jobs'[k] = jobs[k]
    BY <1>0, <1>1, <1>2, <1>3, RowIsAdded DEF JobsInv, RowsInv
  <1>5. tick'[s].pc # "insert"
    BY <1>3 DEF JobsInv, RowsInv, Ticks
  <1>7. \A k \in DOMAIN jobs : jobs[k].by = "scheduler" /\ jobs[k].task = row.task => ~Pending(k)
    BY <1>2 DEF PileInv
  <1>8. \A k \in DOMAIN jobs : Pending(k)' = Pending(k)
    BY <1>4 DEF Pending
  <1>9. ASSUME NEW i \in DOMAIN jobs', NEW j \in DOMAIN jobs',
               jobs'[i].by = "scheduler", jobs'[j].by = "scheduler",
               Pending(i)', Pending(j)', jobs'[i].task = jobs'[j].task
        PROVE  i = j
    <2>1. CASE i \in DOMAIN jobs /\ j \in DOMAIN jobs
      BY <1>4, <1>8, <1>9, <2>1 DEF PileInv
    <2>2. CASE i = n \/ j = n
      BY <1>4, <1>7, <1>8, <1>9, <2>2
    <2> QED BY <1>4, <2>1, <2>2
  <1> QED BY <1>5, <1>9, Zenon DEF PileInv

\* Every step keeps the scheduler from piling up jobs.
LEMMA PileStep ==
    ASSUME NEW s, Schedulers = {s}
    PROVE  JobsInv /\ PileInv(s) /\ [Next]_vars => PileInv(s)'
  <1> SUFFICES ASSUME JobsInv, PileInv(s), [Next]_vars PROVE PileInv(s)'
    OBVIOUS
  <1>0. s \in Schedulers /\ thread \in [JobIds -> {"none", "ready", "script"}]
        /\ tick \in [Schedulers -> Ticks] /\ cancels \subseteq DOMAIN jobs
    BY DEF JobsInv, RowsInv
  <1>1. ASSUME NEW p \in Processes, NEW t \in Tasks, RunTask(p, t)
        PROVE  PileInv(s)'
    <2>1. PICK by \in {"ui", "retry"} : by = "ui"
      OBVIOUS
    <2> QED BY <1>1, <2>1, PileWhenEnqueued, Zenon DEF RunTask
  <1>2. ASSUME NEW p \in Processes, NEW j \in JobIds, RetryJob(p, j)
        PROVE  PileInv(s)'
    <2>1. jobs[j].task \in Tasks /\ EnqueueJob(p, jobs[j].task, "retry")
      BY <1>2, RowOf DEF RetryJob, JobsInv
    <2>2. PICK by \in {"ui", "retry"} : by = "retry"
      OBVIOUS
    <2> QED BY <2>1, <2>2, PileWhenEnqueued, Zenon
  <1>3. ASSUME NEW j \in JobIds, CancelRead(j)
        PROVE  PileInv(s)'
    BY <1>3, PileWhenNoJobChanges DEF CancelRead, threads
  <1>4. ASSUME NEW j \in JobIds, CancelCommit(j)
        PROVE  PileInv(s)'
    <2>1. PICK st \in Statuses : st = "cancelled"
      BY DEF Statuses
    <2>2. /\ j \in DOMAIN jobs /\ jobs' = [jobs EXCEPT ![j].status = st] /\ UNCHANGED <<thread, tick>>
      BY <1>0, <1>4, <2>1 DEF CancelCommit, threads
    <2> QED BY <2>1, <2>2, PileWhenAJobChanges
  <1>5. ASSUME NEW j \in JobIds, RunScript(j)
        PROVE  PileInv(s)'
    <2>1. thread[j] # "none"
      BY <1>5 DEF RunScript, Begin, Finish, CommitError
    <2>2. j \in DOMAIN jobs /\ jobs[j].by # "scheduler"
      BY <2>1 DEF JobsInv, RowsInv, SchedulerRowsStayQueued
    <2>3. jobs[j].status \in Statuses
      BY <2>2, RowOf DEF JobsInv
    <2>4. PICK st \in Statuses : jobs' = [jobs EXCEPT ![j].status = st]
      <3>1. CASE Begin(j)
        BY <3>1 DEF Begin, Statuses
      <3>2. CASE Finish(j)
        BY <3>2 DEF Finish, Statuses
      <3>3. CASE CommitError(j)
        BY <2>3, <3>3 DEF CommitError, Statuses
      <3> QED BY <1>5, <3>1, <3>2, <3>3 DEF RunScript
    <2>5. UNCHANGED tick
      BY <1>5 DEF RunScript, Begin, Finish, CommitError
    <2> QED BY <2>2, <2>4, <2>5, PileWhenAJobChanges
  <1>6. ASSUME NEW p \in Processes, ProcessDies(p)
        PROVE  PileInv(s)'
    <2>1. UNCHANGED <<jobs, tick>>
      BY <1>6 DEF ProcessDies
    <2> QED BY <2>1, PileWhenNoJobChanges
  <1>7. ASSUME NEW c \in Schedules,
               \/ \E active, valid \in BOOLEAN : CreateSchedule(c, active, valid) \/ UpdateSchedule(c, active, valid)
               \/ DeleteSchedule(c) \/ BecomeDue(c)
        PROVE  PileInv(s)'
    <2>1. UNCHANGED <<jobs, thread, tick>>
      BY <1>7 DEF CreateSchedule, UpdateSchedule, DeleteSchedule, BecomeDue, threads
    <2> QED BY <2>1, PileWhenNoJobChanges
  <1>8. ASSUME \/ TickBegin(s) \/ Push(s) \/ PushRefused(s) \/ CronRaises(s)
               \/ RowGone(s) \/ TickFails(s) \/ \E c \in Schedules : Skip(s, c)
        PROVE  PileInv(s)'
    <2>1. UNCHANGED jobs
      BY <1>8 DEF TickBegin, Push, PushRefused, CronRaises, RowGone, TickFails, Skip
    <2>2. tick'[s].pc # "insert"
      <3>1. CASE TickBegin(s)
        BY <1>0, <3>1 DEF TickBegin, Idle
      <3>2. CASE Push(s) \/ \E c \in Schedules : Skip(s, c)
        <4>1. PICK todo \in SUBSET Schedules : Proceed(s, todo)
          <5>1. tick[s].todo \in SUBSET Schedules /\ \A c \in Schedules : tick[s].todo \ {c} \in SUBSET Schedules
            BY <1>0 DEF Ticks
          <5> QED BY <3>2, <5>1 DEF Push, Skip
        <4> QED BY <1>0, <4>1, ProceedMoves
      <3>3. CASE PushRefused(s) \/ CronRaises(s) \/ RowGone(s) \/ TickFails(s)
        BY <1>0, <3>3 DEF PushRefused, CronRaises, RowGone, TickFails, Idle
      <3> QED BY <1>8, <3>1, <3>2, <3>3
    <2> QED BY <2>1, <2>2, PileWhenNoJobChanges
  <1>9. ASSUME NEW c \in Schedules, Choose(s, c)
        PROVE  PileInv(s)'
    <2>1. UNCHANGED <<jobs, thread>> /\ ~HasPendingJob(TaskOf[c])
      BY <1>9 DEF Choose, threads
    <2>2. tick'[s].at = c
      <3>1. tick' = [tick EXCEPT ![s].pc = "insert", ![s].at = c, ![s].todo = @ \ {c}]
        BY <1>9 DEF Choose
      <3> QED BY <1>0, <3>1 DEF Ticks
    <2>3. \A j \in DOMAIN jobs : jobs[j].task = TaskOf[tick'[s].at] => ~Pending(j)
      BY <2>1, <2>2 DEF HasPendingJob, Pending
    <2> QED BY <2>1, <2>3, PileWhenNoJobChanges
  <1>10. CASE UNCHANGED vars
    <2>1. UNCHANGED <<jobs, thread, tick>>
      BY <1>10 DEF vars, threads
    <2> QED BY <2>1, PileWhenNoJobChanges
  <1>11. ASSUME NEW x \in Schedulers, Tick(x)
         PROVE  PileInv(s)'
    <2>1. x = s
      OBVIOUS
    <2> QED BY <1>8, <1>9, <1>11, <2>1, PileWhenInserted DEF Tick
  <1> QED BY <1>1, <1>2, <1>3, <1>4, <1>5, <1>6, <1>7, <1>10, <1>11 DEF Next

\* Where one CronScheduler runs, it never has two jobs of its own pending for one
\* task, whatever happens to a job between its test and its insert.
THEOREM OneSchedulerDoesNotPileUp ==
    ASSUME NEW s, Schedulers = {s}
    PROVE  Spec => []SchedulerDoesNotPileUp
  <1>1. Init => PileInv(s)
    BY DEF Init, Idle, PileInv
  <1>2. JobsInv /\ PileInv(s) /\ [Next]_vars => (JobsInv /\ PileInv(s))'
    BY JobsStep, PileStep
  <1>3. PileInv(s) => SchedulerDoesNotPileUp
    <2> SUFFICES ASSUME PileInv(s), NEW t \in Tasks
                 PROVE  Cardinality({j \in DOMAIN jobs : /\ jobs[j].task = t /\ jobs[j].by = "scheduler"
                                                        /\ jobs[j].status \in {"queued", "running"}}) <= 1
      BY DEF SchedulerDoesNotPileUp
    <2>1. PICK own : own = {j \in DOMAIN jobs : /\ jobs[j].task = t /\ jobs[j].by = "scheduler"
                                                /\ jobs[j].status \in {"queued", "running"}}
      OBVIOUS
    <2>2. own = {} \/ \E j : own = {j}
      BY <2>1 DEF PileInv, Pending
    <2>3. Cardinality(own) \in {0, 1}
      BY <2>2, FS_EmptySet, FS_Singleton, Zenon
    <2> QED BY <2>1, <2>3
  <1> QED BY <1>1, <1>2, <1>3, JobsInit, PTL DEF Spec
=============================================================================
