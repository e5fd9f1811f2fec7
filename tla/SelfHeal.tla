------------------------------ MODULE SelfHeal ------------------------------
(* The disk self-heal: the job self_heal_check (workers/cognitive_tasks.py)    *)
(* runs the playbook clear_disk_space through PlaybookExecutor                 *)
(* (motor/playbooks.py), whose execute step is a thread that drives            *)
(* SafeDockerCleaner (cognitive/self_heal_disk.py) over the Docker socket.     *)
(* Plans of the governance workflow run other playbooks through the same       *)
(* executor.  A timeout, the playbook's or the job's, ends the wait for a      *)
(* thread, never the thread.                                                   *)
EXTENDS Naturals, FiniteSets, Sequences

CONSTANTS HealJobs,   \* runs of self_heal_check (cron, or enqueued by an ingest)
          PlanJobs,   \* executions asked for by a plan
          Hosts,      \* rows of _query_disk_health: sequence of [code, pct]
          Images, Protected, Dangling,
          InUse,      \* images that a container uses at the start
          MaxDisturbances \* bound: Docker requests and INSERTs that fail, and changes
                          \* other people make to the Docker host, together

VARIABLES job, thread,
          docker,     \* images present, used by a container, given a second tag; the engine:
                      \* "up", "silent" (its socket is there but does not answer) or "gone"
          acts,       \* cognitive.self_heal_action of the last hour: host and job
          heals,      \* history: cleanups that began within the hour, host and job
          overlap,    \* history: pairs of heals that read the recent ones before the other wrote
          schemaReady,\* the tables and columns the job uses exist
          disturbances

healVars == <<job, thread, docker, acts, heals, overlap, schemaReady, disturbances>>

AllJobs == HealJobs \cup PlanJobs
DiskHealThreshold == 85

\* PLAYBOOKS: what the hooks of a playbook can answer.  All but clear_disk_space
\* are stubs that pass; register() may add one with hooks of any behaviour.
Stubs == {"restart_container", "restart_llm_engine", "alert_escalate",
          "rotate_certificate", "rebalance_gpu_load"}
Registered == Stubs \cup {"clear_disk_space", "custom"}
Hook(pb) == IF pb = "custom" THEN {"passed", "failed", "raises", "times out"} ELSE {"passed"}

NewJob == [pc |-> "new", i |-> 1, recent |-> {}, playbook |-> "", executed |-> FALSE,
           rolledback |-> FALSE, result |-> "none"]
NoThread == [at |-> "none", ids |-> {}, todo |-> {}, errors |-> FALSE]

Init == /\ job = [j \in AllJobs |-> NewJob]
        /\ thread = [j \in AllJobs |-> NoThread]
        /\ docker = [present |-> Images, used |-> InUse, retagged |-> {}, engine |-> "up"]
        /\ acts = {} /\ heals = {} /\ overlap = {}
        /\ schemaReady \in BOOLEAN
        /\ disturbances = 0

Disturbed == disturbances < MaxDisturbances /\ disturbances' = disturbances + 1
Quiet == UNCHANGED disturbances
Goto(j, pc) == job' = [job EXCEPT ![j].pc = pc]
Outside == UNCHANGED <<thread, docker, heals, overlap, schemaReady>>

-----------------------------------------------------------------------------
(* self_heal_check.                                                          *)
Host(j) == Hosts[job[j].i]
InLoop(j) == job[j].pc = "loop" /\ job[j].i \in DOMAIN Hosts
NextHost(j) == [job EXCEPT ![j].pc = "loop", ![j].i = @ + 1]

\* _query_disk_health: hosts over the threshold and hosts healed in the last hour.
\* Without the table self_heal_action the SELECT raises.
query(j) ==
    /\ j \in HealJobs /\ job[j].pc = "new"
    /\ job' = [job EXCEPT ![j].pc = IF schemaReady THEN "loop" ELSE "failed",
                          ![j].recent = {a.host : a \in acts}]
    /\ overlap' = overlap \cup {{j, k} : k \in {x \in HealJobs \ {j} :
                                     job[x].pc \notin {"new", "done", "failed", "cancelled"}}}
    /\ Quiet /\ UNCHANGED <<thread, docker, acts, heals, schemaReady>>

skip_host(j) ==
    /\ InLoop(j)
    /\ Host(j).pct < DiskHealThreshold \/ Host(j).code \in job[j].recent
    /\ job' = NextHost(j)
    /\ Quiet /\ Outside /\ UNCHANGED acts

Candidate(j) == /\ InLoop(j) /\ Host(j).pct >= DiskHealThreshold
                /\ Host(j).code \notin job[j].recent

\* The row a job INSERTs of its heal.
Action(j) == [host |-> Host(j).code, by |-> j]

\* Only the orchestrator has a local Docker socket; others get an insight.
Reported(j) == Candidate(j) /\ (Host(j).code # "orchestrator" \/ docker.engine = "gone")
report_host(j) ==
    /\ Reported(j)
    /\ job' = NextHost(j)
    /\ Quiet /\ Outside /\ UNCHANGED acts

start_heal(j) ==
    /\ Candidate(j) /\ ~Reported(j)
    /\ job' = [job EXCEPT ![j].pc = "pre", ![j].playbook = "clear_disk_space"]
    /\ Quiet /\ Outside /\ UNCHANGED acts

\* The task wrapper: an INSERT that raises ends the job (ARQ may try it again, as
\* another job), and the heal before it leaves no record.
JobFails(j) == /\ job[j].pc \in {"insight", "action"} \/ Reported(j)
               /\ Disturbed /\ Goto(j, "failed")
               /\ Outside /\ UNCHANGED acts

\* A plan's action; a playbook that is not registered ends at once.
start_plan(j, pb) ==
    /\ j \in PlanJobs /\ job[j].pc = "new"
    /\ job' = [job EXCEPT ![j].playbook = pb,
                          ![j].pc = IF pb \in Registered THEN "pre" ELSE "done",
                          ![j].result = IF pb \in Registered THEN "none" ELSE "error"]
    /\ Quiet /\ Outside /\ UNCHANGED acts

\* _persist_disk_insight and _persist_self_heal_action, two transactions.  No job
\* reads the insights: they are left out, but not their INSERT.
persist_insight(j) ==
    /\ job[j].pc = "insight"
    /\ Goto(j, "action")
    /\ Quiet /\ Outside /\ UNCHANGED acts

persist_action(j) ==
    /\ job[j].pc = "action"
    /\ acts' = acts \cup {Action(j)}
    /\ job' = NextHost(j)
    /\ Quiet /\ Outside

\* ARQ's job_timeout cancels the job at an await.  CancelledError is caught
\* nowhere: there is no rollback and no result.  The thread of an INSERT, like
\* the cleaner's, goes on and may still commit (kept).
job_timeout(j, kept) ==
    /\ j \in HealJobs
    /\ job[j].pc \in {"pre", "wait", "post", "rollback", "insight", "action"} \/ Reported(j)
    /\ Goto(j, "cancelled")
    /\ acts' = IF kept /\ job[j].pc = "action" THEN acts \cup {Action(j)} ELSE acts
    /\ Quiet /\ Outside

finish(j) ==
    /\ job[j].pc = "loop" /\ ~InLoop(j)
    /\ Goto(j, "done")
    /\ Quiet /\ Outside /\ UNCHANGED acts

-----------------------------------------------------------------------------
(* PlaybookExecutor.execute.                                                 *)
\* The executor returns: a heal goes on to its INSERTs, but for "skipped".
Return(j, r) ==
    job' = [job EXCEPT ![j].result = r,
                       ![j].i = IF r = "skipped" THEN @ + 1 ELSE @,
                       ![j].pc = IF j \in PlanJobs THEN "done"
                                 ELSE IF r = "skipped" THEN "loop" ELSE "insight"]

\* Images the cleaner would remove: no container names them, tagged, not protected.
Removable(images, ids) ==
    {m \in images : m \notin ids /\ m \notin Dangling
                    /\ m \notin Protected /\ m \notin docker.retagged}
\* pre_check: anything but "passed" ends the run without a rollback.  Sizes are left
\* out: build cache and images, if the engine tells of them (a request that fails
\* counts as nothing found), may or may not come to _MINIMUM_RECLAIMABLE_MB.
pre_check(j, a) ==
    /\ job[j].pc = "pre"
    /\ a \in IF job[j].playbook = "clear_disk_space"
             THEN IF docker.engine = "gone" THEN {"failed"}
                  ELSE {"skipped", "times out"} \cup (IF docker.engine = "up" THEN {"passed"} ELSE {})
             ELSE Hook(job[j].playbook)
    /\ IF a = "passed" THEN Goto(j, "exec")
       ELSE Return(j, IF a = "skipped" THEN "skipped" ELSE "error")
    /\ Quiet /\ Outside /\ UNCHANGED acts

\* execute: the cleaner's thread is started, or a coroutine hook runs.
execute_clear(j) ==
    /\ job[j].pc = "exec" /\ job[j].playbook = "clear_disk_space"
    /\ job' = [job EXCEPT ![j].pc = "wait", ![j].executed = TRUE]
    /\ thread' = [thread EXCEPT ![j].at = "cache"]
    /\ heals' = IF j \in HealJobs THEN heals \cup {Action(j)} ELSE heals
    /\ Quiet /\ UNCHANGED <<docker, acts, overlap, schemaReady>>
execute_hook(j, a) ==
    /\ job[j].pc = "exec" /\ job[j].playbook # "clear_disk_space"
    /\ a \in Hook(job[j].playbook)
    /\ job' = [job EXCEPT ![j].pc = IF a \in {"raises", "times out"} THEN "rollback" ELSE "post",
                          ![j].executed = TRUE]
    /\ Quiet /\ Outside /\ UNCHANGED acts

execute_done(j) ==
    /\ job[j].pc = "wait" /\ thread[j].at = "done"
    /\ Goto(j, "post")
    /\ Quiet /\ Outside /\ UNCHANGED acts

\* Mutant: the timeout is taken for the end of the step.
execute_timeout_GoesOn(j) ==
    /\ job[j].pc = "wait" /\ thread[j].at # "done"
    /\ Goto(j, "post")
    /\ Quiet /\ Outside /\ UNCHANGED acts
\* asyncio.timeout: the wait is over, the thread is not.
execute_timeout(j) ==
    /\ job[j].pc = "wait" /\ thread[j].at # "done"
    /\ Goto(j, "rollback")
    /\ Quiet /\ Outside /\ UNCHANGED acts

\* post_check: of clear_disk_space it passes when the socket is gone, and raises
\* or hangs when the engine fails to answer; the cleanup's own success is not looked at.
post_check(j, a) ==
    /\ job[j].pc = "post"
    /\ a \in IF job[j].playbook = "clear_disk_space" THEN IF docker.engine = "gone" THEN {"passed"}
                  ELSE {"raises", "times out"} \cup (IF docker.engine = "up" THEN {"passed"} ELSE {})
             ELSE Hook(job[j].playbook)
    /\ IF a = "passed" THEN Return(j, "success") ELSE Goto(j, "rollback")
    /\ Quiet /\ Outside /\ UNCHANGED acts

\* _do_rollback: its own failure is only reported.
rollback(j) ==
    /\ job[j].pc = "rollback"
    /\ job' = [job EXCEPT ![j].rolledback = TRUE, ![j].result = "error",
                          ![j].pc = IF j \in PlanJobs THEN "done" ELSE "insight"]
    /\ Quiet /\ Outside /\ UNCHANGED acts

-----------------------------------------------------------------------------
(* SafeDockerCleaner.execute_cleanup, in its thread.                         *)
\* A phase's exception is swallowed and listed: without errors the cleanup's
\* result is a success, with them it is one if any bytes were freed.
After(j, at, erred) == [thread[j] EXCEPT !.at = at, !.errors = @ \/ erred]
Thread(j, new) == thread' = [thread EXCEPT ![j] = new]
Inside == UNCHANGED <<job, acts, heals, overlap, schemaReady>>
\* A request is answered by an engine that is up, and may fail all the same.
Answers(ok) == /\ ok => docker.engine = "up"
               /\ IF ok \/ docker.engine # "up" THEN Quiet ELSE Disturbed

prune_build_cache(j, ok) ==
    /\ thread[j].at = "cache" /\ Answers(ok)
    /\ Thread(j, After(j, "dangling", ~ok))
    /\ Inside /\ UNCHANGED docker

\* /images/prune removes untagged images that no container uses.
prune_dangling(j, ok) ==
    LET unused == (docker.present \cap Dangling) \ docker.used IN
    /\ thread[j].at = "dangling" /\ Answers(ok)
    /\ Thread(j, After(j, "ids", ~ok))
    /\ docker' = IF ok THEN [docker EXCEPT !.present = @ \ unused] ELSE docker
    /\ Inside

\* _remove_unused_images: the containers, then the images; an error ends the phase.
list_containers(j) ==
    /\ thread[j].at = "ids" /\ Answers(TRUE)
    /\ Thread(j, [thread[j] EXCEPT !.at = "images", !.ids = docker.used])
    /\ Inside /\ UNCHANGED docker
list_images(j) ==
    /\ thread[j].at = "images" /\ Answers(TRUE)
    /\ Thread(j, [thread[j] EXCEPT !.at = "remove", !.ids = {},
                                       !.todo = Removable(docker.present, thread[j].ids)])
    /\ Inside /\ UNCHANGED docker
list_fails(j) ==
    /\ thread[j].at \in {"ids", "images"} /\ Answers(FALSE)
    /\ Thread(j, [After(j, "done", TRUE) EXCEPT !.ids = {}])
    /\ Inside /\ UNCHANGED docker

\* DELETE /images/{id}?force=false: the engine refuses an image that a container
\* uses or that has a second tag by then.
\* Mutant: force=true.
Deletable_Force(m) == m \in docker.present
Deletable(m) == m \in docker.present \ (docker.used \cup docker.retagged)
try_remove(j, m, ok) ==
    /\ thread[j].at = "remove" /\ m \in thread[j].todo
    /\ IF ok \/ Deletable(m) THEN Answers(ok) ELSE Quiet
    /\ ok => Deletable(m)
    /\ Thread(j, [After(j, "remove", ~ok) EXCEPT !.todo = @ \ {m}])
    /\ docker' = IF ok THEN [docker EXCEPT !.present = @ \ {m}] ELSE docker
    /\ Inside
cleanup_done(j) ==
    /\ thread[j].at = "remove" /\ thread[j].todo = {}
    /\ Thread(j, After(j, "done", FALSE))
    /\ Quiet /\ Inside /\ UNCHANGED docker

-----------------------------------------------------------------------------
\* Other people on the host (external): a container is created or removed, an
\* image gets a second, protected tag, the engine hangs, stops or starts.
OthersChange ==
    /\ Disturbed
    /\ \/ \E m \in docker.present : docker' = [docker EXCEPT !.used = @ \cup {m}]
       \/ \E m \in docker.used : docker' = [docker EXCEPT !.used = @ \ {m}]
       \/ \E m \in docker.present \ Dangling : docker' = [docker EXCEPT !.retagged = @ \cup {m}]
       \/ \E e \in {"up", "silent", "gone"} \ {docker.engine} : docker' = [docker EXCEPT !.engine = e]
    /\ UNCHANGED <<job, thread, acts, heals, overlap, schemaReady>>

\* An hour passes: what was recorded so far is no longer recent, nor are the heals
\* of the jobs that are through with them.  Only a job still to come can tell.
InRun == {"wait", "post", "rollback", "insight", "action"}
HourPasses ==
    /\ acts \cup heals # {} /\ \E j \in HealJobs : job[j].pc = "new"
    /\ acts' = {}
    /\ heals' = {h \in heals : job[h.by].pc \in InRun}
    /\ Quiet /\ UNCHANGED <<job, thread, docker, overlap, schemaReady>>

JobStep(j) ==
    \/ query(j) \/ skip_host(j) \/ report_host(j) \/ start_heal(j) \/ finish(j)
    \/ persist_insight(j) \/ persist_action(j)
    \/ \E a \in {"passed", "failed", "skipped", "raises", "times out"} :
          pre_check(j, a) \/ execute_hook(j, a) \/ post_check(j, a)
    \/ execute_clear(j) \/ execute_done(j) \/ execute_timeout(j) \/ rollback(j)
ThreadStep(j) ==
    \/ \E ok \in BOOLEAN : \/ prune_build_cache(j, ok) \/ prune_dangling(j, ok)
                           \/ \E m \in Images : try_remove(j, m, ok)
    \/ list_containers(j) \/ list_images(j) \/ list_fails(j) \/ cleanup_done(j)

Next == \/ \E j \in AllJobs : \/ JobStep(j) \/ ThreadStep(j) \/ JobFails(j)
                              \/ \E kept \in BOOLEAN : job_timeout(j, kept)
                              \/ \E pb \in Registered \cup {"unknown"} : start_plan(j, pb)
        \/ OthersChange \/ HourPasses

\* The loop goes on with a job it has begun.  Threads get no fairness: the
\* socket has no timeout and a Docker request may hang.
Fairness == \A j \in AllJobs : WF_healVars(job[j].pc # "new" /\ JobStep(j))

-----------------------------------------------------------------------------
\* "NEVER removes images used by ANY container", nor those "whose repo tags
\* match protected name patterns": also when the container or the tag came after
\* the cleaner listed them, and when a thread goes on after its job was rolled back.
CleanupIsSafe == docker.used \cup Protected \cup docker.retagged \subseteq docker.present

\* A run that is reported as a success has no command under way: only one that
\* failed, or was cancelled and reports nothing, may have left its thread behind.
\* The cleanup itself may have met errors, or failed, as its own success is not
\* looked at: but not on a host that nothing else touches and whose engine answers.  And a run
\* that reports anything was rolled back exactly when its execute step began and
\* it failed: never for a pre-check, always for a timeout or an exception after it.
Undisturbed(j) == disturbances = 0 /\ \A k \in AllJobs \ {j} : thread[k].at = "none"
PlaybookOutcome ==
    \A j \in AllJobs :
        /\ job[j].result = "success" =>
              /\ thread[j].at \in {"none", "done"}
              /\ thread[j].errors => ~Undisturbed(j)
        /\ job[j].result # "none" =>
              (job[j].rolledback <=> job[j].executed /\ job[j].result = "error")

\* A host is cleaned twice in an hour only by jobs that overlapped, or after a
\* job that failed or was cancelled before it had recorded its own heal: the
\* record, whatever the outcome, keeps later jobs away, but it is written last.
SecondHealNeedsOverlap ==
    \A a, b \in heals : a.host = b.host /\ a.by # b.by =>
        \/ {a.by, b.by} \in overlap
        \/ \E h \in {a, b} : h \notin acts /\ job[h.by].pc \in {"failed", "cancelled"}

\* A job ends although the Docker engine may never answer its thread.
JobEnds(j) == (job[j].pc = "pre") ~> (job[j].pc \in {"done", "failed", "cancelled"})
=============================================================================
