------------------------------ MODULE MCMotor -------------------------------
(* The motor and the calls to the language models it shares a process with.    *)
(* The parts share no state: each is explored on its own, from an initial      *)
(* state in which the others are at rest.  So are the two users of the         *)
(* playbook executor, the heals and the plans.                                 *)
EXTENDS Naturals, Sequences, FiniteSets, TLC

CONSTANTS Callers, MaxTokens, RefillRate, Proposers, Runs, Targets, ProductionTargets,
          MaxConcurrent, Notices, MaxRetries, HealJobs, PlanJobs, Images, Protected, Dangling, InUse,
          MaxDisturbances,
          Clients, Threshold, Attempts, Tasks, Limit, Estimates, MaxUsed, Evaluators,
          Insights, Policies, Hosts

\* The settings of the motor.  A host is in the fleet once: host_code is unique
\* and the job's query takes the last facts of each.
ASSUME MotorAssumption ==
    /\ IsFiniteSet(Callers) /\ MaxTokens \in Nat /\ RefillRate \in Nat
    /\ MaxConcurrent \in Nat /\ "free" \notin Runs
    /\ MaxRetries \in Nat \ {0}
    /\ HealJobs \cap PlanJobs = {}
    /\ Protected \subseteq Images /\ Protected \cap Dangling = {} /\ InUse \subseteq Images
    /\ Hosts \in Seq([code : STRING, pct : Nat])
    /\ \A m, n \in DOMAIN Hosts : Hosts[m].code = Hosts[n].code => m = n
    /\ Limit \in Nat /\ Estimates \subseteq Nat

VARIABLES part,
          sem, tokens, queue, woken, holders, refilling, refilled,
          seen, pending, plans, overlapped,
          run, running, locks, aborted, killed, history,
          notice, received,
          job, thread, docker, acts, heals, overlap, schemaReady, disturbances,
          circuit, call, verdict, passed, healthy,
          used, stale, task, excess,
          active, evaluation, standing, decision

\* An insight without a type, two the engine maps, and two that it only logs.
MCInsights ==
    {[type |-> "", target |-> "h", severity |-> "", source |-> TRUE, evidence |-> FALSE],
     [type |-> "high_disk_usage", target |-> "h", severity |-> "high", source |-> TRUE, evidence |-> TRUE],
     [type |-> "security_alert", target |-> "h", severity |-> "high", source |-> TRUE, evidence |-> TRUE],
     [type |-> "noise", target |-> "h", severity |-> "", source |-> FALSE, evidence |-> FALSE],
     [type |-> "noise", target |-> "h", severity |-> "", source |-> FALSE, evidence |-> TRUE]}
\* A policy of every kind of rule.
MCPolicies ==
    {[blocked_actions |-> {"read"}, requires_approval_for |-> {"create"}, restricted_targets |-> {}],
     [blocked_actions |-> {}, requires_approval_for |-> {}, restricted_targets |-> {"web"}]}
MCHosts == << [code |-> "web1", pct |-> 91], [code |-> "orchestrator", pct |-> 88] >>

Bucket == INSTANCE TokenBucket
Remedy == INSTANCE Remediation
Chaos  == INSTANCE Chaos
Notify == INSTANCE Notifications
Heal   == INSTANCE SelfHeal
Llm    == INSTANCE LlmClient WITH Callers <- Clients, MaxRetries <- Attempts
Budget == INSTANCE TokenBudget
Gate   == INSTANCE GuardGate

bucketVars == <<sem, tokens, queue, woken, holders, refilling, refilled>>
remedyVars == <<seen, pending, plans, overlapped>>
chaosVars  == <<run, running, locks, aborted, killed, history>>
notifyVars == <<notice, received>>
healVars   == <<job, thread, docker, acts, heals, overlap, schemaReady, disturbances>>
llmVars    == <<circuit, call, verdict, passed, healthy>>
budgetVars == <<used, stale, task, excess>>
gateVars   == <<active, evaluation, standing, decision>>
allVars == <<part, bucketVars, remedyVars, chaosVars, notifyVars, healVars, llmVars, budgetVars, gateVars>>

Init == /\ part \in {"bucket", "remedy", "chaos", "notify", "heal", "plan", "llm", "budget", "gate"}
        /\ Bucket!Init /\ Remedy!Init /\ Chaos!Init /\ Notify!Init /\ Heal!Init
        /\ Llm!Init /\ Budget!Init /\ Gate!Init
        /\ part # "heal" => schemaReady
        /\ part # "gate" => active = {}

\* Only the part p moves.
Rest(p) == /\ part = p /\ UNCHANGED part
           /\ IF p = "bucket" THEN TRUE ELSE UNCHANGED bucketVars
           /\ IF p = "remedy" THEN TRUE ELSE UNCHANGED remedyVars
           /\ IF p = "chaos" THEN TRUE ELSE UNCHANGED chaosVars
           /\ IF p = "notify" THEN TRUE ELSE UNCHANGED notifyVars
           /\ IF p \in {"heal", "plan"} THEN TRUE ELSE UNCHANGED healVars
           /\ IF p = "llm" THEN TRUE ELSE UNCHANGED llmVars
           /\ IF p = "budget" THEN TRUE ELSE UNCHANGED budgetVars
           /\ IF p = "gate" THEN TRUE ELSE UNCHANGED gateVars

Next == \/ Rest("bucket") /\ Bucket!Next
        \/ Rest("remedy") /\ Remedy!Next
        \/ Rest("chaos") /\ Chaos!Next
        \/ Rest("notify") /\ Notify!Next
        \/ Rest("heal") /\ Heal!Next /\ \A j \in PlanJobs : job'[j] = job[j]
        \/ Rest("plan") /\ Heal!Next /\ \A j \in HealJobs : job'[j] = job[j]
        \/ Rest("llm") /\ Llm!Next
        \/ Rest("budget") /\ Budget!Next
        \/ Rest("gate") /\ Gate!Next

\* What fairness is about is not enabled in a part at rest.
Spec == Init /\ [][Next]_allVars /\ Bucket!Fairness /\ Heal!Fairness /\ Llm!Fairness

\* TokenBucket and TokenBudget: permits are neither lost nor made up, and a
\* budget is overdrawn only by what its checks could not see.
TokensAreConserved == Bucket!TokensAreConserved /\ Budget!OverdraftIsExplained
\* Two plans for one insight come only from proposals that overlapped at an await;
\* two heals of one host within the hour only from jobs that did, or from a job
\* that ended before it had recorded its heal.
DuplicatesNeedOverlap == Remedy!DuplicatePlanNeedsOverlap /\ Heal!SecondHealNeedsOverlap
\* What runs was let through: only logging is approved without a human, chaos
\* runs keep to their limits, and an aborted one is not a success.
GuardsHold == Remedy!OnlyLoggingIsAutoApproved /\ Chaos!RunsAreGuarded /\ Chaos!KillSwitchWins
\* No image is removed under a container or a protected tag.
CleanupIsSafe == Heal!CleanupIsSafe
\* What a report can be relied on for: a playbook run that says success has ended,
\* and a notice that says delivered was received or had a placeholder channel.
ReportsAreBounded == Heal!PlaybookOutcome /\ Notify!NoticeIsBounded
\* LlmClient and GuardGate: an error, an objection or a rule lets nothing through;
\* an answer of the gate's scanner that gives no verdict does.
FailuresBlock == Llm!PassedIsScanned /\ Gate!AllowedIsVetted
\* LlmClient: a backend that has recovered is used again.
RecoveryCloses == Llm!RecoveryCloses
\* A waiting acquire() ends while the refill runs, and a playbook run ends
\* although the Docker engine may hang.  Callers are interchangeable, and so are
\* heals: one of each stands for all.
OneCaller == CHOOSE c \in Callers : TRUE
OneHeal == CHOOSE j \in HealJobs : TRUE
WaitsEnd == /\ Bucket!NobodyStarves(OneCaller)
            /\ Heal!JobEnds(OneHeal) /\ \A j \in PlanJobs : Heal!JobEnds(j)
=============================================================================
