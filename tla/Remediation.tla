---------------------------- MODULE Remediation -----------------------------
(* motor/remediation.py: RemediationEngine.propose, called by several tasks.   *)
(* It runs without a break up to the await in _route, where other proposals    *)
(* may run, and remembers the insight only after it.                           *)
EXTENDS Naturals, FiniteSets

CONSTANTS Proposers, Insights   \* Insights: records [type, target, severity, source, evidence]

VARIABLES seen,      \* _seen_insight_hashes
          pending,   \* what each proposer is awaiting _route with
          plans,     \* plans that were returned, with their proposer
          overlapped \* history: keys that were proposed while another proposal of them was routed

remediationVars == <<seen, pending, plans, overlapped>>

None == "none"

\* _derive_actions: always one action.
ActionOf(type) ==
    CASE type = "high_disk_usage" -> "clear_disk_space"
      [] type = "container_crash" -> "restart_container"
      [] type = "cert_expiry" -> "rotate_certificate"
      [] type = "gpu_imbalance" -> "rebalance_gpu_load"
      [] type = "llm_latency_spike" -> "restart_llm_engine"
      [] type = "security_alert" -> "alert_escalate"
      [] OTHER -> "log_observation"

\* _ACTION_RISK_MAP, with RC-4 for what it does not list.
RiskOfAction(a) ==
    CASE a \in {"log_observation", "emit_metric", "send_notification"} -> 1
      [] a \in {"alert_escalate", "restart_container", "clear_disk_space"} -> 2
      [] a \in {"rotate_certificate", "restart_llm_engine", "rebalance_gpu_load"} -> 3
      [] OTHER -> 4
Destructive == {"modify_firewall", "delete_volume", "destroy_cluster_node"}
Known == {"log_observation", "emit_metric", "send_notification", "alert_escalate",
          "restart_container", "clear_disk_space", "rotate_certificate",
          "restart_llm_engine", "rebalance_gpu_load"} \cup Destructive

Points(present, n) == IF present THEN n ELSE 0
\* _calculate_confidence, in hundredths.
Confidence(i, a) == 50 + Points(i.source, 10) + Points(i.evidence, 15)
                    + Points(i.severity # "", 10) + Points(a \in Known, 15)
MinAutoExecuteConfidence == 70

Valid(i) == i.type # "" /\ i.target # ""
\* _insight_hash: type, target and severity.
KeyOf(i) == <<i.type, i.target, i.severity>>
Unsafe(a) == a \in Destructive \/ RiskOfAction(a) = 4

Blocked(p, i) == [by |-> p, key |-> KeyOf(i), action |-> None, risk |-> 4,
                  confidence |-> 0, status |-> "blocked"]

NoPlan == [by |-> None, key |-> << >>, action |-> None, risk |-> 0, confidence |-> 0, status |-> None]

Init == /\ seen = {} /\ plans = {} /\ overlapped = {}
        /\ pending = [p \in Proposers |-> NoPlan]

Idle(p) == pending[p] = NoPlan
\* What propose decides before its await: a rejected plan, or the plan to route.
Proposed(p, i) ==
    LET a == ActionOf(i.type) IN
    IF ~Valid(i) \/ KeyOf(i) \in seen \/ Unsafe(a) THEN Blocked(p, i)
    ELSE [by |-> p, key |-> KeyOf(i), action |-> a, risk |-> RiskOfAction(a),
          confidence |-> Confidence(i, a), status |-> "proposed"]

propose(p, i) ==
    LET plan == Proposed(p, i)
        others == {q \in Proposers \ {p} : ~Idle(q)}
    IN /\ Idle(p) /\ ~ \E x \in plans : x.by = p
       /\ IF plan.status = "blocked"
          THEN plans' = plans \cup {plan} /\ UNCHANGED <<pending, overlapped>>
          ELSE /\ pending' = [pending EXCEPT ![p] = plan]
               /\ overlapped' = IF \E q \in others : pending[q].key = plan.key
                                THEN overlapped \cup {plan.key} ELSE overlapped
               /\ UNCHANGED plans
       /\ UNCHANGED seen

Routed(plan) ==
    [plan EXCEPT !.status =
        CASE plan.risk = 1 /\ plan.confidence >= MinAutoExecuteConfidence -> "auto_approved"
          [] plan.risk = 1 /\ plan.confidence < MinAutoExecuteConfidence -> "pending_approval"
          [] plan.risk \in {2, 3} -> "pending_approval"
          [] OTHER -> "blocked"]

\* Mutant: only plans that run by themselves are remembered.
route_ForgetsPending(p) ==
    /\ ~Idle(p)
    /\ plans' = plans \cup {Routed(pending[p])}
    /\ seen' = IF Routed(pending[p]).status = "auto_approved" THEN seen \cup {pending[p].key} ELSE seen
    /\ pending' = [pending EXCEPT ![p] = NoPlan]
    /\ UNCHANGED overlapped
\* After the await: _route sets the status, then the insight is remembered.
route(p) ==
    /\ ~Idle(p)
    /\ plans' = plans \cup {Routed(pending[p])}
    /\ seen' = seen \cup {pending[p].key}
    /\ pending' = [pending EXCEPT ![p] = NoPlan]
    /\ UNCHANGED overlapped

Next == \E p \in Proposers : route(p) \/ \E i \in Insights : propose(p, i)

-----------------------------------------------------------------------------
\* A duplicate is refused: two plans for one insight (type, target, severity)
\* that are not both blocked come only from proposals that overlapped at the
\* await of _route.
DuplicatePlanNeedsOverlap ==
    \A x, y \in plans : x # y /\ x.key = y.key /\ "blocked" \notin {x.status, y.status}
        => x.key \in overlapped

\* Nothing that changes a host is approved without a human: an auto-approved
\* plan only logs, and its insight named a source, evidence or a severity.
OnlyLoggingIsAutoApproved ==
    \A x \in plans : x.status = "auto_approved" =>
        x.action = "log_observation" /\ x.confidence > 65
=============================================================================
