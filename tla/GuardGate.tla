----------------------------- MODULE GuardGate ------------------------------
(* governance/guard_gate.py and governance/policy_enforcer.py: the five levels *)
(* an action passes.  Level 2 is an await of the LLM Guard service, during     *)
(* which policies may be changed by their editors; the levels after it run in  *)
(* one step.  LLM_GUARD_FAIL_CLOSED has its default, true.                     *)
EXTENDS Naturals

CONSTANTS Evaluators,  \* tasks that call GuardGate.evaluate
          Policies     \* governance.policy_record rows, as their rules_jsonb

VARIABLES active,      \* policies with is_active
          evaluation,  \* what each task evaluates and where it is
          standing,    \* history: policies active since the evaluation began
          decision     \* the GateDecision each task got last

gateVars == <<active, evaluation, standing, decision>>

ReadActions == {"read"}
LowRiskMutations == {"create", "Create"}
HighRiskMutations == {"update"}
CriticalActions == {"delete"}
CriticalTargets == {"production"}

\* One action type of each class, one spelt with a capital, one unknown.  clean:
\* RedactionScanner matches no pattern in it.
Actions == [type : ReadActions \cup LowRiskMutations \cup HighRiskMutations \cup CriticalActions \cup {"other"},
            target : {"production", "web"}, clean : BOOLEAN,
            has_approval : BOOLEAN, override : BOOLEAN, production : BOOLEAN]

NoAction == [type |-> "none", target |-> "none", clean |-> TRUE,
             has_approval |-> FALSE, override |-> FALSE, production |-> FALSE]
Nothing == [at |-> "idle", action |-> NoAction]
Undecided == [allowed |-> FALSE, level |-> 0, scan |-> "none", hitl |-> FALSE]

Init == /\ active \in SUBSET Policies
        /\ evaluation = [e \in Evaluators |-> Nothing]
        /\ standing = [e \in Evaluators |-> {}]
        /\ decision = [e \in Evaluators |-> Undecided]

-----------------------------------------------------------------------------
\* Types are compared in lower case here, as they are written in the policies.
classify_risk(a) ==
    LET critical == a.target \in CriticalTargets IN
    CASE a.type \in CriticalActions -> "RC-4"
      [] a.type \in HighRiskMutations -> IF critical THEN "RC-4" ELSE "RC-3"
      [] a.type \in LowRiskMutations -> IF critical THEN "RC-3" ELSE "RC-2"
      [] a.type \in ReadActions -> IF critical THEN "RC-2" ELSE "RC-1"
      [] OTHER -> IF a.production THEN "RC-3" ELSE "RC-2"

\* PolicyEnforcer.check for one policy.
Violates(a, p) ==
    \/ a.type \in p.blocked_actions
    \/ a.type \in p.requires_approval_for /\ ~a.has_approval
    \/ a.target \in p.restricted_targets /\ ~a.override

\* An answer of the database: the active policies, or an error, which blocks.
check(a, readable) == readable /\ \A p \in active : ~Violates(a, p)

\* _llm_guard_scan: every error blocks, but "silent", a body without the field
\* safe, counts as safe.
Scan(answer) == answer \in {"safe", "silent"}

\* L3 to L5, and the decision.
Levels(a, readable) ==
    IF ~check(a, readable) THEN 3
    ELSE IF classify_risk(a) \in {"RC-3", "RC-4"} THEN 5 ELSE 0

-----------------------------------------------------------------------------
\* L1.  The decision is made here, or the request to the guard is under way.
evaluate(e, a) ==
    /\ evaluation[e] = Nothing
    /\ evaluation' = [evaluation EXCEPT ![e] = [at |-> IF a.clean THEN "scan" ELSE "idle", action |-> a]]
    /\ standing' = [standing EXCEPT ![e] = active]
    /\ decision' = [decision EXCEPT ![e] = [Undecided EXCEPT !.level = IF a.clean THEN 0 ELSE 1]]
    /\ UNCHANGED active

\* L2's answer ("failed": timeout, connection, HTTP or JSON error), then L3 to L5.
Scanned(e, answer, readable) ==
    LET a == evaluation[e].action
        level == IF ~Scan(answer) THEN 2 ELSE Levels(a, readable)
    IN /\ evaluation[e].at = "scan"
       /\ evaluation' = [evaluation EXCEPT ![e].at = "idle"]
       /\ decision' = [decision EXCEPT ![e] =
             [allowed |-> level = 0, level |-> level, scan |-> answer, hitl |-> level = 5]]
       /\ UNCHANGED <<active, standing>>

\* The task that asked is done with the decision.
Forget(e) == /\ evaluation[e].at = "idle" /\ evaluation[e].action # NoAction
             /\ evaluation' = [evaluation EXCEPT ![e] = Nothing]
             /\ standing' = [standing EXCEPT ![e] = {}]
             /\ decision' = [decision EXCEPT ![e] = Undecided]
             /\ UNCHANGED active

\* External: a policy is activated or deactivated.  Only those of an evaluation
\* still under way can stop standing.
PolicyChanges(p) ==
    /\ active' = IF p \in active THEN active \ {p} ELSE active \cup {p}
    /\ standing' = [e \in Evaluators |->
                       IF evaluation[e].at = "scan" THEN standing[e] \cap active' ELSE standing[e]]
    /\ UNCHANGED <<evaluation, decision>>

Next == \/ \E e \in Evaluators :
              \/ \E a \in Actions : evaluate(e, a)
              \/ \E answer \in {"safe", "silent", "unsafe", "failed"}, r \in BOOLEAN : Scanned(e, answer, r)
              \/ Forget(e)
        \/ \E p \in Policies : PolicyChanges(p)

-----------------------------------------------------------------------------
\* An action is allowed only if it is clean, the guard service answered and did not
\* object (it need not have said "safe": an answer without a verdict passes), no
\* policy that was active throughout the evaluation forbids it and its type and
\* target need no human, whatever failed or changed meanwhile.
AllowedIsVetted ==
    \A e \in Evaluators : decision[e].allowed =>
        LET a == evaluation[e].action IN
        /\ a.clean /\ decision[e].scan \in {"safe", "silent"}
        /\ \A p \in standing[e] :
              /\ a.type \notin p.blocked_actions
              /\ a.type \in p.requires_approval_for => a.has_approval
              /\ a.target \in p.restricted_targets => a.override
        /\ a.type \notin HighRiskMutations \cup CriticalActions
        /\ a.type \in LowRiskMutations => a.target \notin CriticalTargets
=============================================================================
