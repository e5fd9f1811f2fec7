--------------------------- MODULE ActionRequest ---------------------------
(***************************************************************************)
(* Mediated action requests: control/action_workflow.py, with the policy   *)
(* checks of control/policy_matrix.py.                                     *)
(*                                                                         *)
(* Every transition method loads the row, checks the copy it has loaded    *)
(* and writes the changed columns in the caller's session; the caller      *)
(* commits.  The load takes no lock (PostgreSQL, READ COMMITTED), so the   *)
(* row may change between the load and the flush.                          *)
(***************************************************************************)
EXTENDS Integers, FiniteSets

CONSTANTS
    Requests,    \* request ids
    Specs,       \* ActionRequestSpecs: action class, targets, snapshot_exists
    Records,     \* approval record ids
    RecordOf,    \* approval record id -> its ApprovalRecord
    Sessions,    \* callers' database sessions
    None         \* no record, no session

ActionClasses == {"AC-001", "AC-002", "AC-003", "AC-004", "AC-005",
                  "AC-006", "AC-007", "AC-008", "AC-009", "AC-010"}

\* risk_class in _POLICY_REGISTRY.
RiskOf(ac) ==
    CASE ac \in {"AC-001", "AC-002"}                     -> "RC-1"
      [] ac \in {"AC-005", "AC-006", "AC-007", "AC-009"} -> "RC-2"
      [] ac \in {"AC-003", "AC-004"}                     -> "RC-3"
      [] ac \in {"AC-008", "AC-010"}                     -> "RC-4"

VARIABLES
    rows,       \* committed rows of agent_control.action_request
    lock,       \* row -> session that has flushed an UPDATE of it, or None
    pc,         \* session -> "idle", "loaded" or "flushed"
    call,       \* session -> the method called, the request, the record given
    copy,       \* session -> the row as session.get loaded it
    expired,    \* approval records whose wall-clock has passed
    changeLog,  \* requests with a ChangeLog row (change_code is unique)
    begun       \* history: the requests whose execution has begun

vars == <<rows, lock, pc, call, copy, expired, changeLog, begun>>

MinQuorum == 2      \* _MIN_QUORUM_APPROVERS

Terminal == {"completed", "failed", "revoked", "denied"}
Statuses == {"absent", "pending", "approved", "executing"} \cup Terminal

Absent == [status |-> "absent", spec |-> None, record |-> None]

NoCall == [op |-> "none", request |-> None, record |-> None]

-----------------------------------------------------------------------------
\* PolicyEnforcer.check: D-004, D-005 and D-008 for a record of an action
\* class that needs one.  An empty scope covers everything.
CheckApproval(s, a) ==
    /\ a # None
    /\ a \notin expired
    /\ RecordOf[a].action_class = s.action_class
    /\ \/ RecordOf[a].scope = {}
       \/ s.targets \subseteq RecordOf[a].scope

CheckQuorum(a) == a # None /\ Cardinality(RecordOf[a].approvers) >= MinQuorum

\* approval_required is set for every class but RC-1, quorum_required and
\* snapshot_required for RC-4.  evidence: the task type's contract and the
\* mandatory evidence classes are satisfied.
PolicyCheck(s, a, evidence) ==
    /\ evidence
    /\ RiskOf(s.action_class) # "RC-1" => CheckApproval(s, a)
    /\ RiskOf(s.action_class) = "RC-4" => CheckQuorum(a) /\ s.snapshot_exists

Init ==
    /\ rows      = [q \in Requests |-> Absent]
    /\ lock      = [q \in Requests |-> None]
    /\ pc        = [x \in Sessions |-> "idle"]
    /\ call      = [x \in Sessions |-> NoCall]
    /\ copy      = [x \in Sessions |-> Absent]
    /\ expired   = {}
    /\ changeLog = {}
    /\ begun     = {}

\* create: a denied spec is not stored.
Create(q, s, a, evidence) ==
    /\ rows[q].status = "absent"
    /\ PolicyCheck(s, a, evidence)
    /\ rows' = [rows EXCEPT ![q] =
                   [status |-> IF RiskOf(s.action_class) = "RC-1" THEN "approved" ELSE "pending",
                    spec |-> s, record |-> a]]
    /\ UNCHANGED <<lock, pc, call, copy, expired, changeLog, begun>>

\* The clock passes expires_at of an approval.
ExpireRecord(a) ==
    /\ a \notin expired
    /\ expired' = expired \cup {a}
    /\ UNCHANGED <<rows, lock, pc, call, copy, changeLog, begun>>

\* A transition method is called and loads the row (_load).
Load(x, op, q, a) ==
    /\ pc[x] = "idle"
    /\ rows[q].status # "absent"
    /\ pc'   = [pc EXCEPT ![x] = "loaded"]
    /\ call' = [call EXCEPT ![x] = [op |-> op, request |-> q,
                                    record |-> IF op = "approve" THEN a ELSE None]]
    /\ copy' = [copy EXCEPT ![x] = rows[q]]
    /\ UNCHANGED <<rows, lock, expired, changeLog, begun>>

\* Mutant: approve takes the scope of the record for granted.
ApprovalEligible_AnyScope(s, a) ==
    /\ a \notin expired
    /\ RecordOf[a].action_class = s.action_class
    /\ RiskOf(s.action_class) = "RC-4" => CheckQuorum(a)

\* _validate_approval_preconditions, after the status test.
ApprovalEligible(s, a) ==
    /\ a \notin expired
    /\ RecordOf[a].action_class = s.action_class
    /\ s.targets \subseteq RecordOf[a].scope
    /\ RiskOf(s.action_class) = "RC-4" => CheckQuorum(a)

\* Mutant: begin_execution takes a pending request.
FromStatus_BeginPending(op) ==
    CASE op \in {"approve", "deny"}  -> {"pending"}
      [] op \in {"begin", "revoke"}  -> {"pending", "approved"}
      [] op \in {"complete", "fail"} -> {"executing"}

\* The statuses each method goes on from: _guard_terminal and its own test.
FromStatus(op) ==
    CASE op \in {"approve", "deny"}  -> {"pending"}
      [] op = "begin"                -> {"approved"}
      [] op \in {"complete", "fail"} -> {"executing"}
      [] op = "revoke"               -> {"pending", "approved"}

\* All checks of the method, on the loaded copy.
Allowed(c, row) ==
    /\ row.status \in FromStatus(c.op)
    /\ c.op = "approve" => ApprovalEligible(row.spec, c.record)
    /\ c.op = "begin" /\ RiskOf(row.spec.action_class) = "RC-4" => row.spec.snapshot_exists

NewStatus(op) ==
    CASE op = "approve" -> "approved"   [] op = "begin"  -> "executing"
      [] op = "complete" -> "completed" [] op = "fail"   -> "failed"
      [] op = "revoke"  -> "revoked"    [] op = "deny"   -> "denied"

\* Mutant: fail leaves a ChangeLog row too.
TraceRows_OnFail(c) == IF c.op \in {"complete", "fail"} THEN {c.request} ELSE {}

\* complete adds a ChangeLog row, in the transaction that sets the status.
TraceRows(c) == IF c.op = "complete" THEN {c.request} ELSE {}

\* approve attaches its record to a request that has not got it.
Attaches(c, row) == c.op = "approve" /\ c.record # row.record

\* The method refuses: success=False, nothing is written.
Refuse(x) ==
    /\ pc[x] = "loaded"
    /\ ~Allowed(call[x], copy[x])
    /\ pc'   = [pc EXCEPT ![x] = "idle"]
    /\ call' = [call EXCEPT ![x] = NoCall]
    /\ copy' = [copy EXCEPT ![x] = Absent]
    /\ UNCHANGED <<rows, lock, expired, changeLog, begun>>

\* The method succeeds and flushes: the UPDATE locks the row, waiting for
\* whoever has it.
Flush(x) ==
    /\ pc[x] = "loaded"
    /\ Allowed(call[x], copy[x])
    /\ lock[call[x].request] = None
    /\ TraceRows(call[x]) \cap changeLog = {}
    /\ lock' = [lock EXCEPT ![call[x].request] = x]
    /\ pc'   = [pc EXCEPT ![x] = "flushed"]
    /\ UNCHANGED <<rows, call, copy, expired, changeLog, begun>>

\* The caller commits.  The UPDATE names only the columns in which the loaded
\* copy was changed: approving with the record it has writes the status alone.
Commit(x) ==
    /\ pc[x] = "flushed"
    /\ LET c == call[x]  q == c.request IN
       /\ rows' = [rows EXCEPT ![q].status = NewStatus(c.op),
                               ![q].record = IF Attaches(c, copy[x]) THEN c.record ELSE @]
       /\ lock' = [lock EXCEPT ![q] = None]
       /\ changeLog' = changeLog \cup TraceRows(c)
       /\ begun' = IF c.op = "begin" THEN begun \cup {q} ELSE begun
    /\ pc'   = [pc EXCEPT ![x] = "idle"]
    /\ call' = [call EXCEPT ![x] = NoCall]
    /\ copy' = [copy EXCEPT ![x] = Absent]
    /\ UNCHANGED expired

\* The caller rolls back, dies, or the second ChangeLog row of a request
\* violates uq_change_log_code.
Rollback(x) ==
    /\ pc[x] # "idle"
    /\ lock' = [q \in Requests |-> IF lock[q] = x THEN None ELSE lock[q]]
    /\ pc'   = [pc EXCEPT ![x] = "idle"]
    /\ call' = [call EXCEPT ![x] = NoCall]
    /\ copy' = [copy EXCEPT ![x] = Absent]
    /\ UNCHANGED <<rows, expired, changeLog, begun>>

Ops == {"approve", "begin", "complete", "fail", "revoke", "deny"}

Next ==
    \/ \E q \in Requests, s \in Specs, a \in Records \cup {None}, e \in BOOLEAN :
           Create(q, s, a, e)
    \/ \E a \in Records : ExpireRecord(a)
    \/ \E x \in Sessions, op \in Ops, q \in Requests, a \in Records : Load(x, op, q, a)
    \/ \E x \in Sessions : Refuse(x) \/ Flush(x) \/ Commit(x) \/ Rollback(x)

Spec == Init /\ [][Next]_vars

-----------------------------------------------------------------------------
\* Every variable has its type.
TypeOK ==
    /\ \A q \in Requests : /\ rows[q].status \in Statuses
                           /\ rows[q].spec \in Specs \cup {None}
                           /\ rows[q].record \in Records \cup {None}
    /\ lock \in [Requests -> Sessions \cup {None}]
    /\ pc \in [Sessions -> {"idle", "loaded", "flushed"}]
    /\ expired \subseteq Records
    /\ changeLog \subseteq Requests

\* However many callers race, a request that is being or was executed has the
\* approval its class needs: a record for that class whose scope names every
\* target, by a quorum for RC-4, and with the pre-change snapshot.
ExecutionIsApproved ==
    \A q \in Requests :
        LET row == rows[q] IN
        row.status \in {"executing", "completed", "failed"}
        /\ RiskOf(row.spec.action_class) # "RC-1" =>
            /\ row.record # None
            /\ RecordOf[row.record].action_class = row.spec.action_class
            /\ row.spec.targets \subseteq RecordOf[row.record].scope
            /\ RiskOf(row.spec.action_class) = "RC-4" =>
                   /\ row.spec.snapshot_exists
                   /\ Cardinality(RecordOf[row.record].approvers) >= MinQuorum

\* The post-execution trace: with one caller at a time a request has a
\* ChangeLog row exactly when it is completed.
TraceIffCompleted ==
    \A q \in Requests : q \in changeLog <=> rows[q].status = "completed"

\* However many callers race, a trace is never written for a request that
\* was not being executed.
TraceMeansExecuted == changeLog \subseteq begun
=============================================================================
