-------------------------- MODULE RequestLifecycle --------------------------
(***************************************************************************)
(* What the transition methods of control/action_workflow.py promise,      *)
(* apart from who calls them and when: the life of each request's status.  *)
(***************************************************************************)
CONSTANT Requests

VARIABLE status     \* request -> status_text, "absent" before create

\* The statuses that may follow s: create (auto-approved for read-only
\* classes); approve, deny, revoke; begin_execution, revoke; complete, fail.
After(s) ==
    CASE s = "absent"    -> {"pending", "approved"}
      [] s = "pending"   -> {"approved", "denied", "revoked"}
      [] s = "approved"  -> {"executing", "revoked"}
      [] s = "executing" -> {"completed", "failed"}
      [] OTHER           -> {}

Init == status = [q \in Requests |-> "absent"]

Move(q) == \E s \in After(status[q]) : status' = [status EXCEPT ![q] = s]

Next == \E q \in Requests : Move(q)

Spec == Init /\ [][Next]_status
=============================================================================
