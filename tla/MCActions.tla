----------------------------- MODULE MCActions ------------------------------
(***************************************************************************)
(* The two ways an action is carried out, for TLC.  They share no state    *)
(* and are explored each on its own: plans under the execution lock, and   *)
(* mediated requests, by one caller at a time ("serial", two requests) and *)
(* by two that race on one request ("racing").                             *)
(***************************************************************************)
EXTENDS ActionExecution, TLC, FiniteSets

CONSTANTS a1, a2, a3, k1, k2,
          Requests, Specs, Records, RecordOf, Sessions, None,
          e1, e2, u1, u2, full, narrow, bulk, lone, open

VARIABLES part, rows, lock, rpc, call, copy, expired, changeLog, begun

\* Two actions have keys of their own, a third one shares its key with the
\* first, as "a:b" and "a_b" do.
MCLockKey == (a1 :> k1) @@ (a2 :> k2) @@ (a3 :> k1)

Automatic(acts) == [risk_class |-> "RC-1", status |-> "auto_approved", actions |-> acts]

\* Plans that take the two keys in both orders, one with a clashing name, and
\* one for each way in which execute_plan returns without a lock.
MCPlans ==
    {Automatic(<<a1, a2>>), Automatic(<<a2, a3>>), Automatic(<<a3>>),
     [risk_class |-> "RC-1", status |-> "pending_approval", actions |-> <<a1>>],
     [risk_class |-> "RC-2", status |-> "pending_approval", actions |-> <<a1>>],
     [risk_class |-> "RC-4", status |-> "blocked", actions |-> <<>>]}

\* Three kinds of request (read-only, supervised, bulk with and without its
\* snapshot), and records that fit, that are too narrow, of the wrong class,
\* unlimited, and with and without a quorum.
Bulk(snapshot) == [action_class |-> "AC-010", targets |-> {e1}, snapshot_exists |-> snapshot]
MCSpecs ==
    {[action_class |-> "AC-001", targets |-> {}, snapshot_exists |-> FALSE],
     [action_class |-> "AC-003", targets |-> {e1, e2}, snapshot_exists |-> FALSE],
     Bulk(TRUE), Bulk(FALSE)}

MCRecordOf ==
    [a \in Records |->
        CASE a = full   -> [action_class |-> "AC-003", scope |-> {e1, e2}, approvers |-> {u1}]
          [] a = narrow -> [action_class |-> "AC-003", scope |-> {e1}, approvers |-> {u1, u2}]
          [] a = bulk   -> [action_class |-> "AC-010", scope |-> {e1, e2}, approvers |-> {u1, u2}]
          [] a = lone   -> [action_class |-> "AC-010", scope |-> {e1}, approvers |-> {u1}]
          [] a = open   -> [action_class |-> "AC-003", scope |-> {}, approvers |-> {u1}]]

Mediated == INSTANCE ActionRequest WITH pc <- rpc

ASSUME RequestAssumption ==
    /\ \A s \in Specs : s.action_class \in Mediated!ActionClasses /\ s.snapshot_exists \in BOOLEAN
    /\ \A a \in Records : RecordOf[a].action_class \in Mediated!ActionClasses
    /\ None \notin Records \cup Sessions

requestVars == <<rows, lock, rpc, call, copy, expired, changeLog, begun>>

MCInit == part \in {"plans", "serial", "racing"} /\ Init /\ Mediated!Init

OneCaller  == \A x, y \in Sessions : rpc'[x] # "idle" /\ rpc'[y] # "idle" => x = y
\* Records expire independently: one that does and four that do not show it.
OneExpired == Cardinality(expired') <= 1
OneRequest == Cardinality({q \in Requests : rows'[q].status # "absent"}) <= 1

MCNext == /\ UNCHANGED part
          /\ \/ part = "plans" /\ Next /\ UNCHANGED requestVars
             \/ part = "serial" /\ Mediated!Next /\ OneExpired /\ OneCaller /\ UNCHANGED vars
             \/ part = "racing" /\ Mediated!Next /\ OneExpired /\ OneRequest /\ UNCHANGED vars

MCSpec == MCInit /\ [][MCNext]_<<part, vars, requestVars>>

Symmetry == Permutations(Workers) \cup Permutations(Requests) \cup Permutations(Sessions)

-----------------------------------------------------------------------------
\* With one caller at a time, every request goes through the life that
\* RequestLifecycle describes: the transition methods check what they change.
Lifecycle == INSTANCE RequestLifecycle
                WITH status <- [q \in Requests |-> IF part = "serial" THEN rows[q].status ELSE "absent"]

ImplementsLifecycle == Lifecycle!Spec

\* ActionRequest: whoever races, what is executed was approved.
ExecutionIsApproved == Mediated!TypeOK /\ Mediated!ExecutionIsApproved

\* ActionRequest: the trace of an execution is written for what was executed, and
\* with one caller at a time for everything that was completed.
TraceSound == Mediated!TraceMeansExecuted /\ (part = "serial" => Mediated!TraceIffCompleted)
=============================================================================
