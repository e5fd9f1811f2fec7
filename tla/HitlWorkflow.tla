---------------------------- MODULE HitlWorkflow ----------------------------
(***************************************************************************)
(* The human-in-the-loop review queue, table governance.hitl_item, as      *)
(* governance/hitl_workflow.py and api/routers/hitl.py drive it.           *)
(*                                                                         *)
(* Reviewers' requests and the escalation sweeps of the API worker         *)
(* processes run concurrently, each in a database transaction of its own   *)
(* (PostgreSQL, READ COMMITTED): an UPDATE locks the rows it changes, an   *)
(* UPDATE of a locked row waits and then judges its WHERE clause on the    *)
(* committed row, and nothing is visible before COMMIT.                    *)
(***************************************************************************)
EXTENDS Integers, FiniteSets, Sequences

CONSTANTS
    Items,            \* item ids that may be submitted
    Reviewers,        \* reviewers, each with at most one request under way
    Sweepers,         \* API worker processes, each running _escalation_loop
    Requests,         \* item_data: the risk class and the LLM's suggestion
    None,             \* no lock holder / no reviewer
    MaxEscalations,   \* _MAX_ESCALATIONS
    FeedbackMayFail,  \* may _record_feedback raise?
    MaxFaults         \* bound on failures (lost transactions, failed feedback)

RiskClasses == {"RC-1", "RC-2", "RC-3", "RC-4"}

\* llm_suggestion.get("decision"), "none" when there is no such key.
Suggestions == {"none", "approved", "rejected"}

ASSUME HitlAssumption ==
    /\ Requests \subseteq [risk_class : RiskClasses, llm : Suggestions]
    /\ None \notin Reviewers \cup Sweepers
    /\ Reviewers \cap Sweepers = {}
    /\ MaxEscalations \in Nat \ {0}
    /\ FeedbackMayFail \in BOOLEAN
    /\ MaxFaults \in Nat

VARIABLES
    items,      \* committed rows
    lock,       \* row -> the transaction that holds its row lock, or None
    dirty,      \* row -> its uncommitted version, while it is locked
    pc,         \* transaction -> where its handler is
    work,       \* transaction -> rows it still has to visit
    ask,        \* reviewer -> the decision asked for
    overdue,    \* rows older than the threshold of their risk class
    feedback,   \* row -> committed rows of governance.hitl_feedback
    accepted,   \* decisions reported to their reviewer as taken
    faults      \* failures so far

vars == <<items, lock, dirty, pc, work, ask, overdue, feedback, accepted, faults>>

-----------------------------------------------------------------------------
OpenStatus == {"pending", "escalated"}
Decisions  == {"approved", "rejected", "approved_with_modifications"}
Statuses   == {"absent", "blocked"} \cup OpenStatus \cup Decisions

Row == [status : Statuses, risk_class : RiskClasses, escalation_count : Nat,
        decided_by : Reviewers \cup {None}, llm : Suggestions]

Absent == [status |-> "absent", risk_class |-> "RC-2", escalation_count |-> 0,
           decided_by |-> None, llm |-> "none"]

IsOpen(i) == items[i].status \in OpenStatus

Tx == Reviewers \cup Sweepers

\* COMMIT and ROLLBACK of everything transaction t has changed.
Committed(t)  == [i \in Items |-> IF lock[i] = t THEN dirty[i] ELSE items[i]]
Unlocked(t)   == [i \in Items |-> IF lock[i] = t THEN None ELSE lock[i]]
Discarded(t)  == [i \in Items |-> IF lock[i] = t THEN Absent ELSE dirty[i]]

-----------------------------------------------------------------------------
Init ==
    /\ items    = [i \in Items |-> Absent]
    /\ lock     = [i \in Items |-> None]
    /\ dirty    = [i \in Items |-> Absent]
    /\ pc       = [t \in Tx |-> "idle"]
    /\ work     = [t \in Tx |-> {}]
    /\ ask      = [r \in Reviewers |-> "approved"]
    /\ overdue  = {}
    /\ feedback = [i \in Items |-> <<>>]
    /\ accepted = {}
    /\ faults   = 0

\* submit: INSERT and COMMIT.  Nobody knows the fresh item_id before the
\* commit, so the transaction is one step.
Submit(i, q) ==
    /\ items[i].status = "absent"
    /\ items' = [items EXCEPT ![i] = [Absent EXCEPT !.status = "pending",
                                          !.risk_class = q.risk_class, !.llm = q.llm]]
    /\ UNCHANGED <<lock, dirty, pc, work, ask, overdue, feedback, accepted, faults>>

\* The wall clock passes created_at + threshold.
BecomeOverdue(i) ==
    /\ IsOpen(i)
    /\ i \notin overdue
    /\ overdue' = overdue \cup {i}
    /\ UNCHANGED <<items, lock, dirty, pc, work, ask, feedback, accepted, faults>>

-----------------------------------------------------------------------------
\* approve / reject / modify: one request about one item.
DecideBegin(r, i, d) ==
    /\ pc[r] = "idle"
    /\ pc'   = [pc EXCEPT ![r] = "deciding"]
    /\ work' = [work EXCEPT ![r] = {i}]
    /\ ask'  = [ask EXCEPT ![r] = d]
    /\ UNCHANGED <<items, lock, dirty, overdue, feedback, accepted, faults>>

\* bulk_decide: SELECT the eligible ids, then decide them one by one; the
\* list is not read again.  No eligible id is an error 400.
BulkEligible(ids) ==
    {i \in ids : items[i].risk_class \in {"RC-1", "RC-2"} /\ IsOpen(i)}

BulkBegin(r, ids, d) ==
    /\ pc[r] = "idle"
    /\ d \in {"approved", "rejected"}
    /\ BulkEligible(ids) # {}
    /\ pc'   = [pc EXCEPT ![r] = "deciding"]
    /\ work' = [work EXCEPT ![r] = BulkEligible(ids)]
    /\ ask'  = [ask EXCEPT ![r] = d]
    /\ UNCHANGED <<items, lock, dirty, overdue, feedback, accepted, faults>>

\* Mutant: the UPDATE of _decide without "AND status IN (...)".
DecideUpdate_AnyStatus(r, i) ==
    /\ pc[r] = "deciding"
    /\ i \in work[r]
    /\ lock[i] = None
    /\ items[i].status # "absent"
    /\ lock'  = [lock EXCEPT ![i] = r]
    /\ dirty' = [dirty EXCEPT ![i] = [items[i] EXCEPT
                     !.status = ask[r], !.decided_by = r]]
    /\ work'  = [work EXCEPT ![r] = @ \ {i}]
    /\ pc'    = [pc EXCEPT ![r] = "updated"]
    /\ UNCHANGED <<items, ask, overdue, feedback, accepted, faults>>

\* _decide: the UPDATE finds the row open, changes and locks it.
DecideUpdate(r, i) ==
    /\ pc[r] = "deciding"
    /\ i \in work[r]
    /\ lock[i] = None
    /\ IsOpen(i)
    /\ lock'  = [lock EXCEPT ![i] = r]
    /\ dirty' = [dirty EXCEPT ![i] = [items[i] EXCEPT
                     !.status = ask[r], !.decided_by = r]]
    /\ work'  = [work EXCEPT ![r] = @ \ {i}]
    /\ pc'    = [pc EXCEPT ![r] = "updated"]
    /\ UNCHANGED <<items, ask, overdue, feedback, accepted, faults>>

\* _decide: the UPDATE matches no row (unknown, decided or blocked): False.
DecideRefused(r, i) ==
    /\ pc[r] = "deciding"
    /\ i \in work[r]
    /\ lock[i] = None
    /\ ~IsOpen(i)
    /\ work' = [work EXCEPT ![r] = @ \ {i}]
    /\ pc'   = [pc EXCEPT ![r] = IF work[r] \ {i} = {} THEN "idle" ELSE @]
    /\ UNCHANGED <<items, lock, dirty, ask, overdue, feedback, accepted, faults>>

\* _record_feedback inserts its row in the same transaction ...
RecordFeedback(r) ==
    /\ pc[r] = "updated"
    /\ pc' = [pc EXCEPT ![r] = "recorded"]
    /\ UNCHANGED <<items, lock, dirty, work, ask, overdue, feedback, accepted, faults>>

\* ... or raises: before the statement reaches the server, which skips it, or
\* because the server rejects it, which aborts the transaction.  _decide
\* catches and logs the exception either way.
FeedbackError(r) ==
    /\ FeedbackMayFail
    /\ faults < MaxFaults
    /\ pc[r] = "updated"
    /\ \E outcome \in {"skipped", "aborted"} : pc' = [pc EXCEPT ![r] = outcome]
    /\ faults' = faults + 1
    /\ UNCHANGED <<items, lock, dirty, work, ask, overdue, feedback, accepted>>

\* Mutant: agreement computed without the test for a missing suggestion.
FeedbackRow_NoSuggestion(row) ==
    [decision  |-> row.status,
     agreement |-> IF row.llm = row.status THEN "true" ELSE "false"]

\* The row _record_feedback writes: agreement is NULL without a suggestion.
FeedbackRow(row) ==
    [decision  |-> row.status,
     agreement |-> IF row.llm = "none" THEN "unknown"
                   ELSE IF row.llm = row.status THEN "true" ELSE "false"]

\* After a decision: the response goes out, or the bulk loop goes on.
Report(r) ==
    /\ accepted' = accepted \cup
           {[item |-> i, by |-> r, decision |-> ask[r]] :
                i \in {j \in Items : lock[j] = r}}
    /\ pc' = [pc EXCEPT ![r] = IF work[r] = {} THEN "idle" ELSE "deciding"]

\* _decide: COMMIT, return True.
CommitDecision(r) ==
    /\ pc[r] \in {"recorded", "skipped"}
    /\ items'    = Committed(r)
    /\ feedback' = [i \in Items |-> IF lock[i] = r /\ pc[r] = "recorded"
                                   THEN Append(feedback[i], FeedbackRow(dirty[i]))
                                   ELSE feedback[i]]
    /\ lock'     = Unlocked(r)
    /\ dirty'    = Discarded(r)
    /\ Report(r)
    /\ UNCHANGED <<work, ask, overdue, faults>>

\* _decide: COMMIT of an aborted transaction, which PostgreSQL answers with a
\* ROLLBACK and no error; _decide still returns True.
CommitAborted(r) ==
    /\ pc[r] = "aborted"
    /\ lock' = Unlocked(r)
    /\ dirty'= Discarded(r)
    /\ Report(r)
    /\ UNCHANGED <<items, work, ask, overdue, feedback, faults>>

-----------------------------------------------------------------------------
\* Mutants: the last escalation writes a status of its own that the CHECK
\* constraint does not know; ">" for ">=" in the CASE.
EscalatedRow_Expired(row) ==
    [row EXCEPT !.escalation_count = @ + 1,
                !.status = IF row.escalation_count + 1 >= MaxEscalations
                           THEN "expired" ELSE "escalated"]

EscalatedRow_OffByOne(row) ==
    [row EXCEPT !.escalation_count = @ + 1,
                !.status = IF row.escalation_count + 1 > MaxEscalations
                           THEN "blocked" ELSE "escalated"]

\* The escalation both escalate and check_escalations write.
EscalatedRow(row) ==
    [row EXCEPT !.escalation_count = @ + 1,
                !.status = IF row.escalation_count + 1 >= MaxEscalations
                           THEN "blocked" ELSE "escalated"]

\* escalate: one UPDATE and COMMIT of one row; nobody sees the row between.
Escalate(i) ==
    /\ lock[i] = None
    /\ IsOpen(i)
    /\ items' = [items EXCEPT ![i] = EscalatedRow(@)]
    /\ UNCHANGED <<lock, dirty, pc, work, ask, overdue, feedback, accepted, faults>>

\* Mutant: the sweep stops one escalation early.
Due_OffByOne(i, rc) ==
    /\ items[i].risk_class = rc
    /\ IsOpen(i)
    /\ i \in overdue
    /\ items[i].escalation_count < MaxEscalations - 1

\* The WHERE clause of check_escalations for risk class rc.
Due(i, rc) ==
    /\ items[i].risk_class = rc
    /\ IsOpen(i)
    /\ i \in overdue
    /\ items[i].escalation_count < MaxEscalations

\* check_escalations visits _ESCALATION_THRESHOLDS in order (RC-1 has no
\* threshold): rc is the class of its next UPDATE.
NextClass(w, rc) ==
    \/ pc[w] = "idle" /\ rc = "RC-4"
    \/ pc[w] = "RC-4" /\ rc = "RC-3"
    \/ pc[w] = "RC-3" /\ rc = "RC-2"

\* check_escalations: the UPDATE of one risk class takes its snapshot.
SweepClass(w, rc) ==
    /\ NextClass(w, rc)
    /\ work[w] = {}
    /\ pc'   = [pc EXCEPT ![w] = rc]
    /\ work' = [work EXCEPT ![w] = {i \in Items : Due(i, rc)}]
    /\ UNCHANGED <<items, lock, dirty, ask, overdue, feedback, accepted, faults>>

\* Mutant: the ids are SELECTed first and updated later without the test of
\* their status.
SweepRow_StaleIds(w, i) ==
    /\ i \in work[w]
    /\ lock[i] = None
    /\ work' = [work EXCEPT ![w] = @ \ {i}]
    /\ IF items[i].escalation_count < MaxEscalations
       THEN /\ lock'  = [lock EXCEPT ![i] = w]
            /\ dirty' = [dirty EXCEPT ![i] = EscalatedRow(items[i])]
       ELSE UNCHANGED <<lock, dirty>>
    /\ UNCHANGED <<items, pc, ask, overdue, feedback, accepted, faults>>

\* The UPDATE reaches one row of its snapshot, waits for the row lock and
\* looks at the committed row again.
SweepRow(w, i) ==
    /\ i \in work[w]
    /\ lock[i] = None
    /\ work' = [work EXCEPT ![w] = @ \ {i}]
    /\ IF Due(i, pc[w])
       THEN /\ lock'  = [lock EXCEPT ![i] = w]
            /\ dirty' = [dirty EXCEPT ![i] = EscalatedRow(items[i])]
       ELSE UNCHANGED <<lock, dirty>>
    /\ UNCHANGED <<items, pc, ask, overdue, feedback, accepted, faults>>

\* check_escalations: COMMIT (nothing was changed when nothing is locked).
SweepCommit(w) ==
    /\ pc[w] = "RC-2"
    /\ work[w] = {}
    /\ items' = Committed(w)
    /\ lock'  = Unlocked(w)
    /\ dirty' = Discarded(w)
    /\ pc'    = [pc EXCEPT ![w] = "idle"]
    /\ UNCHANGED <<work, ask, overdue, feedback, accepted, faults>>

-----------------------------------------------------------------------------
\* A transaction that ends without COMMIT: the process or its connection
\* dies, the client disconnects, or PostgreSQL breaks a deadlock of two
\* sweeps by cancelling one (its loop logs "sweep failed").
Rollback(t) ==
    /\ faults < MaxFaults
    /\ pc[t] # "idle"
    /\ lock'   = Unlocked(t)
    /\ dirty'  = Discarded(t)
    /\ pc'     = [pc EXCEPT ![t] = "idle"]
    /\ work'   = [work EXCEPT ![t] = {}]
    /\ faults' = faults + 1
    /\ UNCHANGED <<items, ask, overdue, feedback, accepted>>

\* Transactions u and v each wait for a row the other has locked.
WaitsFor(u, v) == \E i \in work[u] : lock[i] = v

DeadlockVictim(w) ==
    /\ \E v \in Sweepers : WaitsFor(w, v) /\ WaitsFor(v, w)
    /\ lock' = Unlocked(w)
    /\ dirty'= Discarded(w)
    /\ pc'   = [pc EXCEPT ![w] = "idle"]
    /\ work' = [work EXCEPT ![w] = {}]
    /\ UNCHANGED <<items, ask, overdue, feedback, accepted, faults>>

-----------------------------------------------------------------------------
ReviewerStep(r) ==
    \/ \E i \in Items : DecideUpdate(r, i) \/ DecideRefused(r, i)
    \/ RecordFeedback(r)
    \/ FeedbackError(r)
    \/ CommitDecision(r)
    \/ CommitAborted(r)

SweeperStep(w) ==
    \/ \E rc \in RiskClasses : SweepClass(w, rc)
    \/ \E i \in Items : SweepRow(w, i)
    \/ SweepCommit(w)
    \/ DeadlockVictim(w)

Next ==
    \/ \E i \in Items, q \in Requests : Submit(i, q)
    \/ \E i \in Items : BecomeOverdue(i) \/ Escalate(i)
    \/ \E r \in Reviewers, i \in Items, d \in Decisions : DecideBegin(r, i, d)
    \/ \E r \in Reviewers, ids \in SUBSET Items, d \in Decisions : BulkBegin(r, ids, d)
    \/ \E r \in Reviewers : ReviewerStep(r)
    \/ \E w \in Sweepers : SweeperStep(w)
    \/ \E t \in Tx : Rollback(t)

\* A request under way is driven to its end by the event loop, and every API
\* worker sweeps again and again; nobody has to submit, decide or escalate.
\* PostgreSQL serves the waiters of a row lock first come first served, so a
\* sweep whose row is released again and again gets it: SF on SweepRow.
Fairness ==
    /\ \A r \in Reviewers : WF_vars(ReviewerStep(r))
    /\ \A w \in Sweepers : WF_vars(SweeperStep(w))
    /\ \A w \in Sweepers, i \in Items : SF_vars(SweepRow(w, i))
    /\ \A i \in Items : WF_vars(BecomeOverdue(i))

Spec == Init /\ [][Next]_vars

FairSpec == Spec /\ Fairness

-----------------------------------------------------------------------------
ReviewerStates == {"idle", "deciding", "updated", "recorded", "skipped", "aborted"}
SweeperStates  == {"idle", "RC-4", "RC-3", "RC-2"}

FeedbackRows == [decision : Decisions, agreement : {"unknown", "true", "false"}]

\* Every variable has its type: in particular the rows only ever hold the
\* statuses the CHECK constraint of migration 0011 allows.
TypeOK ==
    /\ items \in [Items -> Row]
    /\ lock \in [Items -> Tx \cup {None}]
    /\ dirty \in [Items -> Row]
    /\ pc \in [Tx -> ReviewerStates \cup SweeperStates]
    /\ \A r \in Reviewers : pc[r] \in ReviewerStates
    /\ \A w \in Sweepers : pc[w] \in SweeperStates
    /\ work \in [Tx -> SUBSET Items]
    /\ ask \in [Reviewers -> Decisions]
    /\ overdue \subseteq Items
    /\ feedback \in [Items -> Seq(FeedbackRows)]
    /\ accepted \subseteq [item : Items, by : Reviewers, decision : Decisions]
    /\ faults \in 0..MaxFaults

\* escalation_count and status never disagree, however manual escalations,
\* two concurrent sweeps, decisions and rollbacks interleave: a row is blocked
\* exactly when its escalations are used up, a pending row was never
\* escalated, an escalated one was, and the count never passes the maximum.
BlockedIffExhausted ==
    \A i \in Items :
        LET row == items[i] IN
        /\ row.escalation_count <= MaxEscalations
        /\ (row.status = "blocked") <=> (row.escalation_count = MaxEscalations)
        /\ row.status = "pending" => row.escalation_count = 0
        /\ row.status = "escalated" => row.escalation_count > 0

\* A decided or blocked row never changes again: a sweep or a second reviewer
\* that selected it while it was open does not touch it (the status test of
\* the UPDATEs in _decide, escalate and check_escalations).
TerminalRowsAreFinal ==
    [][\A i \in Items : items[i].status \in Decisions \cup {"blocked"}
                            => items'[i] = items[i]]_vars

\* A reviewer who was told that a decision was taken (_decide returned True)
\* finds exactly that decision, under their name, in the row forever: at most
\* one of several concurrent reviewers is told so, and no sweep undoes it.
AcceptedDecisionStands ==
    \A a \in accepted : /\ items[a.item].status = a.decision
                        /\ items[a.item].decided_by = a.by

\* The accuracy statistics count every decision once and judge it right:
\* a decided row has one feedback row, for that decision, which agrees exactly
\* when the LLM suggested it; an undecided row has none (_record_feedback).
FeedbackMatchesDecision ==
    \A i \in Items :
        feedback[i] = IF items[i].status \in Decisions
                      THEN <<[decision  |-> items[i].status,
                              agreement |-> CASE items[i].llm = "none" -> "unknown"
                                              [] items[i].llm = items[i].status -> "true"
                                              [] OTHER -> "false"]>>
                      ELSE <<>>

\* No item whose class has a threshold waits forever: it is decided, or the
\* sweeps escalate it until it is blocked (_escalation_loop, check_escalations).
EventuallyClosed ==
    \A i \in Items :
        (IsOpen(i) /\ items[i].risk_class # "RC-1") ~> ~IsOpen(i)
=============================================================================
