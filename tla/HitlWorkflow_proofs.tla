------------------------ MODULE HitlWorkflow_proofs ------------------------
(***************************************************************************)
(* Proofs about the review queue of HitlWorkflow, for any number of items, *)
(* reviewers and sweepers and any maximum of escalations.                  *)
(***************************************************************************)
EXTENDS HitlWorkflow, TLAPS

-----------------------------------------------------------------------------
\* The escalation of a row is a row (escalate, check_escalations).
LEMMA EscalatedRowType ==
    ASSUME NEW row \in Row
    PROVE  EscalatedRow(row) \in Row
  <1>1. row.escalation_count + 1 \in Nat
    BY DEF Row
  <1>2. \A n \in Nat, s \in Statuses :
           [row EXCEPT !.escalation_count = n, !.status = s] \in Row
    BY DEF Row
  <1>3. {"blocked", "escalated"} \subseteq Statuses
    BY DEF Statuses, OpenStatus
  <1> QED BY <1>1, <1>2, <1>3 DEF EscalatedRow

\* The feedback row of a decided row is well formed (_record_feedback).
LEMMA FeedbackRowType ==
    ASSUME NEW row \in Row, row.status \in Decisions
    PROVE  FeedbackRow(row) \in FeedbackRows
  BY DEF FeedbackRow, FeedbackRows, Row, Suggestions, Decisions

\* COMMIT, ROLLBACK and the release of the row locks keep the types.
LEMMA EndOfTransactionType ==
    ASSUME TypeOK, NEW t \in Tx
    PROVE  /\ Committed(t) \in [Items -> Row]
           /\ Unlocked(t) \in [Items -> Tx \cup {None}]
           /\ Discarded(t) \in [Items -> Row]
  <1>1. Absent \in Row
    BY DEF Absent, Row, Statuses, OpenStatus, RiskClasses, Suggestions
  <1> QED
    BY <1>1 DEF TypeOK, Committed, Unlocked, Discarded

\* What a transaction has locked and not committed (the row locks of the
\* UPDATEs in _decide and check_escalations): only open rows are locked, by a
\* transaction under way, and the uncommitted version is the decision asked
\* for, or one escalation, of the row as committed.
Held(i) ==
    /\ lock[i] \in Reviewers =>
           /\ pc[lock[i]] \in {"updated", "recorded", "skipped", "aborted"}
           /\ IsOpen(i)
           /\ dirty[i] = [items[i] EXCEPT !.status = ask[lock[i]],
                                          !.decided_by = lock[i]]
    /\ lock[i] \in Sweepers =>
           /\ pc[lock[i]] # "idle"
           /\ IsOpen(i)
           /\ dirty[i] = EscalatedRow(items[i])

LockInv == \A i \in Items : Held(i)

TypeLock == TypeOK /\ LockInv

-----------------------------------------------------------------------------
\* Every variable keeps its type, and a lock protects an open row.
LEMMA InitTypeLock == Init => TypeLock
  <1>1. Absent \in Row
    BY DEF Absent, Row, Statuses, OpenStatus, RiskClasses, Suggestions
  <1> QED
    BY <1>1, HitlAssumption DEF Init, TypeLock, TypeOK, LockInv, Held, ReviewerStates,
       SweeperStates, Tx, Decisions

\* Every step of a handler, of a sweep and of the database keeps the types.
LEMMA NextType ==
    ASSUME TypeLock, [Next]_vars
    PROVE  TypeOK'
  <1> USE DEF TypeLock
  <1>1. ASSUME NEW i \in Items, NEW q \in Requests, Submit(i, q)
        PROVE  TypeOK'
    <2>1. [Absent EXCEPT !.status = "pending", !.risk_class = q.risk_class, !.llm = q.llm]
             \in Row
      BY HitlAssumption DEF Absent, Row, Statuses, OpenStatus, Suggestions
    <2> QED BY <1>1, <2>1 DEF Submit, TypeOK
  <1>2. ASSUME NEW i \in Items, BecomeOverdue(i)
        PROVE  TypeOK'
    BY <1>2 DEF BecomeOverdue, TypeOK
  <1>3. ASSUME NEW i \in Items, Escalate(i)
        PROVE  TypeOK'
    <2>1. EscalatedRow(items[i]) \in Row
      BY EscalatedRowType DEF TypeOK
    <2> QED BY <1>3, <2>1 DEF Escalate, TypeOK
  <1>4. ASSUME NEW r \in Reviewers, NEW i \in Items, NEW d \in Decisions, DecideBegin(r, i, d)
        PROVE  TypeOK'
    BY <1>4, HitlAssumption DEF DecideBegin, TypeOK, Tx, ReviewerStates
  <1>5. ASSUME NEW r \in Reviewers, NEW ids \in SUBSET Items, NEW d \in Decisions,
               BulkBegin(r, ids, d)
        PROVE  TypeOK'
    BY <1>5, HitlAssumption DEF BulkBegin, BulkEligible, TypeOK, Tx, ReviewerStates
  <1>6. ASSUME NEW r \in Reviewers, NEW i \in Items, DecideUpdate(r, i)
        PROVE  TypeOK'
    <2>1. items[i] \in Row /\ ask[r] \in Statuses
      BY DEF TypeOK, Statuses
    <2>2. [items[i] EXCEPT !.status = ask[r], !.decided_by = r] \in Row
      BY <2>1 DEF Row
    <2> QED BY <1>6, <2>2, HitlAssumption DEF DecideUpdate, TypeOK, Tx, ReviewerStates
  <1>7. ASSUME NEW r \in Reviewers, NEW i \in Items, DecideRefused(r, i)
        PROVE  TypeOK'
    BY <1>7, HitlAssumption DEF DecideRefused, TypeOK, Tx, ReviewerStates
  <1>8. ASSUME NEW r \in Reviewers, RecordFeedback(r)
        PROVE  TypeOK'
    BY <1>8, HitlAssumption DEF RecordFeedback, TypeOK, Tx, ReviewerStates
  <1>9. ASSUME NEW r \in Reviewers, FeedbackError(r)
        PROVE  TypeOK'
    BY <1>9, HitlAssumption DEF FeedbackError, TypeOK, Tx, ReviewerStates
  <1>10. ASSUME NEW r \in Reviewers, Report(r)
         PROVE  /\ pc' \in [Tx -> ReviewerStates \cup SweeperStates]
                /\ \A s \in Reviewers : pc'[s] \in ReviewerStates
                /\ \A w \in Sweepers : pc'[w] \in SweeperStates
                /\ accepted' \subseteq [item : Items, by : Reviewers, decision : Decisions]
    BY <1>10, HitlAssumption DEF Report, TypeOK, Tx, ReviewerStates
  <1>11. ASSUME NEW r \in Reviewers, CommitDecision(r)
         PROVE  TypeOK'
    <2>1. r \in Tx
      BY DEF Tx
    <2>2. feedback' \in [Items -> Seq(FeedbackRows)]
      <3>1. ASSUME NEW i \in Items, lock[i] = r
            PROVE  FeedbackRow(dirty[i]) \in FeedbackRows
        <4>1. dirty[i] \in Row /\ ask[r] \in Decisions /\ items[i] \in Row
          BY DEF TypeOK
        <4>2. dirty[i].status \in Decisions
          BY <3>1, <4>1 DEF LockInv, Held, Row
        <4> QED BY <4>1, <4>2, FeedbackRowType
      <3> QED BY <1>11, <3>1 DEF CommitDecision, TypeOK
    <2> QED BY <1>10, <1>11, <2>1, <2>2, EndOfTransactionType DEF CommitDecision, TypeOK
  <1>12. ASSUME NEW r \in Reviewers, CommitAborted(r)
         PROVE  TypeOK'
    <2>1. r \in Tx
      BY DEF Tx
    <2> QED BY <1>10, <1>12, <2>1, EndOfTransactionType DEF CommitAborted, TypeOK
  <1>13. ASSUME NEW w \in Sweepers, NEW rc \in RiskClasses, SweepClass(w, rc)
         PROVE  TypeOK'
    BY <1>13, HitlAssumption DEF SweepClass, NextClass, TypeOK, Tx, SweeperStates
  <1>14. ASSUME NEW w \in Sweepers, NEW i \in Items, SweepRow(w, i)
         PROVE  TypeOK'
    <2>1. EscalatedRow(items[i]) \in Row
      BY EscalatedRowType DEF TypeOK
    <2> QED BY <1>14, <2>1 DEF SweepRow, TypeOK, Tx
  <1>15. ASSUME NEW w \in Sweepers, SweepCommit(w)
         PROVE  TypeOK'
    <2>1. w \in Tx
      BY DEF Tx
    <2> QED BY <1>15, <2>1, EndOfTransactionType, HitlAssumption
            DEF SweepCommit, TypeOK, ReviewerStates, SweeperStates
  <1>16. ASSUME NEW w \in Sweepers, DeadlockVictim(w)
         PROVE  TypeOK'
    <2>1. w \in Tx
      BY DEF Tx
    <2> QED BY <1>16, <2>1, EndOfTransactionType
            DEF DeadlockVictim, TypeOK, ReviewerStates, SweeperStates
  <1>17. ASSUME NEW t \in Tx, Rollback(t)
         PROVE  TypeOK'
    BY <1>17, EndOfTransactionType, HitlAssumption
       DEF Rollback, TypeOK, ReviewerStates, SweeperStates
  <1>18. CASE UNCHANGED vars
    BY <1>18 DEF vars, TypeOK
  <1> QED
    BY <1>1, <1>2, <1>3, <1>4, <1>5, <1>6, <1>7, <1>8, <1>9, <1>11, <1>12, <1>13, <1>14,
       <1>15, <1>16, <1>17, <1>18 DEF Next, ReviewerStep, SweeperStep

\* Every step keeps the lock invariant: a lock is taken on an open row, and the
\* row cannot change before the transaction that holds it ends.
LEMMA NextLock ==
    ASSUME TypeLock, [Next]_vars
    PROVE  LockInv'
  <1> USE DEF TypeLock
  <1> SUFFICES ASSUME NEW j \in Items
               PROVE  Held(j)'
    BY DEF LockInv
  <1>0. Held(j) /\ lock[j] \in Tx \cup {None} /\ Reviewers \cap Sweepers = {}
    BY HitlAssumption DEF LockInv, TypeOK
  <1>1. ASSUME NEW i \in Items, NEW q \in Requests, Submit(i, q)
        PROVE  Held(j)'
    BY <1>0, <1>1 DEF Submit, Held, IsOpen, OpenStatus, TypeOK
  <1>2. ASSUME NEW i \in Items, BecomeOverdue(i)
        PROVE  Held(j)'
    BY <1>0, <1>2 DEF BecomeOverdue, Held, IsOpen
  <1>3. ASSUME NEW i \in Items, Escalate(i)
        PROVE  Held(j)'
    BY <1>0, <1>3, HitlAssumption DEF Escalate, Held, IsOpen, TypeOK
  <1>4. ASSUME NEW r \in Reviewers, NEW i \in Items, NEW d \in Decisions, DecideBegin(r, i, d)
        PROVE  Held(j)'
    <2>1. lock[j] # r
      BY <1>0, <1>4 DEF DecideBegin, Held
    <2>2. lock[j] \in Tx => pc'[lock[j]] = pc[lock[j]]
      BY <1>4, <2>1 DEF DecideBegin, TypeOK
    <2>3. lock[j] \in Reviewers => ask'[lock[j]] = ask[lock[j]]
      BY <1>4, <2>1 DEF DecideBegin, TypeOK
    <2> QED BY <1>0, <1>4, <2>1, <2>2, <2>3 DEF DecideBegin, Held, IsOpen, Tx
  <1>5. ASSUME NEW r \in Reviewers, NEW ids \in SUBSET Items, NEW d \in Decisions,
               BulkBegin(r, ids, d)
        PROVE  Held(j)'
    <2>1. lock[j] # r
      BY <1>0, <1>5 DEF BulkBegin, Held
    <2>2. lock[j] \in Tx => pc'[lock[j]] = pc[lock[j]]
      BY <1>5, <2>1 DEF BulkBegin, TypeOK
    <2>3. lock[j] \in Reviewers => ask'[lock[j]] = ask[lock[j]]
      BY <1>5, <2>1 DEF BulkBegin, TypeOK
    <2> QED BY <1>0, <1>5, <2>1, <2>2, <2>3 DEF BulkBegin, Held, IsOpen, Tx
  <1>6. ASSUME NEW r \in Reviewers, NEW i \in Items, DecideUpdate(r, i)
        PROVE  Held(j)'
    BY <1>0, <1>6 DEF DecideUpdate, Held, IsOpen, TypeOK, Tx
  <1>7. ASSUME NEW r \in Reviewers, NEW i \in Items, DecideRefused(r, i)
        PROVE  Held(j)'
    BY <1>0, <1>7 DEF DecideRefused, Held, IsOpen, TypeOK
  <1>8. ASSUME NEW r \in Reviewers, RecordFeedback(r)
        PROVE  Held(j)'
    BY <1>0, <1>8 DEF RecordFeedback, Held, IsOpen, TypeOK, Tx
  <1>9. ASSUME NEW r \in Reviewers, FeedbackError(r)
        PROVE  Held(j)'
    BY <1>0, <1>9 DEF FeedbackError, Held, IsOpen, TypeOK, Tx
  <1>10. ASSUME NEW r \in Reviewers, CommitDecision(r)
         PROVE  Held(j)'
    BY <1>0, <1>10, HitlAssumption
       DEF CommitDecision, Report, Committed, Unlocked, Discarded, Held, IsOpen, TypeOK
  <1>11. ASSUME NEW r \in Reviewers, CommitAborted(r)
         PROVE  Held(j)'
    BY <1>0, <1>11, HitlAssumption
       DEF CommitAborted, Report, Unlocked, Discarded, Held, IsOpen, TypeOK
  <1>12. ASSUME NEW w \in Sweepers, NEW rc \in RiskClasses, SweepClass(w, rc)
         PROVE  Held(j)'
    BY <1>0, <1>12 DEF SweepClass, NextClass, Held, IsOpen, TypeOK, Tx
  <1>13. ASSUME NEW w \in Sweepers, NEW i \in Items, SweepRow(w, i)
         PROVE  Held(j)'
    <2>1. CASE Due(i, pc[w])
      <3>1. pc[w] # "idle"
        BY <2>1 DEF Due, TypeOK, Row, RiskClasses
      <3>2. /\ UNCHANGED <<items, pc, ask>> /\ IsOpen(i)
            /\ lock' = [lock EXCEPT ![i] = w] /\ dirty' = [dirty EXCEPT ![i] = EscalatedRow(items[i])]
        BY <1>13, <2>1 DEF SweepRow, Due
      <3>3. CASE j = i
        <4>1. lock'[j] = w /\ dirty'[j] = EscalatedRow(items[j])
          BY <3>2, <3>3 DEF TypeOK
        <4> QED BY <1>0, <3>1, <3>2, <3>3, <4>1 DEF Held, IsOpen
      <3>4. CASE j # i
        <4>1. lock'[j] = lock[j] /\ dirty'[j] = dirty[j]
          BY <3>2, <3>4 DEF TypeOK
        <4> QED BY <1>0, <3>2, <4>1 DEF Held, IsOpen
      <3> QED BY <3>3, <3>4
    <2>2. CASE ~Due(i, pc[w])
      BY <1>0, <1>13, <2>2 DEF SweepRow, Held, IsOpen
    <2> QED BY <2>1, <2>2
  <1>14. ASSUME NEW w \in Sweepers, SweepCommit(w)
         PROVE  Held(j)'
    BY <1>0, <1>14, HitlAssumption
       DEF SweepCommit, Committed, Unlocked, Discarded, Held, IsOpen, TypeOK
  <1>15. ASSUME NEW w \in Sweepers, DeadlockVictim(w)
         PROVE  Held(j)'
    BY <1>0, <1>15, HitlAssumption
       DEF DeadlockVictim, Unlocked, Discarded, Held, IsOpen, TypeOK
  <1>16. ASSUME NEW t \in Tx, Rollback(t)
         PROVE  Held(j)'
    BY <1>0, <1>16, HitlAssumption DEF Rollback, Unlocked, Discarded, Held, IsOpen, TypeOK
  <1>17. CASE UNCHANGED vars
    BY <1>0, <1>17 DEF vars, Held, IsOpen
  <1> QED
    BY <1>1, <1>2, <1>3, <1>4, <1>5, <1>6, <1>7, <1>8, <1>9, <1>10, <1>11, <1>12, <1>13,
       <1>14, <1>15, <1>16, <1>17 DEF Next, ReviewerStep, SweeperStep

\* The inductive invariant: types, and what the row locks protect.
THEOREM TypeLockInvariant == Spec => []TypeLock
  <1>1. TypeLock /\ [Next]_vars => TypeLock'
    BY NextType, NextLock DEF TypeLock
  <1> QED BY InitTypeLock, <1>1, PTL DEF Spec

\* Type correctness of the queue: in particular the rows only ever hold the
\* statuses of the table's CHECK constraint.
THEOREM TypeCorrect == Spec => []TypeOK
  BY TypeLockInvariant, PTL DEF TypeLock

-----------------------------------------------------------------------------
\* What one step of anybody may do to a committed row.
RowStep(old, new) ==
    \/ new = old
    \/ old.status = "absent" /\ new.status = "pending" /\ new.escalation_count = 0
    \/ old.status \in OpenStatus /\ new = EscalatedRow(old)
    \/ /\ old.status \in OpenStatus
       /\ \E d \in Decisions, r \in Reviewers :
              new = [old EXCEPT !.status = d, !.decided_by = r]

\* Each step changes each committed row as one of the handlers says: the
\* status a handler read when it took the lock still holds when it commits.
LEMMA NextRow ==
    ASSUME TypeLock, [Next]_vars, NEW j \in Items
    PROVE  RowStep(items[j], items'[j])
  <1> USE DEF TypeLock
  <1>0. Held(j) /\ lock[j] \in Tx \cup {None} /\ Reviewers \cap Sweepers = {}
    BY HitlAssumption DEF LockInv, TypeOK
  <1>1. ASSUME NEW i \in Items, NEW q \in Requests, Submit(i, q)
        PROVE  RowStep(items[j], items'[j])
    BY <1>1 DEF Submit, RowStep, Absent, TypeOK
  <1>2. ASSUME NEW i \in Items, Escalate(i)
        PROVE  RowStep(items[j], items'[j])
    BY <1>2 DEF Escalate, RowStep, IsOpen, TypeOK
  <1>3. ASSUME NEW r \in Reviewers, CommitDecision(r)
        PROVE  RowStep(items[j], items'[j])
    <2>1. CASE lock[j] = r
      <3>1. items'[j] = [items[j] EXCEPT !.status = ask[r], !.decided_by = r]
        BY <1>0, <1>3, <2>1 DEF CommitDecision, Committed, Held
      <3>2. IsOpen(j) /\ ask[r] \in Decisions
        BY <1>0, <2>1 DEF Held, TypeOK
      <3> QED BY <3>1, <3>2 DEF RowStep, IsOpen
    <2>2. CASE lock[j] # r
      BY <1>3, <2>2 DEF CommitDecision, Committed, RowStep
    <2> QED BY <2>1, <2>2
  <1>4. ASSUME NEW w \in Sweepers, SweepCommit(w)
        PROVE  RowStep(items[j], items'[j])
    BY <1>0, <1>4 DEF SweepCommit, Committed, Held, IsOpen, RowStep
  <1>5. ASSUME items' = items
        PROVE  RowStep(items[j], items'[j])
    BY <1>5 DEF RowStep
  <1>6. items' = items \/ (\E i \in Items, q \in Requests : Submit(i, q))
            \/ (\E i \in Items : Escalate(i)) \/ (\E r \in Reviewers : CommitDecision(r))
            \/ (\E w \in Sweepers : SweepCommit(w))
    BY DEF Next, ReviewerStep, SweeperStep, vars, BecomeOverdue, DecideBegin, BulkBegin,
       DecideUpdate, DecideRefused, RecordFeedback, FeedbackError, CommitAborted,
       SweepClass, SweepRow, DeadlockVictim, Rollback
  <1> QED BY <1>1, <1>2, <1>3, <1>4, <1>5, <1>6

\* Decided and blocked rows never change again (the status tests of the
\* UPDATEs, under any interleaving of reviewers, sweeps and rollbacks).
THEOREM RowsAreFinal == Spec => TerminalRowsAreFinal
  <1>1. TypeLock /\ [Next]_vars =>
            [\A i \in Items : items[i].status \in Decisions \cup {"blocked"}
                                  => items'[i] = items[i]]_vars
    <2> SUFFICES ASSUME TypeLock, [Next]_vars, NEW i \in Items,
                        items[i].status \in Decisions \cup {"blocked"}
                 PROVE  items'[i] = items[i]
      OBVIOUS
    <2> QED BY NextRow DEF RowStep, OpenStatus, Decisions
  <1> QED BY TypeLockInvariant, <1>1, PTL DEF Spec, TerminalRowsAreFinal

\* escalation_count and status of a row agree.
Consistent(row) ==
    /\ row.escalation_count <= MaxEscalations
    /\ (row.status = "blocked") <=> (row.escalation_count = MaxEscalations)
    /\ row.status = "pending" => row.escalation_count = 0
    /\ row.status = "escalated" => row.escalation_count > 0

\* What a committed step may do to a row keeps its count and status agreeing
\* (the CASE of escalate and check_escalations).
LEMMA RowStepConsistent ==
    ASSUME NEW old \in Row, NEW new \in Row, Consistent(old), RowStep(old, new)
    PROVE  Consistent(new)
  <1> USE HitlAssumption
  <1>1. CASE new = old
    BY <1>1
  <1>2. CASE old.status = "absent" /\ new.status = "pending" /\ new.escalation_count = 0
    BY <1>2 DEF Consistent
  <1>3. CASE old.status \in OpenStatus /\ new = EscalatedRow(old)
    <2>1. old.escalation_count \in Nat /\ old.escalation_count < MaxEscalations
      BY <1>3 DEF Consistent, OpenStatus, Row
    <2>2. /\ new.escalation_count = old.escalation_count + 1
          /\ new.status = IF old.escalation_count + 1 >= MaxEscalations
                          THEN "blocked" ELSE "escalated"
      BY <1>3 DEF EscalatedRow, Row
    <2> QED BY <2>1, <2>2 DEF Consistent
  <1>4. ASSUME old.status \in OpenStatus, NEW d \in Decisions, NEW r \in Reviewers,
               new = [old EXCEPT !.status = d, !.decided_by = r]
        PROVE  Consistent(new)
    <2>1. old.escalation_count \in Nat /\ old.escalation_count < MaxEscalations
      BY <1>4 DEF Consistent, OpenStatus, Row
    <2>2. new.escalation_count = old.escalation_count /\ new.status = d
      BY <1>4 DEF Row
    <2> QED BY <2>1, <2>2 DEF Consistent, Decisions
  <1> QED BY <1>1, <1>2, <1>3, <1>4 DEF RowStep

\* A row is blocked exactly when its escalations are used up, for every
\* maximum and every interleaving of manual and automatic escalations.
THEOREM EscalationsConsistent == Spec => []BlockedIffExhausted
  <1>0. BlockedIffExhausted <=> \A i \in Items : Consistent(items[i])
    BY DEF BlockedIffExhausted, Consistent
  <1>1. Init => BlockedIffExhausted
    BY HitlAssumption DEF Init, Absent, BlockedIffExhausted
  <1>2. TypeLock /\ TypeLock' /\ BlockedIffExhausted /\ [Next]_vars => BlockedIffExhausted'
    <2> SUFFICES ASSUME TypeLock, TypeLock', BlockedIffExhausted, [Next]_vars,
                        NEW i \in Items
                 PROVE  Consistent(items'[i])
      BY DEF BlockedIffExhausted, Consistent
    <2>1. items[i] \in Row /\ items'[i] \in Row
      BY DEF TypeLock, TypeOK
    <2>2. Consistent(items[i])
      BY <1>0
    <2> QED BY <2>1, <2>2, NextRow, RowStepConsistent
  <1> QED BY TypeLockInvariant, <1>1, <1>2, PTL DEF Spec

-----------------------------------------------------------------------------
\* While _record_feedback does not raise, no decision is ever aborted or
\* committed without its feedback row.
NoFeedbackError == \A r \in Reviewers : pc[r] \notin {"skipped", "aborted"}

\* Only an error of _record_feedback leads to an aborted or skipped feedback.
LEMMA NextNoFeedbackError ==
    ASSUME FeedbackMayFail = FALSE, TypeLock, NoFeedbackError, [Next]_vars
    PROVE  NoFeedbackError'
  <1> USE HitlAssumption DEF TypeLock, TypeOK, NoFeedbackError, Tx
  <1>1. ASSUME NEW r \in Reviewers, ReviewerStep(r)
        PROVE  NoFeedbackError'
    BY <1>1 DEF ReviewerStep, DecideUpdate, DecideRefused, RecordFeedback, FeedbackError,
       CommitDecision, CommitAborted, Report
  <1>2. ASSUME NEW w \in Sweepers, SweeperStep(w)
        PROVE  NoFeedbackError'
    BY <1>2 DEF SweeperStep, SweepClass, SweepRow, SweepCommit, DeadlockVictim
  <1>3. ASSUME NEW r \in Reviewers, NEW i \in Items, NEW d \in Decisions, DecideBegin(r, i, d)
        PROVE  NoFeedbackError'
    BY <1>3 DEF DecideBegin
  <1>4. ASSUME NEW r \in Reviewers, NEW ids \in SUBSET Items, NEW d \in Decisions,
               BulkBegin(r, ids, d)
        PROVE  NoFeedbackError'
    BY <1>4 DEF BulkBegin
  <1>5. ASSUME NEW t \in Tx, Rollback(t)
        PROVE  NoFeedbackError'
    BY <1>5 DEF Rollback
  <1>6. CASE UNCHANGED pc
    BY <1>6
  <1> QED
    BY <1>1, <1>2, <1>3, <1>4, <1>5, <1>6 DEF Next, Submit, BecomeOverdue, Escalate, vars

\* Only CommitDecision reports a decision, and it reports what it committed.
LEMMA NextAccepted ==
    ASSUME TypeLock, NoFeedbackError, AcceptedDecisionStands, [Next]_vars
    PROVE  AcceptedDecisionStands'
  <1> USE DEF TypeLock
  <1>1. SUFFICES ASSUME NEW a \in accepted'
                 PROVE  items'[a.item].status = a.decision /\ items'[a.item].decided_by = a.by
    BY DEF AcceptedDecisionStands
  <1>2. CASE a \in accepted
    <2>1. a.item \in Items /\ items[a.item].status \in Decisions
      BY <1>2 DEF AcceptedDecisionStands, TypeOK
    <2>2. RowStep(items[a.item], items'[a.item])
      BY <2>1, NextRow
    <2>3. items'[a.item] = items[a.item]
      BY <2>1, <2>2 DEF RowStep, OpenStatus, Decisions
    <2> QED BY <1>2, <2>3 DEF AcceptedDecisionStands
  <1>3. ASSUME a \notin accepted, NEW r \in Reviewers, CommitDecision(r)
        PROVE  items'[a.item].status = a.decision /\ items'[a.item].decided_by = a.by
    <2>1. PICK i \in Items : lock[i] = r /\ a = [item |-> i, by |-> r, decision |-> ask[r]]
      BY <1>1, <1>3 DEF CommitDecision, Report
    <2>2. items'[i] = [items[i] EXCEPT !.status = ask[r], !.decided_by = r]
      BY <1>3, <2>1 DEF CommitDecision, Committed, LockInv, Held
    <2>3. items[i] \in Row
      BY DEF TypeOK
    <2> QED BY <2>1, <2>2, <2>3 DEF Row
  <1>4. accepted' = accepted \/ (\E r \in Reviewers : CommitDecision(r))
    BY DEF Next, ReviewerStep, SweeperStep, vars, Submit, BecomeOverdue, Escalate,
       DecideBegin, BulkBegin, DecideUpdate, DecideRefused, RecordFeedback, FeedbackError,
       CommitAborted, NoFeedbackError, SweepClass, SweepRow, SweepCommit, DeadlockVictim,
       Rollback
  <1> QED BY <1>1, <1>2, <1>3, <1>4

\* As long as _record_feedback does not raise, a decision that was reported as
\* taken is the decision in the row, forever, for any number of concurrent
\* reviewers and sweeps and whatever transactions are lost.
THEOREM DecisionsStand ==
    ASSUME FeedbackMayFail = FALSE
    PROVE  Spec => []AcceptedDecisionStands
  <1>1. Init => NoFeedbackError /\ AcceptedDecisionStands
    BY DEF Init, NoFeedbackError, AcceptedDecisionStands, Tx
  <1>2. TypeLock /\ NoFeedbackError /\ AcceptedDecisionStands /\ [Next]_vars
            => NoFeedbackError' /\ AcceptedDecisionStands'
    BY NextNoFeedbackError, NextAccepted
  <1> QED BY TypeLockInvariant, <1>1, <1>2, PTL DEF Spec

\* What feedback a row should have: one row for its decision, none before it.
Expected(row) == IF row.status \in Decisions THEN <<FeedbackRow(row)>> ELSE <<>>

\* FeedbackMatchesDecision asks for the row _record_feedback writes.
LEMMA FeedbackIsExpected ==
    ASSUME NEW row
    PROVE  Expected(row) = IF row.status \in Decisions
                           THEN <<[decision  |-> row.status,
                                   agreement |-> CASE row.llm = "none" -> "unknown"
                                                   [] row.llm = row.status -> "true"
                                                   [] OTHER -> "false"]>>
                           ELSE <<>>
  <1>1. CASE row.status \in Decisions
    <2>1. row.status # "none"
      BY <1>1 DEF Decisions
    <2>2. CASE row.llm = "none"
      BY <1>1, <2>1, <2>2 DEF FeedbackRow, Expected
    <2>3. CASE row.llm # "none" /\ row.llm = row.status
      BY <1>1, <2>3 DEF FeedbackRow, Expected
    <2>4. CASE row.llm # "none" /\ row.llm # row.status
      BY <1>1, <2>4 DEF FeedbackRow, Expected
    <2> QED BY <2>2, <2>3, <2>4
  <1>2. CASE row.status \notin Decisions
    BY <1>2 DEF Expected
  <1> QED BY <1>1, <1>2

\* A decision and its feedback row are committed together; nothing else touches
\* the feedback, and no other step decides a row or undoes a decision.
LEMMA NextFeedback ==
    ASSUME TypeLock, NoFeedbackError, [Next]_vars, NEW j \in Items,
           feedback[j] = Expected(items[j])
    PROVE  feedback'[j] = Expected(items'[j])
  <1> USE DEF TypeLock
  <1>0. Held(j) /\ lock[j] \in Tx \cup {None} /\ Reviewers \cap Sweepers = {}
    BY HitlAssumption DEF LockInv, TypeOK
  <1>1. ASSUME NEW i \in Items, NEW q \in Requests, Submit(i, q)
        PROVE  feedback'[j] = Expected(items'[j])
    BY <1>1 DEF Submit, Expected, Absent, Decisions, TypeOK
  <1>2. ASSUME items'[j] = EscalatedRow(items[j]), IsOpen(j), feedback' = feedback
        PROVE  feedback'[j] = Expected(items'[j])
    <2>1. items[j].status \notin Decisions
      BY <1>2 DEF IsOpen, OpenStatus, Decisions
    <2>2. items[j] \in Row
      BY DEF TypeOK
    <2>3. items'[j].status = IF items[j].escalation_count + 1 >= MaxEscalations
                             THEN "blocked" ELSE "escalated"
      BY <1>2, <2>2 DEF EscalatedRow, Row
    <2> QED BY <1>2, <2>1, <2>3 DEF Expected, Decisions
  <1>3. ASSUME NEW i \in Items, Escalate(i)
        PROVE  feedback'[j] = Expected(items'[j])
    BY <1>2, <1>3 DEF Escalate, TypeOK
  <1>4. ASSUME NEW w \in Sweepers, SweepCommit(w)
        PROVE  feedback'[j] = Expected(items'[j])
    <2>1. CASE lock[j] = w
      BY <1>0, <1>2, <1>4, <2>1 DEF SweepCommit, Committed, Held
    <2>2. CASE lock[j] # w
      BY <1>4, <2>2 DEF SweepCommit, Committed
    <2> QED BY <2>1, <2>2
  <1>5. ASSUME NEW r \in Reviewers, CommitDecision(r)
        PROVE  feedback'[j] = Expected(items'[j])
    <2>1. CASE lock[j] = r
      <3>1. IsOpen(j) /\ dirty[j] = [items[j] EXCEPT !.status = ask[r], !.decided_by = r]
        BY <1>0, <2>1 DEF Held
      <3>2. feedback[j] = <<>>
        BY <3>1 DEF Expected, IsOpen, OpenStatus, Decisions
      <3>3. dirty[j].status \in Decisions
        BY <3>1 DEF TypeOK, Row
      <3>4. pc[r] = "recorded"
        BY <1>5 DEF CommitDecision, NoFeedbackError
      <3>5. items'[j] = dirty[j] /\ feedback'[j] = Append(<<>>, FeedbackRow(dirty[j]))
        BY <1>5, <2>1, <3>2, <3>4 DEF CommitDecision, Committed
      <3> QED BY <3>3, <3>5 DEF Expected
    <2>2. CASE lock[j] # r
      BY <1>5, <2>2 DEF CommitDecision, Committed
    <2> QED BY <2>1, <2>2
  <1>6. \/ items' = items /\ feedback' = feedback
        \/ (\E i \in Items, q \in Requests : Submit(i, q))
        \/ (\E i \in Items : Escalate(i)) \/ (\E r \in Reviewers : CommitDecision(r))
        \/ (\E w \in Sweepers : SweepCommit(w))
    BY DEF Next, ReviewerStep, SweeperStep, vars, BecomeOverdue, DecideBegin, BulkBegin,
       DecideUpdate, DecideRefused, RecordFeedback, FeedbackError, CommitAborted,
       SweepClass, SweepRow, DeadlockVictim, Rollback
  <1> QED BY <1>1, <1>3, <1>4, <1>5, <1>6

\* As long as _record_feedback does not raise, the statistics have exactly one
\* right row per decision and none for an undecided item.
THEOREM FeedbackIsExact ==
    ASSUME FeedbackMayFail = FALSE
    PROVE  Spec => []FeedbackMatchesDecision
  <1>1. Init => NoFeedbackError /\ FeedbackMatchesDecision
    BY DEF Init, NoFeedbackError, FeedbackMatchesDecision, Absent, Decisions, Tx
  <1>2. TypeLock /\ TypeLock' /\ NoFeedbackError /\ FeedbackMatchesDecision /\ [Next]_vars
            => NoFeedbackError' /\ FeedbackMatchesDecision'
    <2> SUFFICES ASSUME TypeLock, TypeLock', NoFeedbackError, FeedbackMatchesDecision,
                        [Next]_vars
                 PROVE  NoFeedbackError' /\ FeedbackMatchesDecision'
      OBVIOUS
    <2>1. NoFeedbackError'
      BY NextNoFeedbackError
    <2>2. \A i \in Items : feedback[i] = Expected(items[i])
      BY FeedbackIsExpected, Zenon DEF FeedbackMatchesDecision
    <2>3. \A i \in Items : feedback'[i] = Expected(items'[i])
      BY <2>2, NextFeedback
    <2>4. FeedbackMatchesDecision'
      BY <2>3, FeedbackIsExpected, Zenon DEF FeedbackMatchesDecision
    <2> QED BY <2>1, <2>4
  <1> QED BY TypeLockInvariant, <1>1, <1>2, PTL DEF Spec
=============================================================================
