----------------------------- MODULE Retention ------------------------------
(* workers/retention.py: run_retention over its four rules, in AUTOCOMMIT mode *)
(* (every statement is its own transaction), beside the writers of the tables. *)
(* Time is counted in months, the unit of the partitions; a partitioned table  *)
(* stands for telemetry.metric_point and telemetry.slo_measurement.            *)
EXTENDS Integers, Sequences, FiniteSets

CONSTANTS LastMonth,  \* bound: months that pass
          MaxFailures \* bound: statements the server rejects

VARIABLES now,        \* the current month
          parts,      \* months that have a partition
          filled,     \* months of which rows are stored
          step,       \* what the running job does next
          ensured,    \* history: the last month in which both partitions were asked for
          swept,      \* history: the month in which the last job reported "completed"
          failures

retentionVars == <<now, parts, filled, step, ensured, swept, failures>>

\* _RETENTION_RULES: the window in months and how its interval begins.
MetricRule == [window |-> 3, first |-> "digit"]

\* Migrations 0007 and 0010 create the partitions of their month and of the next.
Init == /\ now = 1 /\ parts = {1, 2} /\ filled = {}
        /\ step = "idle" /\ ensured = 1 /\ swept = 0 /\ failures = 0

\* _validate_identifier: a name begins with a letter or an underscore.
\* Mutant: an identifier may begin with a digit.
ValidIdentifier_Digits(first) == first \in {"letter", "underscore", "digit"}
ValidIdentifier(first) == first \in {"letter", "underscore"}

\* accuracy_tracker._persist_snapshot and other writers: a row for which there
\* is no partition is rejected, and the writer only logs that.
InsertPoint ==
    /\ now \in parts /\ filled' = filled \cup {now}
    /\ UNCHANGED <<now, parts, step, ensured, swept, failures>>
MonthPasses ==
    /\ now < LastMonth /\ now' = now + 1
    /\ UNCHANGED <<parts, filled, step, ensured, swept, failures>>

StartJob ==
    /\ step = "idle" /\ step' = "create"
    /\ UNCHANGED <<now, parts, filled, ensured, swept, failures>>

\* _ensure_future_partitions: CREATE TABLE IF NOT EXISTS for this month and the
\* next; an error is logged and passed over.
CreatePartitions(ok) ==
    /\ step = "create" /\ step' = "drop"
    /\ IF ok THEN parts' = parts \cup {now, now + 1} /\ ensured' = now /\ UNCHANGED failures
       ELSE /\ failures < MaxFailures /\ failures' = failures + 1
            /\ \E kept \in SUBSET {now, now + 1} : kept # {now, now + 1} /\ parts' = parts \cup kept
            /\ UNCHANGED ensured
    /\ UNCHANGED <<now, filled, swept>>

\* Partitions without a row of the window, whatever month they are for.
Expired == {p \in parts : ~(p \in filled /\ p >= now - MetricRule.window)}

\* _drop_old_partitions, in the order of pg_inherits; the last partition stays.
\* The validation of its interval raises first, which ends the rule.
DropPartitions ==
    /\ step = "drop" /\ step' = "delete"
    /\ IF ~ValidIdentifier(MetricRule.first) THEN UNCHANGED <<parts, filled>>
       ELSE \E gone \in SUBSET Expired :
               /\ Cardinality(gone) = IF Expired = parts THEN Cardinality(parts) - 1
                                      ELSE Cardinality(Expired)
               /\ parts' = parts \ gone /\ filled' = filled \ gone
    /\ UNCHANGED <<now, ensured, swept, failures>>

\* _delete_old_rows of the two log tables, whose rows are not told apart here;
\* their interval is not validated.
DeleteRows ==
    /\ step = "delete" /\ step' = "views"
    /\ UNCHANGED <<now, parts, filled, ensured, swept, failures>>

\* _refresh_materialized_views; errors of all rules are in the report, and the
\* job is "completed" all the same.
Report ==
    /\ step = "views" /\ step' = "idle" /\ swept' = now
    /\ UNCHANGED <<now, parts, filled, ensured, failures>>

\* The worker dies, or a rule's connection fails: what was done stays.
Abandon ==
    /\ step # "idle" /\ failures < MaxFailures /\ failures' = failures + 1
    /\ step' \in {"idle"} \cup (IF step \in {"create", "drop"} THEN {"delete"} ELSE {"views"})
    /\ UNCHANGED <<now, parts, filled, ensured, swept>>

Next == \/ InsertPoint \/ MonthPasses \/ StartJob
        \/ \E ok \in BOOLEAN : CreatePartitions(ok)
        \/ DropPartitions \/ DeleteRows \/ Report \/ Abandon

Spec == Init /\ [][Next]_retentionVars

-----------------------------------------------------------------------------
\* A job that asked for its partitions in one month leaves a place to write to
\* for that month and the next: "so inserts don't fail at month boundaries".
\* What keeps the empty partition of the coming month from being dropped again
\* is only that the interval is never accepted.
PartitionsCover == step \in {"idle", "create"} /\ ensured >= now - 1 => now \in parts

\* The module's promise "telemetry.metric_point -> 90 days": once a job has
\* completed, no partition of a month before the window is left beside others.
OldPartitionsAreDropped ==
    step = "idle" /\ swept = now /\ failures = 0 =>
        \A p \in parts : p < now - MetricRule.window => parts = {p}
=============================================================================
