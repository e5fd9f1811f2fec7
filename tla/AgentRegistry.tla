--------------------------- MODULE AgentRegistry ---------------------------
(***************************************************************************)
(* The rows of discovery.collector_agent that belong to one host: the      *)
(* enroll, ingest, heartbeat and retire endpoints                          *)
(* (api/routers/collectors.py) and the staleness sweeps of the API workers *)
(* (collectors/staleness.py, collectors/fleet_health.py, api/main.py).     *)
(*                                                                         *)
(* enroll and the sweep read rows without a lock, decide on the copies and *)
(* write the columns that differ from the copy (SQLAlchemy), whatever has  *)
(* become of the rows meanwhile.  ingest and heartbeat hold the row lock   *)
(* from their read to their commit, and retire writes constants: each of   *)
(* them is one step.  The snapshots that ingest and heartbeat store are    *)
(* the subject of SnapshotPipeline.                                        *)
(***************************************************************************)
EXTENDS Integers, FiniteSets

CONSTANTS
    Daemons,     \* agent processes that run on the host, one after the other
                 \* or, when one is started too early, at the same time
    Sweepers,    \* API worker processes, each running _staleness_loop
    MaxAgents,   \* bound on the rows inserted
    MaxFaults    \* bound on the sweeps that fail

ASSUME RegistryAssumption ==
    /\ Daemons \cap Sweepers = {}
    /\ MaxAgents \in Nat /\ MaxFaults \in Nat

VARIABLES
    rows,     \* agent -> its committed row; agents are numbered by enrolled_at
    issued,   \* numbers given to agents so far
    pc,       \* daemon -> "down", "enrolling" or "up"; sweeper -> "idle" or "sweeping"
    me,       \* daemon -> the agent its enrolment updates or inserts, 0 for none
    found,    \* daemon -> the active agents its enrolment has read
    renew,    \* daemons whose agent it has read with a status other than online
    writes,   \* sweeper -> agent -> the status it will write, or "none"
    lone,     \* history: daemons during whose enrolment no other one committed
    faults

enrolments == <<issued, me, found, renew, lone>>
vars == <<rows, pc, enrolments, writes, faults>>

Agents   == 1..MaxAgents
Statuses == {"none", "online", "degraded", "offline", "retired"}

\* The age of last_heartbeat_at: within 3 base intervals, within 10, beyond.
Beats == {"never", "fresh", "late", "old"}

NoRow == [active |-> FALSE, status |-> "none", beat |-> "never"]

NoWrites == [a \in Agents |-> "none"]

Active(r) == {a \in Agents : r[a].active}

Init ==
    /\ rows   = [a \in Agents |-> NoRow]
    /\ issued = 0
    /\ pc     = [x \in Daemons \cup Sweepers |-> IF x \in Daemons THEN "down" ELSE "idle"]
    /\ me     = [p \in Daemons |-> 0]
    /\ found  = [p \in Daemons |-> {}]
    /\ renew  = {}
    /\ writes = [w \in Sweepers |-> NoWrites]
    /\ lone   = {}
    /\ faults = 0

-----------------------------------------------------------------------------
\* The most recently enrolled of several matching agents.
Newest(as) == CHOOSE a \in as : \A b \in as : b <= a

\* enroll_agent reads the active agents of the host.  It goes on with the
\* newest of them or, when there is none, with a new agent, whose enrolled_at
\* is the begin of the transaction.
EnrollRead(p) ==
    /\ pc[p] = "down"
    /\ IF Active(rows) = {}
       THEN /\ issued < MaxAgents
            /\ issued' = issued + 1
            /\ me' = [me EXCEPT ![p] = issued + 1]
            /\ UNCHANGED renew
       ELSE /\ me' = [me EXCEPT ![p] = Newest(Active(rows))]
            /\ renew' = renew \cup {q \in {p} : rows[me'[p]].status # "online"}
            /\ UNCHANGED issued
    /\ found' = [found EXCEPT ![p] = Active(rows)]
    /\ lone'  = lone \cup {p}
    /\ pc'    = [pc EXCEPT ![p] = "enrolling"]
    /\ UNCHANGED <<rows, writes, faults>>

\* Mutants: the agent's row is written whole; duplicates stay active.
Enrolled_WholeRow(p, b) ==
    IF b = me[p] THEN [rows[b] EXCEPT !.active = TRUE, !.status = "online"]
    ELSE IF b \in found[p] THEN [rows[b] EXCEPT !.active = FALSE, !.status = "retired"]
    ELSE rows[b]

Enrolled_KeepsDuplicates(p, b) ==
    IF b = me[p] /\ found[p] = {} THEN [active |-> TRUE, status |-> "online", beat |-> "never"]
    ELSE IF b = me[p] /\ p \in renew THEN [rows[b] EXCEPT !.status = "online"]
    ELSE rows[b]

\* What the enrolment of p makes of agent b: its own is inserted, or gets the
\* status online if it had another one (is_active was read as TRUE, so it is
\* not written); the others it has read are retired.
Enrolled(p, b) ==
    CASE b = me[p] /\ found[p] = {} -> [active |-> TRUE, status |-> "online", beat |-> "never"]
      [] b = me[p] /\ p \in renew   -> [rows[b] EXCEPT !.status = "online"]
      [] b \in found[p] \ {me[p]}    -> [rows[b] EXCEPT !.active = FALSE, !.status = "retired"]
      [] OTHER                       -> rows[b]

\* enroll_agent commits and answers: the daemon reports under this agent.
EnrollCommit(p) ==
    /\ pc[p] = "enrolling"
    /\ rows'  = [b \in Agents |-> Enrolled(p, b)]
    /\ found' = [found EXCEPT ![p] = {}]
    /\ renew' = renew \ {p}
    /\ lone'  = {}
    /\ pc'    = [pc EXCEPT ![p] = "up"]
    /\ UNCHANGED <<issued, me, writes, faults>>

\* ingest_snapshots, heartbeat: whoever has a token may report, retired or not.
Report(p) ==
    /\ pc[p] = "up"
    /\ rows' = [rows EXCEPT ![me[p]].beat = "fresh", ![me[p]].status = "online"]
    /\ UNCHANGED <<pc, enrolments, writes, faults>>

\* The process ends; its successor enrols again.
Die(p) ==
    /\ pc[p] = "up"
    /\ pc'   = [pc EXCEPT ![p] = "down"]
    /\ me'   = [me EXCEPT ![p] = 0]
    /\ UNCHANGED <<rows, issued, found, renew, lone, writes, faults>>

\* retire_agent.
Retire(a) ==
    /\ rows[a].status # "none"
    /\ rows' = [rows EXCEPT ![a].active = FALSE, ![a].status = "retired"]
    /\ UNCHANGED <<pc, enrolments, writes, faults>>

\* Time passes without a report (nobody looks at the age of a retired agent).
Age(a) ==
    /\ rows[a].active
    /\ rows[a].beat \in {"fresh", "late"}
    /\ rows' = [rows EXCEPT ![a].beat = IF @ = "fresh" THEN "late" ELSE "old"]
    /\ UNCHANGED <<pc, enrolments, writes, faults>>

-----------------------------------------------------------------------------
\* derive_agent_status.
DerivedStatus(row) ==
    CASE ~row.active \/ row.status = "retired" -> "retired"
      [] OTHER -> CASE row.beat = "fresh" -> "online"
                    [] row.beat = "late"  -> "degraded"
                    [] OTHER              -> "offline"

\* Mutant: agents that are offline are not looked at again.
Swept_NotOffline == {a \in Active(rows) : rows[a].status \notin {"retired", "offline"}}

\* The agents check_staleness selects.
Swept == {a \in Active(rows) : rows[a].status # "retired"}

\* check_staleness reads the agents and derives their status; it will write
\* the ones that have changed ...
SweepRead(w) ==
    /\ pc[w] = "idle"
    /\ pc'     = [pc EXCEPT ![w] = "sweeping"]
    /\ writes' = [writes EXCEPT ![w] =
           [a \in Agents |-> IF a \in Swept /\ DerivedStatus(rows[a]) # rows[a].status
                             THEN DerivedStatus(rows[a]) ELSE "none"]]
    /\ UNCHANGED <<rows, enrolments, faults>>

\* ... when it commits, whatever the rows are by then.
SweepCommit(w) ==
    /\ pc[w] = "sweeping"
    /\ rows'   = [a \in Agents |-> IF writes[w][a] = "none" THEN rows[a]
                                   ELSE [rows[a] EXCEPT !.status = writes[w][a]]]
    /\ pc'     = [pc EXCEPT ![w] = "idle"]
    /\ writes' = [writes EXCEPT ![w] = NoWrites]
    /\ UNCHANGED <<enrolments, faults>>

\* _staleness_loop: the sweep fails, which is logged; the next one comes.
SweepFails(w) ==
    /\ pc[w] = "sweeping"
    /\ faults < MaxFaults
    /\ faults' = faults + 1
    /\ pc'     = [pc EXCEPT ![w] = "idle"]
    /\ writes' = [writes EXCEPT ![w] = NoWrites]
    /\ UNCHANGED <<rows, enrolments>>

Sweep(w) == SweepRead(w) \/ SweepCommit(w) \/ SweepFails(w)

Next ==
    \/ \E p \in Daemons : EnrollRead(p) \/ EnrollCommit(p) \/ Report(p) \/ Die(p)
    \/ \E a \in Agents : Retire(a) \/ Age(a)
    \/ \E w \in Sweepers : Sweep(w)

Spec == Init /\ [][Next]_vars

\* Every API worker sweeps again and again; nothing else has to happen.
FairSpec == Spec /\ \A w \in Sweepers : WF_vars(Sweep(w))

-----------------------------------------------------------------------------
\* Every variable has its type.
TypeOK ==
    /\ rows \in [Agents -> [active : BOOLEAN, status : Statuses, beat : Beats]]
    /\ issued \in 0..MaxAgents
    /\ \A p \in Daemons : pc[p] \in {"down", "enrolling", "up"} /\ me[p] \in 0..issued
    /\ \A w \in Sweepers : pc[w] \in {"idle", "sweeping"}
    /\ found \in [Daemons -> SUBSET Agents]
    /\ renew \subseteq Daemons /\ lone \subseteq Daemons
    /\ writes \in [Sweepers -> [Agents -> Statuses]]
    /\ faults \in 0..MaxFaults

\* A retired agent never comes back: an enrolment or a sweep that has read the
\* row while it was active does not undo the retirement.
RetiredIsFinal ==
    [][\A a \in Agents : (rows[a].status # "none" /\ ~rows[a].active)
                             => ~rows'[a].active]_vars

\* Rows only take the values the API knows, and a retired one stays retired.
RowsAreSound == []TypeOK /\ RetiredIsFinal

\* An enrolment that no other enrolment overtakes leaves at most one active
\* agent, its own, however many the races of earlier ones have left.
EnrolmentLeavesOneAgent ==
    [][\A p \in Daemons :
           (pc[p] = "enrolling" /\ pc'[p] = "up" /\ p \in lone)
               => Active(rows') \subseteq {me[p]}]_vars

\* The stored status settles on what the heartbeats say: if from some time on
\* an active agent's heartbeat has the same age class and nobody enrols, its
\* status is the derived one from some time on: a sweep may overwrite a report
\* with what it has derived before it, but not for good.
StatusSettles ==
    \A a \in Agents, b \in Beats :
        <>[](/\ rows[a].active /\ rows[a].beat = b
             /\ \A p \in Daemons : pc[p] # "enrolling")
            => <>[](rows[a].status = DerivedStatus(rows[a]))
=============================================================================
