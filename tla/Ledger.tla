------------------------------- MODULE Ledger -------------------------------
(* control/audit_ledger.py: one agent run, used by sessions whose owners       *)
(* commit or roll back.                                                        *)
(* SQLAlchemy reads a row once per transaction and works on that copy; an      *)
(* UPDATE sets the columns that differ from what was read and locks the row.   *)
EXTENDS Naturals

CONSTANTS Sessions,
          MaxEvents,  \* bound: events recorded
          MaxCommits  \* bound: transactions that commit

VARIABLES run,      \* the agent_run row: status, audit events and denial in its scope, and a version
          copy,     \* each session's copy of it, with the columns it has written
          final,    \* history: the first terminal status that was committed
          stale,    \* history: a commit overwrote a row that had changed since it was read
          recorded, \* history: record_event calls that returned
          commits

ledgerVars == <<run, copy, final, stale, recorded, commits>>

Terminal == {"completed", "failed"}
\* saved: the events in the copy when it last wrote its scope.
Unread == [at |-> 0, status |-> "absent", events |-> 0, saved |-> 0, denied |-> FALSE, wrote |-> {}]

Init == /\ run = [status |-> "absent", events |-> 0, denied |-> FALSE, at |-> 0]
        /\ copy = [s \in Sessions |-> Unread]
        /\ final = "none" /\ stale = FALSE /\ recorded = 0 /\ commits = 0

Locked(s) == \E t \in Sessions \ {s} : copy[t].wrote # {}
Loaded(s) == copy[s].at > 0

\* open_run, in a transaction of its own.
open_run ==
    /\ run.status = "absent"
    /\ run' = [run EXCEPT !.status = "pending", !.at = 1]
    /\ UNCHANGED <<copy, final, stale, recorded, commits>>

\* _load: session.get.
load(s) ==
    /\ run.at > 0 /\ ~Loaded(s) /\ commits < MaxCommits
    /\ copy' = [copy EXCEPT ![s] = [at |-> run.at, status |-> run.status, events |-> run.events,
                                    saved |-> run.events, denied |-> run.denied, wrote |-> {}]]
    /\ UNCHANGED <<run, final, stale, recorded, commits>>

Flush(s, c, columns) ==
    /\ columns # {} => ~Locked(s)
    /\ copy' = [copy EXCEPT ![s] = [c EXCEPT !.wrote = @ \cup columns,
                                            !.saved = IF "scope" \in columns THEN c.events ELSE @]]
    /\ UNCHANGED <<run, final, stale, commits>>

\* _guard_terminal.
Open(s) == Loaded(s) /\ copy[s].status \notin Terminal

start_run(s) ==
    /\ Open(s) /\ copy[s].status = "pending"
    /\ Flush(s, [copy[s] EXCEPT !.status = "running"], {"status"})
    /\ UNCHANGED recorded
\* A failure may have a reason, which goes into the scope.
close_run(s, success) ==
    /\ Open(s) /\ copy[s].status = "running"
    /\ \E reason \in SUBSET (IF success THEN {} ELSE {"scope"}) :
          Flush(s, [copy[s] EXCEPT !.status = IF success THEN "completed" ELSE "failed"], {"status"} \cup reason)
    /\ UNCHANGED recorded

\* Mutant: a denial is recorded for a closed run too.
record_denial_Closed(s) ==
    /\ Loaded(s)
    /\ Flush(s, [copy[s] EXCEPT !.status = "failed", !.denied = TRUE], {"status", "scope"})
    /\ UNCHANGED recorded
record_denial(s) ==
    /\ Open(s)
    /\ Flush(s, [copy[s] EXCEPT !.status = "failed", !.denied = TRUE], {"status", "scope"})
    /\ UNCHANGED recorded

\* The list of events is extended in place: a scope that had one compares equal
\* to what it was, and the UPDATE leaves it out.
record_event(s) ==
    /\ Loaded(s) /\ recorded < MaxEvents /\ recorded' = recorded + 1
    /\ Flush(s, [copy[s] EXCEPT !.events = @ + 1], IF copy[s].events = 0 THEN {"scope"} ELSE {})

\* The owner's commit; the session forgets its copy.
commit(s) ==
    LET c == copy[s] IN
    /\ Loaded(s) /\ commits' = commits + 1
    /\ run' = IF c.wrote = {} THEN run
              ELSE [status |-> IF "status" \in c.wrote THEN c.status ELSE run.status,
                    events |-> IF "scope" \in c.wrote THEN c.saved ELSE run.events,
                    denied |-> IF "scope" \in c.wrote THEN c.denied ELSE run.denied,
                    at |-> run.at + 1]
    /\ stale' = (stale \/ (c.wrote # {} /\ c.at # run.at))
    /\ final' = IF final = "none" /\ run'.status \in Terminal THEN run'.status ELSE final
    /\ copy' = [copy EXCEPT ![s] = Unread]
    /\ UNCHANGED recorded
rollback(s) ==
    /\ Loaded(s) /\ copy' = [copy EXCEPT ![s] = Unread]
    /\ UNCHANGED <<run, final, stale, recorded, commits>>

Next == \/ open_run
        \/ \E s \in Sessions :
              \/ load(s) \/ start_run(s) \/ record_denial(s) \/ record_event(s)
              \/ \E ok \in BOOLEAN : close_run(s, ok)
              \/ commit(s) \/ rollback(s)

Spec == Init /\ [][Next]_ledgerVars

-----------------------------------------------------------------------------
\* A run that ended stays as it ended, and a denied run has failed, unless a
\* session worked on a copy from before another one's commit.
RunStaysClosed ==
    ~stale => /\ final # "none" => run.status = final
              /\ run.denied => run.status = "failed"
=============================================================================
