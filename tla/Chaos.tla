------------------------------- MODULE Chaos --------------------------------
(* motor/chaos.py: ChaosEngine.  A live run is stopped by _check_hitl_approval,*)
(* which answers False; a dry run registers itself without an await after its  *)
(* checks, sleeps, and looks at the kill switch.                               *)
EXTENDS Naturals, FiniteSets, FiniteSetsExt

CONSTANTS Runs, Targets, ProductionTargets, MaxConcurrent

VARIABLES run,      \* each call of run_experiment
          running,  \* _running
          locks,    \* _host_locks: target -> run
          aborted,  \* _aborted
          killed,   \* history: runs for which abort() returned True
          history   \* _history

chaosVars == <<run, running, locks, aborted, killed, history>>

Experiments == {"kill_container", "network_partition_simulate", "cpu_stress",
                "memory_pressure", "disk_fill_test"}
Free == "free"
New == [pc |-> "new", target |-> Free, dry |-> TRUE]

\* _calculate_blast_radius, as a number of components.
BlastRadius(e) == IF e = "network_partition_simulate" THEN 4 ELSE 3
MaxBlastRadiusComponents == 10

Init == /\ run = [r \in Runs |-> New]
        /\ running = {} /\ aborted = {} /\ killed = {} /\ history = {}
        /\ locks = [t \in Targets |-> Free]

\* Mutant: a target may be hit by several experiments.
PreFlight_NoHostGuard(e, t, dry, production) ==
    /\ dry \/ production \/ t \notin ProductionTargets
    /\ Cardinality(running) < MaxConcurrent
    /\ BlastRadius(e) <= MaxBlastRadiusComponents
\* _pre_flight_safety_checks and _check_blast_radius_cap.
PreFlight(e, t, dry, production) ==
    /\ dry \/ production \/ t \notin ProductionTargets
    /\ Cardinality(running) < MaxConcurrent
    /\ locks[t] = Free
    /\ BlastRadius(e) <= MaxBlastRadiusComponents

\* run_experiment up to its first await.
run_experiment(r, e, t, dry, production) ==
    /\ run[r].pc = "new"
    /\ IF e \notin Experiments \/ ~PreFlight(e, t, dry, production)
       THEN run' = [run EXCEPT ![r].pc = "refused"] /\ UNCHANGED <<running, locks>>
       ELSE /\ run' = [run EXCEPT ![r] = [pc |-> IF dry THEN "simulate" ELSE "approval",
                                          target |-> t, dry |-> dry]]
            /\ IF dry THEN running' = running \cup {r} /\ locks' = [locks EXCEPT ![t] = r]
               ELSE UNCHANGED <<running, locks>>
    /\ UNCHANGED <<aborted, killed, history>>

\* _check_hitl_approval answers False: the live run ends, pending.
not_approved(r) ==
    /\ run[r].pc = "approval"
    /\ run' = [run EXCEPT ![r].pc = "refused"]
    /\ UNCHANGED <<running, locks, aborted, killed, history>>

\* abort(): also of a run that is over, or of an id that never ran.
abort(r) ==
    /\ aborted' = aborted \cup {r}
    /\ killed' = IF r \in running THEN killed \cup {r} ELSE killed
    /\ UNCHANGED <<run, running, locks, history>>

Leave(r) == /\ running' = running \ {r}
            /\ locks' = [locks EXCEPT ![run[r].target] = Free]
            /\ run' = [run EXCEPT ![r].pc = "done"]

\* _simulate after its sleep, and the finally of run_experiment.
simulated(r) ==
    /\ run[r].pc = "simulate"
    /\ Leave(r)
    /\ history' = history \cup {[run |-> r, success |-> r \notin aborted]}
    /\ UNCHANGED <<aborted, killed>>

\* The caller's task is cancelled in the sleep: only the finally runs.
cancelled(r) ==
    /\ run[r].pc = "simulate"
    /\ Leave(r)
    /\ history' = history \cup {[run |-> r, success |-> FALSE]}
    /\ UNCHANGED <<aborted, killed>>

Next == \E r \in Runs :
           \/ \E e \in Experiments \cup {"typo"}, t \in Targets, dry, production \in BOOLEAN :
                  run_experiment(r, e, t, dry, production)
           \/ not_approved(r) \/ simulated(r) \/ cancelled(r) \/ abort(r)

-----------------------------------------------------------------------------
\* A host is locked exactly while one registered run targets it, at most
\* MaxConcurrent runs are registered, and an interrupted run gives both back.
RunsAreGuarded ==
    /\ Cardinality(running) <= MaxConcurrent
    /\ \A t \in Targets : {r \in running : run[r].target = t}
                          = (IF locks[t] = Free THEN {} ELSE {locks[t]})

\* The kill switch wins: a run for which abort() answered True never ends as a
\* success, whenever the answer came.
KillSwitchWins == \A h \in history : h.run \in killed => ~h.success
=============================================================================
