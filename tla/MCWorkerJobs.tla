---------------------------- MODULE MCWorkerJobs ----------------------------
(***************************************************************************)
(* WorkerJobs for TLC: all schedules are of one task.                      *)
(***************************************************************************)
EXTENDS WorkerJobs

CONSTANT t1

MCTaskOf == [c \in Schedules |-> t1]
=============================================================================
