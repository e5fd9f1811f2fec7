-------------------------- MODULE MCAgentRegistry --------------------------
(***************************************************************************)
(* AgentRegistry for TLC.  No symmetry: the run checks liveness.           *)
(***************************************************************************)
EXTENDS AgentRegistry
=============================================================================
