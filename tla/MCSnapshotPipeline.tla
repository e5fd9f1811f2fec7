------------------------- MODULE MCSnapshotPipeline -------------------------
(***************************************************************************)
(* SnapshotPipeline for TLC.  No symmetry: the run checks liveness.        *)
(***************************************************************************)
EXTENDS SnapshotPipeline
=============================================================================
