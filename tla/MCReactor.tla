----------------------------- MODULE MCReactor -----------------------------
(***************************************************************************)
(* Reactor for TLC: an ingest event, anomalies of each route, and an event *)
(* of a type nobody handles.                                               *)
(***************************************************************************)
EXTENDS Reactor, TLC

CONSTANTS ingest, anom1, anom2, anom4, odd

MCTypeOf ==
    [e \in Events |-> CASE e = ingest -> "ingest" [] e = odd -> "other" [] OTHER -> "anomaly"]

MCRiskOf ==
    [e \in Events |-> CASE e = anom1 -> "RC-1" [] e = anom2 -> "RC-2" [] e = anom4 -> "unknown"
                        [] OTHER -> "RC-1"]
=============================================================================
