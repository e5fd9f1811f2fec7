--------------------------- MODULE MCHitlWorkflow ---------------------------
(***************************************************************************)
(* HitlWorkflow for TLC: the values of its parameters that a configuration *)
(* file cannot write, and the symmetry of reviewers and of sweepers.       *)
(***************************************************************************)
EXTENDS HitlWorkflow, TLC

\* Two classes that a sweep visits one after the other.
SweptRequests == {[risk_class |-> "RC-4", llm |-> "rejected"],
                  [risk_class |-> "RC-2", llm |-> "none"]}

\* Both items in one class, so that two sweeps can lock them crosswise.
OneClassRequests == {[risk_class |-> "RC-2", llm |-> "none"]}

Symmetry == Permutations(Items) \cup Permutations(Reviewers) \cup Permutations(Sweepers)
=============================================================================
