----------------------- MODULE MCExecutionProjection -----------------------
(* Small instances of ExecutionProjection for TLC. *)
EXTENDS ExecutionProjection, TLC

CONSTANTS p1, agg, o1, o2, w1, w2

Proposal == [deps |-> {}, prio |-> "Medium", body |-> "proposal",
             retry |-> [max |-> 2, delay |-> "now"]]

Aggregate(deps) == [deps |-> deps, prio |-> "High", body |-> "aggregate",
                    retry |-> [max |-> 2, delay |-> "now"]]

(* A root that proves a proposal, one that aggregates it, and one that     *)
(* aggregates an artifact that is already stored (the same aggregate id    *)
(* with another definition).                                               *)
MCTasks == {p1, agg}
MCKey == p1 :> 1 @@ agg :> 1
MCGraphs == {p1 :> Proposal,
             p1 :> Proposal @@ agg :> Aggregate({p1}),
             agg :> Aggregate({})}

Symmetry == Permutations(Workers) \cup Permutations(Owners)
=============================================================================
