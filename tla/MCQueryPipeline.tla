--------------------------- MODULE MCQueryPipeline ---------------------------
(* Instances of QueryPipeline for TLC. *)
EXTENDS QueryPipeline, TLC

Symmetry == Permutations(Workers) \cup Permutations(Cancels)
=============================================================================
