------------------------------- MODULE MCPitr -------------------------------
(* Instances of Pitr for TLC.                                              *)
EXTENDS PitrViews, TLC

CONSTANTS q1, q2, q3, w1, w2, s1, r1, r2

\* The queries are not alike: Kuzu refuses one of them.
SymP == Permutations(Workers) \cup Permutations(Restorers)
SymQ == Permutations(Queries \ Refused)
=============================================================================
