---------------------------- MODULE MCCasysCommit ----------------------------
(* Instances of CasysCommit for TLC.                                       *)
EXTENDS CasysCommit, TLC

CONSTANTS w1, w2, x1

Sym == Permutations(Writers)
=============================================================================
