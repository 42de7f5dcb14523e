----------------------------- MODULE MCTenancy ------------------------------
(* Instances of Tenancy for TLC.                                           *)
EXTENDS Tenancy, TLC

OwnersRow == [name |-> "acme", email |-> "ann", active |-> TRUE]
Sym == Permutations(Requests) \cup Permutations(Writes)
=============================================================================
