----------------------------- MODULE ApiRequests ----------------------------
(* What Accounts and Databases share: the requests the API process handles  *)
(* and the budget of calls that may fail.                                   *)
EXTENDS Naturals

CONSTANTS
    Requests,   \* requests, each handled once
    MaxFaults   \* bound: awaited calls that fail

ASSUME FaultsAssumption == MaxFaults \in Nat

VARIABLE faults  \* those that have failed
=============================================================================
