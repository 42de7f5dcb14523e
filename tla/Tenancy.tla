------------------------------ MODULE Tenancy -------------------------------
(***************************************************************************)
(* The API process of one tenant: its requests pass the middleware of      *)
(* Accounts before they reach the handlers of Databases, and both lose     *)
(* what they hold in memory when the process restarts.                     *)
(***************************************************************************)
EXTENDS Accounts, Databases

vars == <<accVars, dbVars, faults>>

Init == AccInit /\ DbInit

\* Registration, login, the middleware and the revocation of a key.
AccountStep(r) == dpc[r] = "new" /\ AccStep(r) /\ UNCHANGED dbVars

\* The databases are those of Owner: only its key leads to them.
Route(r) ==
    /\ apc[r] = "passed"
    /\ key[r] = Owner
    /\ AskSomething(r)
    /\ UNCHANGED accVars

Handle(r) == DbStep(r) /\ UNCHANGED accVars

\* Workers and Redis go on while the API process restarts.
Elsewhere == (WorkerStep \/ \E d \in Databases : LeaseEnds(d)) /\ UNCHANGED accVars

Restart == ForgetKeys /\ AbandonRequests

Next ==
    \/ \E r \in Requests : AccountStep(r) \/ Route(r) \/ Handle(r)
    \/ Elsewhere
    \/ Restart

Spec == Init /\ [][Next]_vars

TypeOK == AccTypeOK /\ DbTypeOK
=============================================================================
