----------------------------- MODULE MCServices ------------------------------
(***************************************************************************)
(* The services the handlers call, for TLC: the lock of a resource and the *)
(* event stream of a tenant in Redis, the catalog of queries in Postgres,  *)
(* the local directory of a database.  They share neither a key nor a      *)
(* table nor a file, so a behaviour moves one of them: they are explored   *)
(* side by side instead of in every combination.                           *)
(***************************************************************************)
EXTENDS RedisLock, EventStream, QueryCatalog, Checkout, TLC

CONSTANTS f1, f2, f3, t1, t2, t3, t4, blank

\* Two spellings of one query, two other queries, and white space.
Spellings == (t1 :> f1) @@ (t2 :> f1) @@ (t3 :> f2) @@ (t4 :> f3) @@ (blank :> NoForm)

VARIABLE service

vars == <<lockVars, streamVars, catalogVars, checkoutVars, service>>

Init ==
    /\ LockInit /\ StreamInit /\ CatalogInit /\ CheckoutInit
    /\ service \in {"lock", "stream", "catalog", "checkout"}
    /\ service # "checkout" => dir /\ archived

Lock ==
    /\ service = "lock" /\ LockNext
    /\ UNCHANGED <<streamVars, catalogVars, checkoutVars, service>>
Stream ==
    /\ service = "stream" /\ StreamNext
    /\ UNCHANGED <<lockVars, catalogVars, checkoutVars, service>>
Catalog ==
    /\ service = "catalog" /\ CatalogNext
    /\ UNCHANGED <<lockVars, streamVars, checkoutVars, service>>
Checkouts ==
    /\ service = "checkout" /\ CheckoutNext
    /\ UNCHANGED <<lockVars, streamVars, catalogVars, service>>

Next == Lock \/ Stream \/ Catalog \/ Checkouts

\* Where the lock is not the service, nobody holds it and no Tick is enabled.
Spec ==
    /\ Init /\ [][Next]_vars
    /\ WF_lockVars(Tick)
    /\ service = "stream" => StreamFairness
=============================================================================
