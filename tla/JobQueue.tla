------------------------------ MODULE JobQueue ------------------------------
(***************************************************************************)
(* What the query pipeline promises to the clients of the API: accepted    *)
(* jobs wait in the order of their tickets, each is handed out once and    *)
(* executed at most once, and only a full queue loses one.  Nothing is     *)
(* said of workers, Redis keys, rows or events.                            *)
(***************************************************************************)
EXTENDS Naturals, FiniteSets

CONSTANTS
    Jobs,
    Cap     \* as many younger jobs may push a waiting one out

VARIABLES
    status,    \* as GET /jobs/{id} has it
    ticket,    \* 0 for a job that is not queued yet
    last,      \* the last ticket drawn
    waiting,   \* queued, not handed out
    out,       \* handed out, not acknowledged
    executed   \* jobs whose query was run

jobVars == <<status, ticket, last, waiting, out, executed>>

Init ==
    /\ status = [j \in Jobs |-> "none"]
    /\ ticket = [j \in Jobs |-> 0]
    /\ last = 0
    /\ waiting = {}
    /\ out = {}
    /\ executed = {}

Accept(j) ==
    /\ status[j] = "none"
    /\ status' = [status EXCEPT ![j] = "pending"]
    /\ UNCHANGED <<ticket, last, waiting, out, executed>>

\* The newest job always finds a place.
Queue(j) ==
    /\ status[j] # "none"
    /\ ticket[j] = 0
    /\ last' = last + 1
    /\ ticket' = [ticket EXCEPT ![j] = last + 1]
    /\ \E lost \in SUBSET waiting :
          /\ \A k \in lost : Cardinality({i \in Jobs : ticket'[i] > ticket'[k]}) >= Cap
          /\ waiting' = (waiting \ lost) \cup {j}
    /\ UNCHANGED <<status, out, executed>>

HandOut(j) ==
    /\ j \in waiting
    /\ \A k \in waiting : ticket[j] <= ticket[k]
    /\ waiting' = waiting \ {j}
    /\ out' = out \cup {j}
    /\ UNCHANGED <<status, ticket, last, executed>>

\* A job is started while it is handed out, and never once it was executed.
Start(j) ==
    /\ j \in out \ executed
    /\ status' = [status EXCEPT ![j] = "running"]
    /\ UNCHANGED <<ticket, last, waiting, out, executed>>

Execute(j) ==
    /\ j \in out \ executed
    /\ executed' = executed \cup {j}
    /\ UNCHANGED <<status, ticket, last, waiting, out>>

Finish(j) ==
    /\ j \in out
    /\ \/ status' = [status EXCEPT ![j] = "timeout"]
       \/ j \in executed /\ status' = [status EXCEPT ![j] = "completed"]
    /\ UNCHANGED <<ticket, last, waiting, out, executed>>

\* A failing call or a cancellation: at any time, even after the job finished.
Fail(j) ==
    /\ status[j] # "none"
    /\ status' = [status EXCEPT ![j] = "failed"]
    /\ UNCHANGED <<ticket, last, waiting, out, executed>>

Acknowledge(j) ==
    /\ j \in out
    /\ out' = out \ {j}
    /\ UNCHANGED <<status, ticket, last, waiting, executed>>

Next ==
    \E j \in Jobs :
        \/ Accept(j) \/ Queue(j) \/ HandOut(j) \/ Start(j) \/ Execute(j)
        \/ Finish(j) \/ Fail(j) \/ Acknowledge(j)

Spec == Init /\ [][Next]_jobVars
=============================================================================
