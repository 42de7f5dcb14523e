------------------------------ MODULE RedisLock ------------------------------
(***************************************************************************)
(* One resource of RedisDistributedLockService.                            *)
(*                                                                         *)
(* A request asks for the lock once (SET NX EX), works, perhaps extends    *)
(* its lease, and releases in a finally block with a script that compares  *)
(* the token.  Tokens are fresh random strings, so the token of a request  *)
(* is the request itself.  Time is the number of seconds that are left:    *)
(* `ttl' of the key in Redis, `lease' of what a request was promised.      *)
(*                                                                         *)
(* Definitions no action of LockNext uses (AcquireWithoutNX, ...) are faulty   *)
(* variants of the code; with one of them some property below fails.       *)
(***************************************************************************)
EXTENDS Naturals

CONSTANTS
    Requests,    \* requests that use the lock
    Extenders,   \* those that call extend_lock (no use case does)
    Timeouts,    \* values of timeout_seconds
    Extensions,  \* values of extend_seconds
    MaxExtends,  \* bound: calls of extend_lock
    NoOne        \* the key does not exist

ASSUME LockAssumption ==
    /\ Extenders \subseteq Requests
    /\ Timeouts \subseteq Nat \ {0}
    /\ Extensions \subseteq Nat \ {0}
    /\ MaxExtends \in Nat
    /\ NoOne \notin Requests

LockPC == {"new", "refused", "held", "ttl", "expire", "released", "crashed"}

VARIABLES
    owner,    \* value of the key lock:<resource>
    ttl,      \* seconds until Redis drops the key
    pc,       \* control state of a request
    lease,    \* seconds a request was promised the lock for
    readTtl,  \* local variable ttl of extend_lock
    byExtend, \* local variable extend_seconds of extend_lock
    extends   \* calls of extend_lock so far

lockVars == <<owner, ttl, pc, lease, readTtl, byExtend, extends>>

\* The value and the seconds of the key, and the locals of each request in
\* acquire_lock, extend_lock and release_lock.
LockTypeOK ==
    /\ owner \in Requests \cup {NoOne}
    /\ ttl \in Nat
    /\ pc \in [Requests -> LockPC]
    /\ lease \in [Requests -> Nat]
    /\ readTtl \in [Requests -> Nat]
    /\ byExtend \in [Requests -> Nat]
    /\ extends \in 0..MaxExtends

LockInit ==
    /\ owner = NoOne
    /\ ttl = 0
    /\ pc = [c \in Requests |-> "new"]
    /\ lease = [c \in Requests |-> 0]
    /\ readTtl = [c \in Requests |-> 0]
    /\ byExtend = [c \in Requests |-> 0]
    /\ extends = 0

AcquireWithoutNX(c, timeout) ==
    /\ pc[c] = "new"
    /\ owner' = c
    /\ ttl' = timeout
    /\ lease' = [lease EXCEPT ![c] = timeout]
    /\ pc' = [pc EXCEPT ![c] = "held"]
    /\ UNCHANGED <<readTtl, byExtend, extends>>

AcquireWithoutEX(c, timeout) ==
    /\ pc[c] = "new"
    /\ IF owner = NoOne
       THEN owner' = c /\ pc' = [pc EXCEPT ![c] = "held"]
       ELSE pc' = [pc EXCEPT ![c] = "refused"] /\ UNCHANGED owner
    /\ UNCHANGED <<ttl, lease, readTtl, byExtend, extends>>

\* acquire_lock: SET key token NX EX timeout_seconds.
AcquireLock(c, timeout) ==
    /\ pc[c] = "new"
    /\ IF owner = NoOne
       THEN /\ owner' = c
            /\ ttl' = timeout
            /\ lease' = [lease EXCEPT ![c] = timeout]
            /\ pc' = [pc EXCEPT ![c] = "held"]
       ELSE /\ pc' = [pc EXCEPT ![c] = "refused"]
            /\ UNCHANGED <<owner, ttl, lease>>
    /\ UNCHANGED <<readTtl, byExtend, extends>>

ReleaseWithoutCompare(c) ==
    /\ pc[c] = "held"
    /\ owner' = NoOne
    /\ ttl' = 0
    /\ lease' = [lease EXCEPT ![c] = 0]
    /\ pc' = [pc EXCEPT ![c] = "released"]
    /\ UNCHANGED <<readTtl, byExtend, extends>>

\* release_lock: the script deletes the key only if it holds our token.
ReleaseLock(c) ==
    /\ pc[c] = "held"
    /\ owner' = IF owner = c THEN NoOne ELSE owner
    /\ ttl' = IF owner = c THEN 0 ELSE ttl
    /\ lease' = [lease EXCEPT ![c] = 0]
    /\ pc' = [pc EXCEPT ![c] = "released"]
    /\ UNCHANGED <<readTtl, byExtend, extends>>

\* extend_lock, three round trips: GET, TTL, EXPIRE.
ExtendGet(c, seconds) ==
    /\ c \in Extenders
    /\ pc[c] = "held"
    /\ owner = c
    /\ extends < MaxExtends
    /\ extends' = extends + 1
    /\ byExtend' = [byExtend EXCEPT ![c] = seconds]
    /\ pc' = [pc EXCEPT ![c] = "ttl"]
    /\ UNCHANGED <<owner, ttl, lease, readTtl>>

\* TTL answers -2 for a missing key, which the code turns into 0.
ExtendTtl(c) ==
    /\ pc[c] = "ttl"
    /\ readTtl' = [readTtl EXCEPT ![c] = ttl]
    /\ pc' = [pc EXCEPT ![c] = "expire"]
    /\ UNCHANGED <<owner, ttl, lease, byExtend, extends>>

\* EXPIRE answers 1 for an existing key, whoever's it is by now.
ExtendExpire(c) ==
    /\ pc[c] = "expire"
    /\ IF owner # NoOne
       THEN /\ ttl' = readTtl[c] + byExtend[c]
            /\ lease' = [lease EXCEPT ![c] = readTtl[c] + byExtend[c]]
       ELSE UNCHANGED <<ttl, lease>>
    /\ pc' = [pc EXCEPT ![c] = "held"]
    /\ UNCHANGED <<owner, readTtl, byExtend, extends>>

\* The process of a request dies: the finally block never runs.
Crash(c) ==
    /\ pc[c] \in {"held", "ttl", "expire"}
    /\ pc' = [pc EXCEPT ![c] = "crashed"]
    /\ UNCHANGED <<owner, ttl, lease, readTtl, byExtend, extends>>

\* A second passes; Redis drops a key whose time is over.
Less(n) == IF n = 0 THEN 0 ELSE n - 1

Tick ==
    /\ ttl > 0 \/ \E c \in Requests : lease[c] > 0
    /\ ttl' = Less(ttl)
    /\ owner' = IF ttl' = 0 THEN NoOne ELSE owner
    /\ lease' = [c \in Requests |-> Less(lease[c])]
    /\ UNCHANGED <<pc, readTtl, byExtend, extends>>

Request(c) ==
    \/ \E s \in Timeouts : AcquireLock(c, s)
    \/ \E s \in Extensions : ExtendGet(c, s)
    \/ ReleaseLock(c) \/ ExtendTtl(c) \/ ExtendExpire(c) \/ Crash(c)

LockNext == Tick \/ \E c \in Requests : Request(c)

\* Time passes; requests owe nothing, they may hang or crash.
LockSpec == LockInit /\ [][LockNext]_lockVars /\ WF_lockVars(Tick)

-----------------------------------------------------------------------------
Holds(c) == pc[c] \in {"held", "ttl", "expire"}

\* Two requests never hold the lock together within the time each was promised.
\* The code gives this only as long as nobody extends a lease: EXPIRE may hit
\* a key that has changed hands since GET.
LeaseExclusion ==
    extends = 0 =>
        \A c, d \in Requests :
            Holds(c) /\ Holds(d) /\ lease[c] > 0 /\ lease[d] > 0 => c = d

\* The holder's key lives exactly as long as the holder was promised.
LeaseHonoured ==
    extends = 0 =>
        \A c \in Requests : Holds(c) /\ lease[c] > 0 => owner = c /\ ttl = lease[c]

\* A key only goes away when its time is over or its own holder releases it:
\* a late release never takes the lock from the next holder.
OnlyHolderReleases ==
    [][owner # NoOne /\ owner' # owner =>
          ttl = 1 \/ (pc[owner] = "held" /\ pc'[owner] = "released")]_lockVars

\* A lock whose holder hangs or crashes is free again some time.
LockIsFreed == \A c \in Requests : (owner = c) ~> (owner # c)
=============================================================================
