---------------------------- MODULE QueryPipeline ----------------------------
(***************************************************************************)
(* The asynchronous query pipeline of the backend.                         *)
(*                                                                         *)
(* A request handler of the API saves a transaction hash in Redis and      *)
(* appends a message to the stream "query_transactions"; worker processes  *)
(* of one consumer group read the stream, execute the query on Kuzu, write *)
(* the final status, cache the rows, emit an event and acknowledge the     *)
(* message.  Another handler may cancel a transaction, a third one reads   *)
(* the cached rows.                                                        *)
(*                                                                         *)
(* Every `await' on Redis is one step, because that is where the event     *)
(* loop of the API and the other processes run.  A step that fails is an   *)
(* action of its own: the code reacts to an exception in one place only.   *)
(*                                                                         *)
(* Definitions that no action of Next uses (UndeliveredFromStart,          *)
(* XDelAndStop, ...) are faulty variants of the definition they precede:   *)
(* with one of them in its place some property below fails.                *)
(***************************************************************************)
EXTENDS Naturals, FiniteSets

CONSTANTS
    Tx,          \* transactions; uuid4() makes each submission a fresh one
    Mutating,    \* those whose query text starts with a mutating verb
    Workers,     \* query worker processes (one consumer group)
    Cancels,     \* cancel requests
    Readers,     \* requests for the rows of a job
    MaxLen,      \* maxlen of the stream
    MaxFaults,   \* bound: awaited calls that raise
    MaxCrashes,  \* bound: worker processes that are killed
    NoTx,        \* "no transaction"
    NoOne        \* "nobody holds the lock"

ASSUME PipelineAssumption ==
    /\ IsFiniteSet(Tx)
    /\ Mutating \subseteq Tx
    /\ MaxLen \in Nat \ {0}
    /\ MaxFaults \in Nat
    /\ MaxCrashes \in Nat
    /\ NoTx \notin Tx
    /\ NoOne \notin Cancels

Status   == {"none", "pending", "running", "completed", "failed", "timeout"}
Terminal == {"completed", "failed", "timeout"}

SubmitPC == {"new", "index", "enqueue", "done", "error"}
WorkerPC == {"idle", "find", "mark", "index", "checkout", "exec", "wal",
             "hset", "srem", "cache", "emit", "xack", "xdel", "dead"}
CancelPC == {"new", "acquire", "hset", "srem", "del", "emit", "release", "done"}
ReaderPC == {"new", "cache", "rows", "empty", "refused"}
EventType == {"completed", "failed", "timeout", "query_cancelled"}

VARIABLES
    \* Redis: transaction repository
    status,         \* field "status" of the hash tx:<id>; "none": no such key
    tenantIds,      \* the set tx:tenant:<tenant>:ids
    running,        \* the set tx:running
    \* Redis: stream and consumer group
    msgId,          \* stream id of the message of a transaction (0: none yet)
    topId,          \* last generated stream id
    entries,        \* transactions whose message is in the stream
    lastDelivered,  \* the group's last-delivered-id
    pel,            \* the group's pending entries list
    \* Redis: rows cached under tx_results:<id>, events, cancel locks
    results,
    events,
    lock,
    \* Kuzu and the WAL objects
    applied,        \* how often the query of a transaction was executed
    queryError,     \* transactions whose execution returned an error payload
    wal,            \* transactions with an entry in the WAL
    \* processes
    spc,            \* submit handler of a transaction
    wpc, wtx, wout, wbound,  \* worker: control, message, outcome, locals bound
    cpc, ctx,       \* cancel handler
    rpc, rtx,       \* reader
    notified,       \* history: readers that asked after the event "completed"
    rowsLost,       \* history: rows not cached, expired or deleted
    faults, crashes

redis    == <<status, tenantIds, running>>
stream   == <<msgId, topId, entries, lastDelivered, pel>>
outputs  == <<results, events, rowsLost>>
database == <<applied, queryError, wal>>
workers  == <<wpc, wtx, wout, wbound>>
cancel   == <<cpc, ctx, lock>>
readers  == <<rpc, rtx, notified>>
bounds   == <<faults, crashes>>

vars == <<redis, stream, outputs, database, spc, workers, cancel, readers,
          bounds>>

TypeOK ==
    /\ status \in [Tx -> Status]
    /\ tenantIds \in SUBSET Tx
    /\ running \in SUBSET Tx
    /\ msgId \in [Tx -> Nat]
    /\ topId \in Nat
    /\ entries \in SUBSET Tx
    /\ lastDelivered \in Nat
    /\ pel \in SUBSET Tx
    /\ results \in SUBSET Tx
    /\ events \in SUBSET (EventType \X Tx)
    /\ lock \in [Tx -> Cancels \cup {NoOne}]
    /\ applied \in [Tx -> Nat]
    /\ queryError \in SUBSET Tx
    /\ wal \in SUBSET Tx
    /\ spc \in [Tx -> SubmitPC]
    /\ wpc \in [Workers -> WorkerPC]
    /\ wtx \in [Workers -> Tx \cup {NoTx}]
    /\ wout \in [Workers -> Terminal]
    /\ wbound \in [Workers -> BOOLEAN]
    /\ cpc \in [Cancels -> CancelPC]
    /\ ctx \in [Cancels -> Tx \cup {NoTx}]
    /\ rpc \in [Readers -> ReaderPC]
    /\ rtx \in [Readers -> Tx \cup {NoTx}]
    /\ notified \in SUBSET Readers
    /\ rowsLost \in SUBSET Tx
    /\ faults \in 0..MaxFaults
    /\ crashes \in 0..MaxCrashes

Init ==
    /\ status = [t \in Tx |-> "none"]
    /\ tenantIds = {}
    /\ running = {}
    /\ msgId = [t \in Tx |-> 0]
    /\ topId = 0
    /\ entries = {}
    /\ lastDelivered = 0
    /\ pel = {}
    /\ results = {}
    /\ events = {}
    /\ lock = [t \in Tx |-> NoOne]
    /\ applied = [t \in Tx |-> 0]
    /\ queryError = {}
    /\ wal = {}
    /\ spc = [t \in Tx |-> "new"]
    /\ wpc = [w \in Workers |-> "idle"]
    /\ wtx = [w \in Workers |-> NoTx]
    /\ wout = [w \in Workers |-> "completed"]
    /\ wbound = [w \in Workers |-> FALSE]
    /\ cpc = [c \in Cancels |-> "new"]
    /\ ctx = [c \in Cancels |-> NoTx]
    /\ rpc = [r \in Readers |-> "new"]
    /\ rtx = [r \in Readers |-> NoTx]
    /\ notified = {}
    /\ rowsLost = {}
    /\ faults = 0
    /\ crashes = 0

-----------------------------------------------------------------------------
(* SubmitAsyncQueryUseCase.execute: save the hash, index it, XADD.  The     *)
(* catalog increment between them is best effort and touches other state.   *)

SaveHash(t) ==
    /\ spc[t] = "new"
    /\ spc' = [spc EXCEPT ![t] = "index"]
    /\ status' = [status EXCEPT ![t] = "pending"]
    /\ UNCHANGED <<tenantIds, running, stream, outputs, database, workers,
                   cancel, readers, bounds>>

IndexTenant(t) ==
    /\ spc[t] = "index"
    /\ spc' = [spc EXCEPT ![t] = "enqueue"]
    /\ tenantIds' = tenantIds \cup {t}
    /\ UNCHANGED <<status, running, stream, outputs, database, workers,
                   cancel, readers, bounds>>

NewestOffByOne(S, ids) ==
    {u \in S : Cardinality({v \in S : ids[v] > ids[u]}) < MaxLen - 1}

\* XADD ... MAXLEN = maxlen keeps the newest maxlen entries, delivered or not.
Newest(S, ids) ==
    {u \in S : Cardinality({v \in S : ids[v] > ids[u]}) < MaxLen}

Enqueue(t) ==
    /\ spc[t] = "enqueue"
    /\ spc' = [spc EXCEPT ![t] = "done"]
    /\ topId' = topId + 1
    /\ msgId' = [msgId EXCEPT ![t] = topId + 1]
    /\ entries' = Newest(entries \cup {t}, msgId')
    /\ UNCHANGED <<redis, lastDelivered, pel, outputs, database, workers,
                   cancel, readers, bounds>>

\* A Redis call of the handler raises: HTTP 500, what was written stays.
SubmitFails(t) ==
    /\ spc[t] \in {"index", "enqueue"}
    /\ faults < MaxFaults
    /\ faults' = faults + 1
    /\ spc' = [spc EXCEPT ![t] = "error"]
    /\ UNCHANGED <<redis, stream, outputs, database, workers, cancel, readers,
                   crashes>>

-----------------------------------------------------------------------------
(* RedisMessageQueueService.dequeue_transaction: XREADGROUP with id ">"     *)
(* returns the first entry the group has not delivered yet, never one of    *)
(* the pending entries list.                                                *)

UndeliveredFromStart == entries

Undelivered == {t \in entries : msgId[t] > lastDelivered}

DeliverNoAck(t) ==
    /\ t \in Undelivered
    /\ \A u \in Undelivered : msgId[t] <= msgId[u]
    /\ lastDelivered' = msgId[t]
    /\ UNCHANGED pel

Deliver(t) ==
    /\ t \in Undelivered
    /\ \A u \in Undelivered : msgId[t] <= msgId[u]
    /\ lastDelivered' = msgId[t]
    /\ pel' = pel \cup {t}

Dequeue(w) ==
    /\ wpc[w] = "idle"
    /\ \E t \in Tx : Deliver(t) /\ wtx' = [wtx EXCEPT ![w] = t]
    /\ wpc' = [wpc EXCEPT ![w] = "find"]
    /\ wout' = [wout EXCEPT ![w] = "completed"]
    /\ wbound' = [wbound EXCEPT ![w] = FALSE]
    /\ UNCHANGED <<redis, msgId, topId, entries, outputs, database, spc,
                   cancel, readers, bounds>>

\* XREADGROUP raises, perhaps after Redis has delivered an entry to it.  The
\* handlers name tx_id, which is not bound yet: run_forever ends.
PollFails(w) ==
    /\ wpc[w] = "idle"
    /\ faults < MaxFaults
    /\ faults' = faults + 1
    /\ (\E t \in Tx : Deliver(t)) \/ UNCHANGED <<lastDelivered, pel>>
    /\ wpc' = [wpc EXCEPT ![w] = "dead"]
    /\ UNCHANGED <<redis, msgId, topId, entries, outputs, database, spc, wtx,
                   wout, wbound, cancel, readers, crashes>>

\* A message whose hash is missing is acknowledged and dropped; otherwise the
\* local database_id, which the exception handlers print, becomes bound.
FindById(w) ==
    /\ wpc[w] = "find"
    /\ wpc' = [wpc EXCEPT ![w] =
                  IF status[wtx[w]] = "none" THEN "xack" ELSE "mark"]
    /\ wbound' = [wbound EXCEPT ![w] = status[wtx[w]] # "none"]
    /\ UNCHANGED <<redis, stream, outputs, database, spc, wtx, wout, cancel,
                   readers, bounds>>

\* update_status(RUNNING): HSET, then SADD; the previous status is not read.
MarkRunning(w) ==
    /\ wpc[w] = "mark"
    /\ status' = [status EXCEPT ![wtx[w]] = "running"]
    /\ wpc' = [wpc EXCEPT ![w] = "index"]
    /\ UNCHANGED <<tenantIds, running, stream, outputs, database, spc, wtx,
                   wout, wbound, cancel, readers, bounds>>

IndexRunning(w) ==
    /\ wpc[w] = "index"
    /\ running' = running \cup {wtx[w]}
    /\ wpc' = [wpc EXCEPT ![w] = "checkout"]
    /\ UNCHANGED <<status, tenantIds, stream, outputs, database, spc, wtx,
                   wout, wbound, cancel, readers, bounds>>

\* _ensure_local_db found or fetched the database.
CheckoutReady(w) ==
    /\ wpc[w] = "checkout"
    /\ wpc' = [wpc EXCEPT ![w] = "exec"]
    /\ UNCHANGED <<redis, stream, outputs, database, spc, wtx, wout, wbound,
                   cancel, readers, bounds>>

CheckoutErrorIgnored(w) ==
    /\ wpc[w] = "checkout"
    /\ faults < MaxFaults
    /\ faults' = faults + 1
    /\ wpc' = [wpc EXCEPT ![w] = "hset"]
    /\ UNCHANGED <<redis, stream, outputs, database, spc, wtx, wout, wbound,
                   cancel, readers, crashes>>

\* _ensure_local_db raises.  TimeoutError (lock busy) is asyncio.TimeoutError
\* from Python 3.11 on and an ordinary exception on 3.10, which the image uses.
CheckoutFails(w) ==
    /\ wpc[w] = "checkout"
    /\ faults < MaxFaults
    /\ faults' = faults + 1
    /\ \E out \in {"failed", "timeout"} : wout' = [wout EXCEPT ![w] = out]
    /\ wpc' = [wpc EXCEPT ![w] = "hset"]
    /\ UNCHANGED <<redis, stream, outputs, database, spc, wtx, wbound, cancel,
                   readers, crashes>>

\* KuzuQueryExecutionAdapter.execute_query: rows, or an error payload that the
\* adapter makes of every exception.  Either way run_once carries on.
ExecuteQuery(w) ==
    /\ wpc[w] = "exec"
    /\ applied' = [applied EXCEPT ![wtx[w]] = @ + 1]
    /\ \E err \in {{}, {wtx[w]}} : queryError' = queryError \cup err
    /\ wpc' = [wpc EXCEPT ![w] = IF wtx[w] \in Mutating THEN "wal" ELSE "hset"]
    /\ UNCHANGED <<redis, stream, outputs, wal, spc, wtx, wout, wbound, cancel,
                   readers, bounds>>

\* _append_wal_entry never raises: a busy lock or an error skips the entry.
AppendWal(w) ==
    /\ wpc[w] = "wal"
    /\ \E entry \in {{}, {wtx[w]}} : wal' = wal \cup entry
    /\ wpc' = [wpc EXCEPT ![w] = "hset"]
    /\ UNCHANGED <<redis, stream, outputs, applied, queryError, spc, wtx, wout,
                   wbound, cancel, readers, bounds>>

\* update_status(COMPLETED | FAILED | TIMEOUT): HSET, then SREM.
WriteOutcome(w) ==
    /\ wpc[w] = "hset"
    /\ status' = [status EXCEPT ![wtx[w]] = wout[w]]
    /\ wpc' = [wpc EXCEPT ![w] = "srem"]
    /\ UNCHANGED <<tenantIds, running, stream, outputs, database, spc, wtx,
                   wout, wbound, cancel, readers, bounds>>

EmitBeforeCache(w) ==
    /\ wpc[w] = "srem"
    /\ running' = running \ {wtx[w]}
    /\ wpc' = [wpc EXCEPT ![w] = "emit"]
    /\ UNCHANGED <<status, tenantIds, stream, outputs, database, spc, wtx,
                   wout, wbound, cancel, readers, bounds>>

NeverUnindexed(w) ==
    /\ wpc[w] = "srem"
    /\ wpc' = [wpc EXCEPT ![w] = IF wout[w] = "completed" THEN "cache" ELSE "emit"]
    /\ UNCHANGED <<redis, stream, outputs, database, spc, wtx, wout, wbound,
                   cancel, readers, bounds>>

UnindexRunning(w) ==
    /\ wpc[w] = "srem"
    /\ running' = running \ {wtx[w]}
    /\ wpc' = [wpc EXCEPT ![w] = IF wout[w] = "completed" THEN "cache" ELSE "emit"]
    /\ UNCHANGED <<status, tenantIds, stream, outputs, database, spc, wtx,
                   wout, wbound, cancel, readers, bounds>>

\* cache.set(tx_results:<id>); an exception is logged and swallowed.
CacheRows(w) ==
    /\ wpc[w] = "cache"
    /\ \/ results' = results \cup {wtx[w]} /\ UNCHANGED <<rowsLost, faults>>
       \/ /\ faults < MaxFaults
          /\ faults' = faults + 1
          /\ rowsLost' = rowsLost \cup {wtx[w]}
          /\ UNCHANGED results
    /\ wpc' = [wpc EXCEPT ![w] = "emit"]
    /\ UNCHANGED <<redis, stream, events, database, spc, wtx, wout, wbound,
                   cancel, readers, crashes>>

\* _emit_event: XADD to events:<tenant>; its exceptions are swallowed too.  In
\* the handlers, str(database_id) raises UnboundLocalError when find_by_id was
\* what failed: it leaves run_once and ends run_forever.
EmitOutcome(w) ==
    /\ wpc[w] = "emit"
    /\ IF wbound[w]
       THEN /\ \E sent \in {{}, {<<wout[w], wtx[w]>>}} : events' = events \cup sent
            /\ wpc' = [wpc EXCEPT ![w] = "xack"]
       ELSE wpc' = [wpc EXCEPT ![w] = "dead"] /\ UNCHANGED events
    /\ UNCHANGED <<redis, stream, results, rowsLost, database, spc, wtx, wout,
                   wbound, cancel, readers, bounds>>

\* acknowledge_transaction: XACK, then XDEL; then the loop polls again.
XAck(w) ==
    /\ wpc[w] = "xack"
    /\ pel' = pel \ {wtx[w]}
    /\ wpc' = [wpc EXCEPT ![w] = "xdel"]
    /\ UNCHANGED <<redis, msgId, topId, entries, lastDelivered, outputs,
                   database, spc, wtx, wout, wbound, cancel, readers, bounds>>

XDelAndStop(w) ==
    /\ wpc[w] = "xdel"
    /\ entries' = entries \ {wtx[w]}
    /\ wpc' = [wpc EXCEPT ![w] = "dead"]
    /\ wtx' = [wtx EXCEPT ![w] = NoTx]
    /\ UNCHANGED <<redis, msgId, topId, lastDelivered, pel, outputs, database,
                   spc, wout, wbound, cancel, readers, bounds>>

XDel(w) ==
    /\ wpc[w] = "xdel"
    /\ entries' = entries \ {wtx[w]}
    /\ wpc' = [wpc EXCEPT ![w] = "idle"]
    /\ wtx' = [wtx EXCEPT ![w] = NoTx]
    /\ UNCHANGED <<redis, msgId, topId, lastDelivered, pel, outputs, database,
                   spc, wout, wbound, cancel, readers, bounds>>

CallFailsUncaught(w) ==
    /\ wpc[w] \in {"find", "mark", "index", "hset", "srem", "xack", "xdel"}
    /\ faults < MaxFaults
    /\ faults' = faults + 1
    /\ wpc' = [wpc EXCEPT ![w] = "dead"]
    /\ UNCHANGED <<redis, stream, outputs, database, spc, wtx, wout, wbound,
                   cancel, readers, crashes>>

\* An awaited Redis call of run_once raises.  In the try block the handler
\* writes FAILED, even over a COMPLETED it follows; in the handler nothing
\* catches the exception and run_forever ends.
CallFails(w) ==
    /\ wpc[w] \in {"find", "mark", "index", "hset", "srem", "xack", "xdel"}
    /\ faults < MaxFaults
    /\ faults' = faults + 1
    /\ IF wout[w] = "completed"
       THEN /\ wpc' = [wpc EXCEPT ![w] = "hset"]
            /\ wout' = [wout EXCEPT ![w] = "failed"]
       ELSE /\ wpc' = [wpc EXCEPT ![w] = "dead"]
            /\ UNCHANGED wout
    /\ UNCHANGED <<redis, stream, outputs, database, spc, wtx, wbound, cancel,
                   readers, crashes>>

\* The process is killed; nothing of it survives but what is in Redis.
Crash(w) ==
    /\ wpc[w] # "dead"
    /\ crashes < MaxCrashes
    /\ crashes' = crashes + 1
    /\ wpc' = [wpc EXCEPT ![w] = "dead"]
    /\ UNCHANGED <<redis, stream, outputs, database, spc, wtx, wout, wbound,
                   cancel, readers, faults>>

\* scripts/run_query_worker.py is started again, under the same consumer name.
Restart(w) ==
    /\ wpc[w] = "dead"
    /\ wpc' = [wpc EXCEPT ![w] = "idle"]
    /\ wtx' = [wtx EXCEPT ![w] = NoTx]
    /\ UNCHANGED <<redis, stream, outputs, database, spc, wout, wbound, cancel,
                   readers, bounds>>

-----------------------------------------------------------------------------
(* CancelQueryUseCase.execute                                               *)

\* find_by_id and the status test come before the lock is asked for.
CancelFind(c, t) ==
    /\ cpc[c] = "new"
    /\ status[t] # "none"
    /\ ctx' = [ctx EXCEPT ![c] = t]
    /\ cpc' = [cpc EXCEPT ![c] =
                  IF status[t] \in {"pending", "running"} THEN "acquire" ELSE "done"]
    /\ UNCHANGED <<redis, stream, outputs, database, spc, workers, lock,
                   readers, bounds>>

\* SET NX EX; a busy lock is a RuntimeError to the caller.
CancelAcquire(c) ==
    /\ cpc[c] = "acquire"
    /\ IF lock[ctx[c]] = NoOne
       THEN /\ lock' = [lock EXCEPT ![ctx[c]] = c]
            /\ cpc' = [cpc EXCEPT ![c] = "hset"]
       ELSE cpc' = [cpc EXCEPT ![c] = "done"] /\ UNCHANGED lock
    /\ UNCHANGED <<redis, stream, outputs, database, spc, workers, ctx,
                   readers, bounds>>

CancelHset(c) ==
    /\ cpc[c] = "hset"
    /\ status' = [status EXCEPT ![ctx[c]] = "failed"]
    /\ cpc' = [cpc EXCEPT ![c] = "srem"]
    /\ UNCHANGED <<tenantIds, running, stream, outputs, database, spc, workers,
                   ctx, lock, readers, bounds>>

CancelSrem(c) ==
    /\ cpc[c] = "srem"
    /\ running' = running \ {ctx[c]}
    /\ cpc' = [cpc EXCEPT ![c] = "del"]
    /\ UNCHANGED <<status, tenantIds, stream, outputs, database, spc, workers,
                   ctx, lock, readers, bounds>>

CancelDelete(c) ==
    /\ cpc[c] = "del"
    /\ results' = results \ {ctx[c]}
    /\ rowsLost' = rowsLost \cup {ctx[c]}
    /\ cpc' = [cpc EXCEPT ![c] = "emit"]
    /\ UNCHANGED <<redis, stream, events, database, spc, workers, ctx, lock,
                   readers, bounds>>

CancelEmit(c) ==
    /\ cpc[c] = "emit"
    /\ events' = events \cup {<<"query_cancelled", ctx[c]>>}
    /\ cpc' = [cpc EXCEPT ![c] = "release"]
    /\ UNCHANGED <<redis, stream, results, rowsLost, database, spc, workers,
                   ctx, lock, readers, bounds>>

\* The Lua script deletes the key only when it still holds our token.
CancelRelease(c) ==
    /\ cpc[c] = "release"
    /\ lock' = [lock EXCEPT ![ctx[c]] = IF @ = c THEN NoOne ELSE @]
    /\ cpc' = [cpc EXCEPT ![c] = "done"]
    /\ UNCHANGED <<redis, stream, outputs, database, spc, workers, ctx,
                   readers, bounds>>

\* A call inside the try raises: the finally releases, the caller gets a 500.
CancelFails(c) ==
    /\ cpc[c] \in {"hset", "srem", "del", "emit"}
    /\ faults < MaxFaults
    /\ faults' = faults + 1
    /\ cpc' = [cpc EXCEPT ![c] = "release"]
    /\ UNCHANGED <<redis, stream, outputs, database, spc, workers, ctx, lock,
                   readers, crashes>>

\* The five seconds of the lock are over, whatever its holder is doing.
LockExpires(t) ==
    /\ lock[t] # NoOne
    /\ lock' = [lock EXCEPT ![t] = NoOne]
    /\ UNCHANGED <<redis, stream, outputs, database, spc, workers, cpc, ctx,
                   readers, bounds>>

-----------------------------------------------------------------------------
(* GetQueryResultsUseCase.execute behind GET /jobs/{id}/results             *)

ReadStatus(r, t) ==
    /\ rpc[r] = "new"
    /\ status[t] # "none"
    /\ rtx' = [rtx EXCEPT ![r] = t]
    /\ rpc' = [rpc EXCEPT ![r] =
                  IF status[t] = "completed" THEN "cache" ELSE "refused"]
    /\ notified' = IF <<"completed", t>> \in events
                      THEN notified \cup {r} ELSE notified
    /\ UNCHANGED <<redis, stream, outputs, database, spc, workers, cancel,
                   bounds>>

\* A miss is answered {"results": []}.
ReadRows(r) ==
    /\ rpc[r] = "cache"
    /\ rpc' = [rpc EXCEPT ![r] = IF rtx[r] \in results THEN "rows" ELSE "empty"]
    /\ UNCHANGED <<redis, stream, outputs, database, spc, workers, cancel, rtx,
                   notified, bounds>>

\* tx_results:<id> lives for one hour.
RowsExpire(t) ==
    /\ t \in results
    /\ results' = results \ {t}
    /\ rowsLost' = rowsLost \cup {t}
    /\ UNCHANGED <<redis, stream, events, database, spc, workers, cancel,
                   readers, bounds>>

-----------------------------------------------------------------------------
Submit(t) == SaveHash(t) \/ IndexTenant(t) \/ Enqueue(t)

RunOnce(w) ==
    \/ Dequeue(w) \/ FindById(w) \/ MarkRunning(w) \/ IndexRunning(w)
    \/ CheckoutReady(w) \/ ExecuteQuery(w) \/ AppendWal(w)
    \/ WriteOutcome(w) \/ UnindexRunning(w) \/ CacheRows(w)
    \/ EmitOutcome(w) \/ XAck(w) \/ XDel(w)

WorkerFault(w) ==
    \/ PollFails(w) \/ CheckoutFails(w) \/ CallFails(w) \/ Crash(w) \/ Restart(w)

CancelStep(c) ==
    \/ \E t \in Tx : CancelFind(c, t)
    \/ CancelAcquire(c) \/ CancelHset(c) \/ CancelSrem(c) \/ CancelDelete(c)
    \/ CancelEmit(c) \/ CancelRelease(c) \/ CancelFails(c)

ReaderStep(r) == (\E t \in Tx : ReadStatus(r, t)) \/ ReadRows(r)

Next ==
    \/ \E t \in Tx : Submit(t) \/ SubmitFails(t)
    \/ \E w \in Workers : RunOnce(w) \/ WorkerFault(w)
    \/ \E c \in Cancels : CancelStep(c)
    \/ \E r \in Readers : ReaderStep(r)
    \/ \E t \in Tx : LockExpires(t) \/ RowsExpire(t)

Spec == Init /\ [][Next]_vars

(***************************************************************************)
(* run_forever polls without end, so a live worker keeps taking steps.     *)
(* Clients owe nothing, and neither does whoever restarts a dead process.  *)
(***************************************************************************)
FairSpec == Spec /\ \A w \in Workers : WF_vars(RunOnce(w))

-----------------------------------------------------------------------------
(***************************************************************************)
(* Properties                                                              *)
(***************************************************************************)

Active(w) == wpc[w] \notin {"idle", "dead"}

\* A query is executed at most once, whatever crashes, fails or is cancelled:
\* the group never delivers an entry a second time (redis_queue_service.py
\* reads ">" only), and run_once never goes back to the execution.
AtMostOnce == \A t \in Tx : applied[t] <= 1

\* No two workers ever work on the same transaction.
OneWorkerPerTx ==
    \A v, w \in Workers : Active(v) /\ Active(w) /\ v # w => wtx[v] # wtx[w]

\* Whatever the repository shows as running, by the hash or by the set
\* tx:running, is an entry of the pending list: the list is enough to find
\* every job that a dead worker left behind.
RunningIsPending ==
    /\ \A t \in Tx : status[t] = "running" => t \in pel
    /\ running \subseteq pel

\* Nobody ever reads a message whose transaction is not saved and indexed.
QueuedIsSaved ==
    \A t \in entries \cup pel : status[t] # "none" /\ t \in tenantIds

\* COMPLETED is only ever written for a query that was executed.
CompletedWasExecuted ==
    \A t \in Tx : status[t] = "completed" => applied[t] > 0

\* A client that waits for the event "completed" before it asks for the rows
\* finds them in the cache, unless they expired or a cancellation deleted them.
EventAfterRows ==
    \A t \in Tx : <<"completed", t>> \in events => t \in results \cup rowsLost

\* A client that asks for the rows once it has seen the event is never answered
\* with the empty list of a miss, unless the rows expired or were deleted.
NotifiedReadersGetRows ==
    \A r \in notified : rpc[r] = "empty" => rtx[r] \in rowsLost

\* An accepted job that is still pending has a message some worker will read,
\* or one that a worker has taken, unless at least MaxLen younger messages
\* pushed it out: only the cap of the stream ever loses a job.
NoJobForgotten ==
    \A t \in Tx : spc[t] = "done" /\ status[t] = "pending" =>
        \/ t \in Undelivered \cup pel
        \/ Cardinality({u \in Tx : msgId[u] > msgId[t]}) >= MaxLen

\* Once its query was executed, a transaction that has left the status running
\* never gets it back: neither a second worker nor a restarted one writes it.
NotRunningAgain ==
    [][\A t \in Tx : applied[t] > 0 /\ status[t] # "running"
                        => status'[t] # "running"]_status

\* Every job in the stream is delivered to some worker, even when a worker
\* process ends because its XREADGROUP raised, or as many younger ones as the
\* stream holds push it out first.
EventuallyDelivered ==
    \A t \in Tx : (t \in Undelivered) ~>
        (t \in pel \/ Cardinality({u \in Tx : msgId[u] > msgId[t]}) >= MaxLen)

\* A job that a worker has received reaches a terminal status and keeps one:
\* the handlers of run_once absorb one failed Redis call wherever it strikes.
EventuallySettled ==
    \A t \in Tx : (\E w \in Workers : Active(w) /\ wtx[w] = t)
                    ~> [](status[t] \in Terminal)

\* To its clients the pipeline is the queue of JobQueue: whatever workers,
\* cancellations, faults and restarts do, a job is handed out in its turn and
\* once, runs at most once, and is completed only when it ran.
JQ == INSTANCE JobQueue WITH
          Jobs <- Tx, Cap <- MaxLen, ticket <- msgId, last <- topId,
          waiting <- Undelivered, out <- pel,
          executed <- {t \in Tx : applied[t] > 0}

ImplementsJobQueue == JQ!Spec

=============================================================================
