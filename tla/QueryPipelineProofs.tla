------------------------- MODULE QueryPipelineProofs -------------------------
(***************************************************************************)
(* Proofs about the query pipeline, for every number of transactions,      *)
(* workers, cancel requests and readers, every stream cap and every number *)
(* of failed calls and crashes.                                            *)
(*                                                                         *)
(* The inductive invariant is built in three layers, each proved with the  *)
(* ones before it: typing (TypeInv), the stream and who owns which message *)
(* (QueueInv), and what statuses and executions say (StatusInv).           *)
(***************************************************************************)
EXTENDS QueryPipeline, FiniteSetTheorems, TLAPS

-----------------------------------------------------------------------------
(* Layer 1: typing *)

\* A process that is past its first step knows its transaction.
TargetsKnown ==
    /\ \A w \in Workers : Active(w) => wtx[w] \in Tx
    /\ \A c \in Cancels : cpc[c] # "new" => ctx[c] \in Tx

TypeInv == TypeOK /\ TargetsKnown

LEMMA TypeInvInit == Init => TypeInv
  BY PipelineAssumption
  DEF Init, TypeInv, TypeOK, TargetsKnown, Active, Status, Terminal, SubmitPC,
      WorkerPC, CancelPC, ReaderPC

LEMMA TypeInvSubmit ==
    ASSUME TypeInv, NEW t \in Tx, Submit(t) \/ SubmitFails(t)
    PROVE  TypeInv'
  <1> USE PipelineAssumption
      DEF TypeInv, TypeOK, TargetsKnown, Active, Status, SubmitPC, redis,
          stream, outputs, database, workers, cancel, readers, bounds
  <1>1. CASE SaveHash(t)
    BY <1>1 DEF SaveHash
  <1>2. CASE IndexTenant(t)
    BY <1>2 DEF IndexTenant
  <1>3. CASE Enqueue(t)
    BY <1>3 DEF Enqueue, Newest
  <1>4. CASE SubmitFails(t)
    BY <1>4 DEF SubmitFails
  <1> QED
    BY <1>1, <1>2, <1>3, <1>4 DEF Submit

LEMMA TypeInvRunOnce ==
    ASSUME TypeInv, NEW w \in Workers, RunOnce(w)
    PROVE  TypeInv'
  <1> USE PipelineAssumption
      DEF TypeInv, TypeOK, TargetsKnown, Active, Status, Terminal, WorkerPC,
          redis, stream, outputs, database, workers, cancel, readers, bounds
  <1>1. CASE Dequeue(w)
    BY <1>1 DEF Dequeue, Deliver, Undelivered
  <1>2. CASE FindById(w)
    BY <1>2 DEF FindById
  <1>3. CASE MarkRunning(w)
    BY <1>3 DEF MarkRunning
  <1>4. CASE IndexRunning(w)
    BY <1>4 DEF IndexRunning
  <1>5. CASE CheckoutReady(w)
    BY <1>5 DEF CheckoutReady
  <1>6. CASE ExecuteQuery(w)
    BY <1>6 DEF ExecuteQuery
  <1>7. CASE AppendWal(w)
    BY <1>7 DEF AppendWal
  <1>8. CASE WriteOutcome(w)
    BY <1>8 DEF WriteOutcome
  <1>9. CASE UnindexRunning(w)
    BY <1>9 DEF UnindexRunning
  <1>10. CASE CacheRows(w)
    BY <1>10 DEF CacheRows
  <1>11. CASE EmitOutcome(w)
    BY <1>11 DEF EmitOutcome, EventType
  <1>12. CASE XAck(w)
    BY <1>12 DEF XAck
  <1>13. CASE XDel(w)
    BY <1>13 DEF XDel
  <1> QED
    BY <1>1, <1>2, <1>3, <1>4, <1>5, <1>6, <1>7, <1>8, <1>9, <1>10, <1>11,
       <1>12, <1>13 DEF RunOnce

LEMMA TypeInvFault ==
    ASSUME TypeInv, NEW w \in Workers, WorkerFault(w)
    PROVE  TypeInv'
  <1> USE PipelineAssumption
      DEF TypeInv, TypeOK, TargetsKnown, Active, Status, Terminal, WorkerPC,
          redis, stream, outputs, database, workers, cancel, readers, bounds
  <1>1. CASE CheckoutFails(w)
    BY <1>1 DEF CheckoutFails
  <1>2. CASE CallFails(w)
    BY <1>2 DEF CallFails
  <1>3. CASE Crash(w)
    BY <1>3 DEF Crash
  <1>4. CASE Restart(w)
    BY <1>4 DEF Restart
  <1>5. CASE PollFails(w)
    BY <1>5 DEF PollFails, Deliver, Undelivered
  <1> QED
    BY <1>1, <1>2, <1>3, <1>4, <1>5 DEF WorkerFault

LEMMA TypeInvCancel ==
    ASSUME TypeInv, NEW c \in Cancels, CancelStep(c)
    PROVE  TypeInv'
  <1> USE PipelineAssumption
      DEF TypeInv, TypeOK, TargetsKnown, Active, Status, CancelPC, redis,
          stream, outputs, database, workers, cancel, readers, bounds
  <1>1. ASSUME NEW t \in Tx, CancelFind(c, t)
        PROVE  TypeInv'
    BY <1>1 DEF CancelFind
  <1>2. CASE CancelAcquire(c)
    BY <1>2 DEF CancelAcquire
  <1>3. CASE CancelHset(c)
    BY <1>3 DEF CancelHset
  <1>4. CASE CancelSrem(c)
    BY <1>4 DEF CancelSrem
  <1>5. CASE CancelDelete(c)
    BY <1>5 DEF CancelDelete
  <1>6. CASE CancelEmit(c)
    BY <1>6 DEF CancelEmit, EventType
  <1>7. CASE CancelRelease(c)
    BY <1>7 DEF CancelRelease
  <1>8. CASE CancelFails(c)
    BY <1>8 DEF CancelFails
  <1> QED
    BY <1>1, <1>2, <1>3, <1>4, <1>5, <1>6, <1>7, <1>8 DEF CancelStep

LEMMA TypeInvOther ==
    ASSUME TypeInv,
           \/ \E r \in Readers : ReaderStep(r)
           \/ \E t \in Tx : LockExpires(t) \/ RowsExpire(t)
           \/ UNCHANGED vars
    PROVE  TypeInv'
  <1> USE PipelineAssumption
      DEF TypeInv, TypeOK, TargetsKnown, Active, ReaderPC, redis, stream,
          outputs, database, workers, cancel, readers, bounds
  <1>1. ASSUME NEW r \in Readers, NEW t \in Tx, ReadStatus(r, t)
        PROVE  TypeInv'
    BY <1>1 DEF ReadStatus
  <1>2. ASSUME NEW r \in Readers, ReadRows(r)
        PROVE  TypeInv'
    BY <1>2 DEF ReadRows
  <1>3. ASSUME NEW t \in Tx, LockExpires(t)
        PROVE  TypeInv'
    BY <1>3 DEF LockExpires
  <1>4. ASSUME NEW t \in Tx, RowsExpire(t)
        PROVE  TypeInv'
    BY <1>4 DEF RowsExpire
  <1>5. CASE UNCHANGED vars
    BY <1>5 DEF vars
  <1> QED
    BY <1>1, <1>2, <1>3, <1>4, <1>5 DEF ReaderStep

\* Typing: the Redis keys, the stream and the control state of every process
\* keep the types the repository and queue adapters rely on.
THEOREM TypeCorrect == Spec => []TypeInv
  <1>1. TypeInv /\ [Next]_vars => TypeInv'
    BY TypeInvSubmit, TypeInvRunOnce, TypeInvFault, TypeInvCancel,
       TypeInvOther DEF Next
  <1> QED
    BY <1>1, TypeInvInit, PTL DEF Spec

-----------------------------------------------------------------------------
(* Layer 2: the stream, the pending list and who owns which message         *)

\* The submit handler has saved and indexed what it enqueues; stream ids are
\* distinct and bounded; delivered messages are at or below the group's id.
StreamInv ==
    /\ lastDelivered <= topId
    /\ \A t \in Tx :
        /\ spc[t] # "new" => status[t] # "none"
        /\ spc[t] \in {"enqueue", "done"} => t \in tenantIds
        /\ spc[t] # "done" => msgId[t] = 0
        /\ spc[t] = "done" => msgId[t] > 0 /\ msgId[t] <= topId
        /\ t \in entries \cup pel => spc[t] = "done"
        /\ t \in pel => msgId[t] <= lastDelivered
    /\ \A t, u \in Tx : msgId[t] = msgId[u] /\ msgId[t] > 0 => t = u

\* A worker's message was enqueued and delivered, to no other live worker.
OwnerInv ==
    /\ \A w \in Workers : Active(w) =>
        /\ spc[wtx[w]] = "done"
        /\ msgId[wtx[w]] <= lastDelivered
    /\ OneWorkerPerTx

\* A cancel request has found the hash of its transaction.
CancelInv == \A c \in Cancels : cpc[c] # "new" => spc[ctx[c]] # "new"

\* Only what is saved exists: the converse of the first part of StreamInv.
HashInv == \A t \in Tx : status[t] # "none" => spc[t] # "new"

QueueInv == StreamInv /\ OwnerInv /\ CancelInv /\ HashInv

LEMMA QueueInvInit == Init => QueueInv
  BY DEF Init, QueueInv, StreamInv, OwnerInv, CancelInv, HashInv,
         OneWorkerPerTx, Active

LEMMA QueueInvSubmit ==
    ASSUME TypeInv, QueueInv, NEW t \in Tx, Submit(t) \/ SubmitFails(t)
    PROVE  QueueInv'
  <1> USE DEF TypeInv, TypeOK, TargetsKnown, Active, QueueInv, StreamInv,
          OwnerInv, CancelInv, HashInv, OneWorkerPerTx, redis, stream,
          outputs, database, workers, cancel, readers, bounds
  <1>1. CASE SaveHash(t)
    BY <1>1 DEF SaveHash
  <1>2. CASE IndexTenant(t)
    BY <1>2 DEF IndexTenant
  <1>3. CASE Enqueue(t)
    BY <1>3 DEF Enqueue, Newest
  <1>4. CASE SubmitFails(t)
    BY <1>4 DEF SubmitFails
  <1> QED
    BY <1>1, <1>2, <1>3, <1>4 DEF Submit

LEMMA QueueInvRunOnce ==
    ASSUME TypeInv, QueueInv, NEW w \in Workers, RunOnce(w)
    PROVE  QueueInv'
  <1> USE DEF TypeInv, TypeOK, TargetsKnown, Active, QueueInv, StreamInv,
          OwnerInv, CancelInv, HashInv, OneWorkerPerTx, Terminal, redis,
          stream, outputs, database, workers, cancel, readers, bounds
  <1>1. CASE Dequeue(w)
    BY <1>1 DEF Dequeue, Deliver, Undelivered
  <1>2. CASE FindById(w)
    BY <1>2 DEF FindById
  <1>3. CASE MarkRunning(w)
    BY <1>3 DEF MarkRunning
  <1>4. CASE IndexRunning(w)
    BY <1>4 DEF IndexRunning
  <1>5. CASE CheckoutReady(w)
    BY <1>5 DEF CheckoutReady
  <1>6. CASE ExecuteQuery(w)
    BY <1>6 DEF ExecuteQuery
  <1>7. CASE AppendWal(w)
    BY <1>7 DEF AppendWal
  <1>8. CASE WriteOutcome(w)
    BY <1>8 DEF WriteOutcome
  <1>9. CASE UnindexRunning(w)
    BY <1>9 DEF UnindexRunning
  <1>10. CASE CacheRows(w)
    BY <1>10 DEF CacheRows
  <1>11. CASE EmitOutcome(w)
    BY <1>11 DEF EmitOutcome
  <1>12. CASE XAck(w)
    BY <1>12 DEF XAck
  <1>13. CASE XDel(w)
    BY <1>13 DEF XDel
  <1> QED
    BY <1>1, <1>2, <1>3, <1>4, <1>5, <1>6, <1>7, <1>8, <1>9, <1>10, <1>11,
       <1>12, <1>13 DEF RunOnce

LEMMA QueueInvFault ==
    ASSUME TypeInv, QueueInv, NEW w \in Workers, WorkerFault(w)
    PROVE  QueueInv'
  <1> USE DEF TypeInv, TypeOK, TargetsKnown, Active, QueueInv, StreamInv,
          OwnerInv, CancelInv, HashInv, OneWorkerPerTx, redis, stream,
          database, workers, cancel
  <1>1. CASE CheckoutFails(w)
    BY <1>1 DEF CheckoutFails
  <1>2. CASE CallFails(w)
    BY <1>2 DEF CallFails
  <1>3. CASE Crash(w)
    BY <1>3 DEF Crash
  <1>4. CASE Restart(w)
    BY <1>4 DEF Restart
  <1>5. CASE PollFails(w)
    BY <1>5 DEF PollFails, Deliver, Undelivered
  <1> QED
    BY <1>1, <1>2, <1>3, <1>4, <1>5 DEF WorkerFault

LEMMA QueueInvCancel ==
    ASSUME TypeInv, QueueInv, NEW c \in Cancels, CancelStep(c)
    PROVE  QueueInv'
  <1> USE DEF TypeInv, TypeOK, TargetsKnown, Active, QueueInv, StreamInv,
          OwnerInv, CancelInv, HashInv, OneWorkerPerTx, redis, stream,
          outputs, database, workers, cancel, readers, bounds
  <1>1. ASSUME NEW t \in Tx, CancelFind(c, t)
        PROVE  QueueInv'
    BY <1>1 DEF CancelFind
  <1>2. CASE CancelAcquire(c)
    BY <1>2 DEF CancelAcquire
  <1>3. CASE CancelHset(c)
    BY <1>3 DEF CancelHset
  <1>4. CASE CancelSrem(c)
    BY <1>4 DEF CancelSrem
  <1>5. CASE CancelDelete(c)
    BY <1>5 DEF CancelDelete
  <1>6. CASE CancelEmit(c)
    BY <1>6 DEF CancelEmit
  <1>7. CASE CancelRelease(c)
    BY <1>7 DEF CancelRelease
  <1>8. CASE CancelFails(c)
    BY <1>8 DEF CancelFails
  <1> QED
    BY <1>1, <1>2, <1>3, <1>4, <1>5, <1>6, <1>7, <1>8 DEF CancelStep

\* The steps that leave the repository, the stream, the database and every
\* process but the readers as they are.
Untouched ==
    UNCHANGED <<redis, stream, database, spc, workers, cpc, ctx>>

LEMMA OtherStepsUntouched ==
    ASSUME \/ \E r \in Readers : ReaderStep(r)
           \/ \E t \in Tx : LockExpires(t) \/ RowsExpire(t)
           \/ UNCHANGED vars
    PROVE  Untouched
  BY DEF ReaderStep, ReadStatus, ReadRows, LockExpires, RowsExpire, vars,
         Untouched, redis, stream, database, workers, cancel

LEMMA QueueInvOther ==
    ASSUME QueueInv, Untouched
    PROVE  QueueInv'
  BY DEF Untouched, QueueInv, StreamInv, OwnerInv, CancelInv, HashInv,
         OneWorkerPerTx, Active, redis, stream, database, workers

LEMMA QueueCorrect == Spec => []QueueInv
  <1>1. TypeInv /\ QueueInv /\ [Next]_vars => QueueInv'
    BY QueueInvSubmit, QueueInvRunOnce, QueueInvFault, QueueInvCancel,
       QueueInvOther, OtherStepsUntouched DEF Next
  <1> QED
    BY <1>1, QueueInvInit, TypeCorrect, PTL DEF Spec

-----------------------------------------------------------------------------
(* Layer 3: statuses and executions                                         *)

\* Up to the execution a worker's message is on the pending list and its query
\* has not run; a COMPLETED is only about to be written for a query that has
\* run; past the final HSET (SREM) the hash (the set) shows it.
StepInv ==
    \A w \in Workers :
        /\ wpc[w] \in {"find", "mark", "index", "checkout", "exec"} =>
            wtx[w] \in pel /\ applied[wtx[w]] = 0
        /\ wpc[w] = "wal" => applied[wtx[w]] = 1 /\ wtx[w] \in Mutating
        /\ wpc[w] \in {"wal", "hset"} /\ wout[w] = "completed" =>
            applied[wtx[w]] = 1
        /\ wpc[w] \in {"srem", "cache", "emit", "xack", "xdel"} =>
            status[wtx[w]] \in Terminal
        /\ wpc[w] \in {"cache", "emit", "xack", "xdel"} => wtx[w] \notin running

\* Every entry of the WAL is a mutating query that was executed.
WalWasExecuted == \A t \in wal : t \in Mutating /\ applied[t] > 0

\* A query that has run belongs to a message that was delivered.
AppliedInv ==
    \A t \in Tx : applied[t] > 0 => spc[t] = "done" /\ msgId[t] <= lastDelivered

StatusInv ==
    /\ StepInv
    /\ AppliedInv
    /\ AtMostOnce
    /\ RunningIsPending
    /\ CompletedWasExecuted
    /\ WalWasExecuted

LEMMA StatusInvInit == Init => StatusInv
  BY DEF Init, StatusInv, StepInv, AppliedInv, AtMostOnce, RunningIsPending,
         CompletedWasExecuted, WalWasExecuted

LEMMA StatusInvSubmit ==
    ASSUME TypeInv, QueueInv, StatusInv, NEW t \in Tx,
           Submit(t) \/ SubmitFails(t)
    PROVE  StatusInv'
  <1> USE PipelineAssumption
      DEF TypeInv, TypeOK, TargetsKnown, Active, QueueInv, StreamInv,
          OwnerInv, CancelInv, HashInv, OneWorkerPerTx, StatusInv, StepInv,
          AppliedInv, AtMostOnce, RunningIsPending, CompletedWasExecuted,
          WalWasExecuted, Terminal, redis, stream, outputs, database, workers,
          cancel, readers, bounds
  <1>1. CASE SaveHash(t)
    BY <1>1 DEF SaveHash
  <1>2. CASE IndexTenant(t)
    BY <1>2 DEF IndexTenant
  <1>3. CASE Enqueue(t)
    BY <1>3 DEF Enqueue, Newest
  <1>4. CASE SubmitFails(t)
    BY <1>4 DEF SubmitFails
  <1> QED
    BY <1>1, <1>2, <1>3, <1>4 DEF Submit

LEMMA StatusInvRunOnce ==
    ASSUME TypeInv, QueueInv, StatusInv, NEW w \in Workers, RunOnce(w)
    PROVE  StatusInv'
  <1> USE PipelineAssumption
      DEF TypeInv, TypeOK, TargetsKnown, Active, QueueInv, StreamInv,
          OwnerInv, CancelInv, HashInv, OneWorkerPerTx, StatusInv, StepInv,
          AppliedInv, AtMostOnce, RunningIsPending, CompletedWasExecuted,
          WalWasExecuted, Terminal, redis, stream, outputs, database, workers,
          cancel, readers, bounds
  <1>1. CASE Dequeue(w)
    BY <1>1 DEF Dequeue, Deliver, Undelivered
  <1>2. CASE FindById(w)
    BY <1>2 DEF FindById
  <1>3. CASE MarkRunning(w)
    BY SMTT(30), <1>3 DEF MarkRunning
  <1>4. CASE IndexRunning(w)
    BY <1>4 DEF IndexRunning
  <1>5. CASE CheckoutReady(w)
    BY <1>5 DEF CheckoutReady
  <1>6. CASE ExecuteQuery(w)
    BY <1>6 DEF ExecuteQuery
  <1>7. CASE AppendWal(w)
    BY <1>7 DEF AppendWal
  <1>8. CASE WriteOutcome(w)
    BY <1>8 DEF WriteOutcome
  <1>9. CASE UnindexRunning(w)
    BY <1>9 DEF UnindexRunning
  <1>10. CASE CacheRows(w)
    BY <1>10 DEF CacheRows
  <1>11. CASE EmitOutcome(w)
    BY <1>11 DEF EmitOutcome
  <1>12. CASE XAck(w)
    BY <1>12 DEF XAck
  <1>13. CASE XDel(w)
    BY <1>13 DEF XDel
  <1> QED
    BY <1>1, <1>2, <1>3, <1>4, <1>5, <1>6, <1>7, <1>8, <1>9, <1>10, <1>11,
       <1>12, <1>13 DEF RunOnce

LEMMA StatusInvFault ==
    ASSUME TypeInv, QueueInv, StatusInv, NEW w \in Workers, WorkerFault(w)
    PROVE  StatusInv'
  <1> USE PipelineAssumption
      DEF TypeInv, TypeOK, TargetsKnown, Active, QueueInv, StreamInv,
          OwnerInv, CancelInv, HashInv, OneWorkerPerTx, StatusInv, StepInv,
          AppliedInv, AtMostOnce, RunningIsPending, CompletedWasExecuted,
          WalWasExecuted, Terminal, redis, stream, outputs, database, workers,
          cancel, readers, bounds
  <1>1. CASE CheckoutFails(w)
    BY <1>1 DEF CheckoutFails
  <1>2. CASE CallFails(w)
    BY <1>2 DEF CallFails
  <1>3. CASE Crash(w)
    BY <1>3 DEF Crash
  <1>4. CASE Restart(w)
    BY <1>4 DEF Restart
  <1>5. CASE PollFails(w)
    BY <1>5 DEF PollFails, Deliver, Undelivered
  <1> QED
    BY <1>1, <1>2, <1>3, <1>4, <1>5 DEF WorkerFault

LEMMA StatusInvCancel ==
    ASSUME TypeInv, QueueInv, StatusInv, NEW c \in Cancels, CancelStep(c)
    PROVE  StatusInv'
  <1> USE PipelineAssumption
      DEF TypeInv, TypeOK, TargetsKnown, Active, QueueInv, StreamInv,
          OwnerInv, CancelInv, HashInv, OneWorkerPerTx, StatusInv, StepInv,
          AppliedInv, AtMostOnce, RunningIsPending, CompletedWasExecuted,
          WalWasExecuted, Terminal, redis, stream, outputs, database, workers,
          cancel, readers, bounds
  <1>1. ASSUME NEW t \in Tx, CancelFind(c, t)
        PROVE  StatusInv'
    BY <1>1 DEF CancelFind
  <1>2. CASE CancelAcquire(c)
    BY <1>2 DEF CancelAcquire
  <1>3. CASE CancelHset(c)
    BY <1>3 DEF CancelHset
  <1>4. CASE CancelSrem(c)
    BY <1>4 DEF CancelSrem
  <1>5. CASE CancelDelete(c)
    BY <1>5 DEF CancelDelete
  <1>6. CASE CancelEmit(c)
    BY <1>6 DEF CancelEmit
  <1>7. CASE CancelRelease(c)
    BY <1>7 DEF CancelRelease
  <1>8. CASE CancelFails(c)
    BY <1>8 DEF CancelFails
  <1> QED
    BY <1>1, <1>2, <1>3, <1>4, <1>5, <1>6, <1>7, <1>8 DEF CancelStep

LEMMA StatusInvOther ==
    ASSUME StatusInv, Untouched
    PROVE  StatusInv'
  BY DEF Untouched, StatusInv, StepInv, AppliedInv, AtMostOnce,
         RunningIsPending, CompletedWasExecuted, WalWasExecuted, redis,
         stream, database, workers

LEMMA StatusCorrect == Spec => []StatusInv
  <1>1. TypeInv /\ QueueInv /\ StatusInv /\ [Next]_vars => StatusInv'
    BY StatusInvSubmit, StatusInvRunOnce, StatusInvFault, StatusInvCancel,
       StatusInvOther, OtherStepsUntouched DEF Next
  <1> QED
    BY <1>1, StatusInvInit, TypeCorrect, QueueCorrect, PTL DEF Spec

-----------------------------------------------------------------------------
(* What the three layers say together                                       *)

\* Typing of the pipeline's Redis keys and processes.
THEOREM TypeSafety == Spec => []TypeOK
  BY TypeCorrect, PTL DEF TypeInv

\* No query is executed twice, whatever fails, crashes or is cancelled.
THEOREM AtMostOnceExecution == Spec => []AtMostOnce
  BY StatusCorrect, PTL DEF StatusInv

\* No two workers hold the same transaction.
THEOREM TransactionsOwned == Spec => []OneWorkerPerTx
  <1>1. QueueInv => OneWorkerPerTx
    BY DEF QueueInv, OwnerInv
  <1> QED
    BY <1>1, QueueCorrect, PTL

\* What the repository shows as running is on the group's pending list.
THEOREM RunningOnPendingList == Spec => []RunningIsPending
  BY StatusCorrect, PTL DEF StatusInv

\* A message in the stream or on the pending list has a saved, indexed hash.
THEOREM QueuedTransactionsSaved == Spec => []QueuedIsSaved
  <1>1. TypeInv /\ QueueInv => QueuedIsSaved
    BY DEF TypeInv, TypeOK, QueueInv, StreamInv, QueuedIsSaved
  <1> QED
    BY <1>1, TypeCorrect, QueueCorrect, PTL

\* Neither a COMPLETED nor a WAL entry exists for a query that did not run.
THEOREM NothingUnexecuted == Spec => [](CompletedWasExecuted /\ WalWasExecuted)
  BY StatusCorrect, PTL DEF StatusInv

\* An executed transaction that left the status running never returns to it.
THEOREM RunningHappensOnce == Spec => NotRunningAgain
  <1> DEFINE A == \A t \in Tx : applied[t] > 0 /\ status[t] # "running"
                                   => status'[t] # "running"
  <1>1. TypeInv /\ QueueInv /\ StatusInv /\ [Next]_vars => [A]_status
    <2> SUFFICES ASSUME TypeInv, QueueInv, StatusInv, [Next]_vars
                 PROVE  A \/ status' = status
      OBVIOUS
    <2> USE DEF TypeInv, TypeOK
    <2>1. ASSUME NEW t \in Tx, Submit(t) \/ SubmitFails(t)
          PROVE  A \/ status' = status
      BY <2>1 DEF Submit, SaveHash, IndexTenant, Enqueue, SubmitFails, redis
    <2>2. ASSUME NEW w \in Workers, MarkRunning(w)
          PROVE  A
      BY <2>2 DEF MarkRunning, StatusInv, StepInv
    <2>3. ASSUME NEW w \in Workers, WriteOutcome(w)
          PROVE  A
      BY <2>3 DEF WriteOutcome, Terminal
    <2>4. ASSUME NEW w \in Workers, RunOnce(w) \/ WorkerFault(w),
                 ~ MarkRunning(w), ~ WriteOutcome(w)
          PROVE  status' = status
      BY <2>4 DEF RunOnce, WorkerFault, redis, Dequeue, FindById,
         IndexRunning, CheckoutReady, ExecuteQuery, AppendWal,
         UnindexRunning, CacheRows, EmitOutcome, XAck, XDel, CheckoutFails,
         CallFails, Crash, Restart, PollFails
    <2>5. ASSUME NEW c \in Cancels, CancelStep(c)
          PROVE  A \/ status' = status
      BY <2>5 DEF CancelStep, redis, CancelFind, CancelAcquire, CancelHset,
         CancelSrem, CancelDelete, CancelEmit, CancelRelease, CancelFails
    <2>6. CASE Untouched
      BY <2>6 DEF Untouched, redis
    <2> QED
      BY <2>1, <2>2, <2>3, <2>4, <2>5, <2>6, OtherStepsUntouched DEF Next
  <1> QED
    BY <1>1, TypeCorrect, QueueCorrect, StatusCorrect, PTL
    DEF Spec, NotRunningAgain

-----------------------------------------------------------------------------
(* Only the cap of the stream loses an accepted job                        *)

\* The transactions whose message is younger than that of t.
Younger(t) == {u \in Tx : msgId[u] > msgId[t]}

LEMMA YoungerCounted ==
    ASSUME NEW S \in SUBSET Tx
    PROVE  IsFiniteSet(S) /\ Cardinality(S) \in Nat
  BY FS_Subset, FS_CardinalityType, PipelineAssumption

\* The XADD of t drops only what MaxLen younger messages push out.
LEMMA EnqueueDrops ==
    ASSUME TypeInv, QueueInv, NEW t \in Tx, Enqueue(t), NEW u \in entries
    PROVE  u \in entries' \/ Cardinality(Younger(u)') >= MaxLen
  <1> USE DEF TypeInv, TypeOK
  <1> DEFINE above == {v \in entries \cup {t} : msgId'[v] > msgId'[u]}
  <1>1. SUFFICES ASSUME u \notin entries'
                 PROVE  Cardinality(Younger(u)') >= MaxLen
    OBVIOUS
  <1>2. ~ (Cardinality(above) < MaxLen)
    BY <1>1 DEF Enqueue, Newest
  <1>3. above \subseteq Younger(u)' /\ Younger(u)' \in SUBSET Tx
    BY DEF Younger
  <1>4. /\ Cardinality(above) <= Cardinality(Younger(u)')
        /\ Cardinality(above) \in Nat /\ Cardinality(Younger(u)') \in Nat
    BY <1>3, YoungerCounted, FS_Subset
  <1> QED
    BY <1>2, <1>4, PipelineAssumption

\* What is younger stays younger: ids only grow.
LEMMA YoungerGrows ==
    ASSUME TypeInv, QueueInv, NEW t \in Tx, Enqueue(t), NEW u \in Tx, u # t
    PROVE  Cardinality(Younger(u)) <= Cardinality(Younger(u)')
  <1>1. Younger(u) \subseteq Younger(u)'
    BY DEF Younger, Enqueue, TypeInv, TypeOK, QueueInv, StreamInv
  <1>2. Younger(u)' \in SUBSET Tx
    BY DEF Younger
  <1> QED
    BY <1>1, <1>2, YoungerCounted, FS_Subset

LEMMA NoJobForgottenInit == Init => NoJobForgotten
  BY DEF Init, NoJobForgotten

LEMMA NoJobForgottenStep ==
    ASSUME TypeInv, QueueInv, StatusInv, NoJobForgotten, [Next]_vars
    PROVE  NoJobForgotten'
  <1> USE DEF NoJobForgotten, Undelivered, TypeInv, TypeOK
  <1>1. ASSUME NEW t \in Tx, Enqueue(t)
        PROVE  NoJobForgotten'
    <2> SUFFICES ASSUME NEW u \in Tx, spc'[u] = "done", status'[u] = "pending"
                 PROVE  \/ u \in Undelivered' \cup pel'
                        \/ Cardinality(Younger(u)') >= MaxLen
      BY DEF Younger
    <2>1. UNCHANGED <<status, lastDelivered, pel>>
      BY <1>1 DEF Enqueue, redis
    <2>2. CASE u = t
      <3>1. msgId'[t] = topId + 1 /\ topId + 1 > lastDelivered
        BY <1>1 DEF Enqueue, QueueInv, StreamInv
      <3>2. \A v \in Tx : ~ (msgId'[v] > msgId'[t])
        BY <1>1, <3>1 DEF Enqueue, QueueInv, StreamInv
      <3>3. {v \in entries \cup {t} : msgId'[v] > msgId'[t]} = {}
        BY <3>2
      <3>4. t \in entries'
        <4> HIDE DEF NoJobForgotten, Undelivered, TypeInv, TypeOK
        <4> DEFINE above == {v \in entries \cup {t} : msgId'[v] > msgId'[t]}
        <4>3. above = {}
          BY <3>3
        <4> HIDE DEF above
        <4>4. Cardinality(above) = 0
          BY <4>3, FS_EmptySet
        <4>1. Cardinality(above) < MaxLen
          BY <4>4, PipelineAssumption
        <4> USE DEF above
        <4>2. entries' = Newest(entries \cup {t}, msgId')
          BY <1>1 DEF Enqueue
        <4> QED
          BY <4>1, <4>2 DEF Newest
      <3> QED
        BY <2>1, <2>2, <3>1, <3>4
    <2>3. CASE u # t
      <3>1. spc[u] = "done" /\ msgId'[u] = msgId[u]
        BY <1>1, <2>3 DEF Enqueue
      <3>2. CASE Cardinality(Younger(u)) >= MaxLen
        <4>1. /\ Cardinality(Younger(u)) <= Cardinality(Younger(u)')
              /\ Cardinality(Younger(u)) \in Nat
              /\ Cardinality(Younger(u)') \in Nat
          BY <1>1, <2>3, YoungerGrows, YoungerCounted DEF Younger
        <4> QED
          BY <3>2, <4>1, PipelineAssumption
      <3>3. CASE u \in Undelivered \cup pel
        BY <1>1, <2>1, <3>1, <3>3, EnqueueDrops
      <3> QED
        BY <2>1, <3>1, <3>2, <3>3 DEF Younger
    <2> QED
      BY <2>2, <2>3
  <1>2. ASSUME NEW t \in Tx, SaveHash(t) \/ IndexTenant(t) \/ SubmitFails(t)
        PROVE  NoJobForgotten'
    BY <1>2 DEF SaveHash, IndexTenant, SubmitFails, redis, stream
  <1>3. ASSUME NEW w \in Workers, Dequeue(w) \/ PollFails(w)
        PROVE  NoJobForgotten'
    <2>1. UNCHANGED <<status, spc, msgId, entries>>
      BY <1>3 DEF Dequeue, PollFails, redis
    <2>2. CASE UNCHANGED <<lastDelivered, pel>>
      BY <2>1, <2>2
    <2>3. CASE \E t \in Tx : Deliver(t)
      <3>1. PICK t \in Tx : Deliver(t)
        BY <2>3
      <3>2. /\ \A u \in Undelivered : msgId[t] <= msgId[u]
            /\ lastDelivered' = msgId[t] /\ pel' = pel \cup {t}
        BY <3>1 DEF Deliver
      <3>3. \A u \in Tx : u \in Undelivered /\ u # t => msgId[u] # msgId[t]
        BY DEF QueueInv, StreamInv
      <3>4. \A u \in Tx : u \in Undelivered /\ u # t => msgId[u] > msgId[t]
        BY <3>2, <3>3
      <3> QED
        BY <2>1, <3>2, <3>4
    <2> QED
      BY <1>3, <2>2, <2>3 DEF Dequeue, PollFails
  <1>4. ASSUME NEW w \in Workers, XAck(w) \/ XDel(w)
        PROVE  NoJobForgotten'
    BY <1>4 DEF XAck, XDel, redis, StatusInv, StepInv, Terminal
  <1>5. ASSUME NEW w \in Workers, MarkRunning(w) \/ WriteOutcome(w)
        PROVE  NoJobForgotten'
    BY <1>5 DEF MarkRunning, WriteOutcome, stream, Terminal
  <1>6. ASSUME NEW w \in Workers, RunOnce(w) \/ WorkerFault(w),
               ~ Dequeue(w), ~ PollFails(w), ~ XAck(w), ~ XDel(w), ~ MarkRunning(w),
               ~ WriteOutcome(w)
        PROVE  NoJobForgotten'
    <2>1. UNCHANGED <<status, stream, spc>>
      BY <1>6 DEF RunOnce, WorkerFault, redis, FindById, IndexRunning,
         CheckoutReady, ExecuteQuery, AppendWal, UnindexRunning, CacheRows,
         EmitOutcome, CheckoutFails, CallFails, Crash, Restart
    <2> QED
      BY <2>1 DEF stream
  <1>7. ASSUME NEW c \in Cancels, CancelStep(c)
        PROVE  NoJobForgotten'
    BY <1>7 DEF CancelStep, redis, stream, CancelFind, CancelAcquire,
       CancelHset, CancelSrem, CancelDelete, CancelEmit, CancelRelease,
       CancelFails
  <1>8. CASE Untouched
    BY <1>8 DEF Untouched, redis, stream
  <1> QED
    BY <1>1, <1>2, <1>3, <1>4, <1>5, <1>6, <1>7, <1>8, OtherStepsUntouched
    DEF Next, Submit

\* Every accepted job that is still pending waits in the stream or was taken by
\* a worker, or MaxLen younger messages have pushed it out of the stream.
THEOREM AcceptedJobsRemembered == Spec => []NoJobForgotten
  <1>1. TypeInv /\ QueueInv /\ StatusInv /\ NoJobForgotten /\ [Next]_vars
            => NoJobForgotten'
    BY NoJobForgottenStep
  <1> QED
    BY <1>1, NoJobForgottenInit, TypeCorrect, QueueCorrect, StatusCorrect, PTL
    DEF Spec

-----------------------------------------------------------------------------
(* Rows are cached before the event that announces them                     *)

RowsInv ==
    /\ EventAfterRows
    /\ \A w \in Workers : wpc[w] = "emit" /\ wout[w] = "completed"
                              => wtx[w] \in results \cup rowsLost
    /\ \A r \in notified : rpc[r] # "refused" => rtx[r] \in results \cup rowsLost
    /\ \A r \in notified : rpc[r] # "new"
    /\ NotifiedReadersGetRows

LEMMA RowsInvStep ==
    ASSUME TypeInv, RowsInv, [Next]_vars
    PROVE  RowsInv'
  <1> USE DEF RowsInv, EventAfterRows, NotifiedReadersGetRows, TypeInv, TypeOK,
          readers
  <1>1. ASSUME NEW t \in Tx, Submit(t) \/ SubmitFails(t)
        PROVE  RowsInv'
    BY <1>1 DEF Submit, SaveHash, IndexTenant, Enqueue, SubmitFails, outputs,
       workers
  <1>2. ASSUME NEW w \in Workers, UnindexRunning(w) \/ CacheRows(w)
        PROVE  RowsInv'
    BY <1>2 DEF UnindexRunning, CacheRows, outputs, workers
  <1>3. ASSUME NEW w \in Workers, EmitOutcome(w)
        PROVE  RowsInv'
    BY <1>3 DEF EmitOutcome, workers
  <1>4. ASSUME NEW w \in Workers, RunOnce(w) \/ WorkerFault(w),
               ~ UnindexRunning(w), ~ CacheRows(w), ~ EmitOutcome(w)
        PROVE  RowsInv'
    <2> HIDE DEF readers
    <2>1. UNCHANGED <<outputs, readers>>
      BY <1>4 DEF RunOnce, WorkerFault, Dequeue, FindById, MarkRunning,
         IndexRunning, CheckoutReady, ExecuteQuery, AppendWal, WriteOutcome,
         XAck, XDel, CheckoutFails, CallFails, Crash, Restart, PollFails
    <2>2. \A v \in Workers :
            wpc'[v] = "emit" => UNCHANGED <<wpc[v], wtx[v], wout[v]>>
      BY <1>4 DEF RunOnce, WorkerFault, Dequeue, FindById, MarkRunning,
         IndexRunning, CheckoutReady, ExecuteQuery, AppendWal, WriteOutcome,
         XAck, XDel, CheckoutFails, CallFails, Crash, Restart, PollFails
    <2> QED
      BY <2>1, <2>2 DEF outputs, readers
  <1>5. ASSUME NEW c \in Cancels, CancelStep(c)
        PROVE  RowsInv'
    BY <1>5 DEF CancelStep, outputs, workers, CancelFind, CancelAcquire,
       CancelHset, CancelSrem, CancelDelete, CancelEmit, CancelRelease,
       CancelFails
  <1>6. ASSUME NEW t \in Tx, LockExpires(t) \/ RowsExpire(t)
        PROVE  RowsInv'
    BY <1>6 DEF LockExpires, RowsExpire, outputs, workers
  <1>7. ASSUME NEW r \in Readers, ReaderStep(r)
        PROVE  RowsInv'
    <2>1. UNCHANGED <<outputs, workers>>
      BY <1>7 DEF ReaderStep, ReadStatus, ReadRows
    <2>2. ASSUME NEW t \in Tx, ReadStatus(r, t)
          PROVE  \A q \in notified' :
                    /\ rpc'[q] # "refused" => rtx'[q] \in results \cup rowsLost
                    /\ rpc'[q] # "new"
                    /\ rpc'[q] = "empty" => rtx'[q] \in rowsLost
      <3>1. \A q \in Readers \ {r} : rpc'[q] = rpc[q] /\ rtx'[q] = rtx[q]
        BY <2>2 DEF ReadStatus
      <3>2. /\ rpc'[r] \in {"cache", "refused"} /\ rtx'[r] = t
            /\ r \notin notified
        BY <2>2 DEF ReadStatus
      <3>3. notified' \in {notified, notified \cup {r}}
            /\ (r \in notified' => <<"completed", t>> \in events)
        BY <2>2, <3>2 DEF ReadStatus
      <3> QED
        BY <3>1, <3>2, <3>3
    <2>3. ASSUME ReadRows(r)
          PROVE  \A q \in notified' :
                    /\ rpc'[q] # "refused" => rtx'[q] \in results \cup rowsLost
                    /\ rpc'[q] # "new"
                    /\ rpc'[q] = "empty" => rtx'[q] \in rowsLost
      BY <2>3 DEF ReadRows
    <2>4. \A q \in notified' :
             /\ rpc'[q] # "refused" => rtx'[q] \in results \cup rowsLost
             /\ rpc'[q] # "new"
             /\ rpc'[q] = "empty" => rtx'[q] \in rowsLost
      BY <1>7, <2>2, <2>3 DEF ReaderStep
    <2> HIDE DEF readers
    <2> QED
      BY <2>1, <2>4 DEF outputs, workers
  <1>8. CASE UNCHANGED vars
    BY <1>8 DEF vars, outputs, workers
  <1> QED
    BY <1>1, <1>2, <1>3, <1>4, <1>5, <1>6, <1>7, <1>8 DEF Next

LEMMA RowsCorrect == Spec => []RowsInv
  <1>1. Init => RowsInv
    BY DEF Init, RowsInv, EventAfterRows, NotifiedReadersGetRows
  <1>2. TypeInv /\ RowsInv /\ [Next]_vars => RowsInv'
    BY RowsInvStep
  <1> QED
    BY <1>1, <1>2, TypeCorrect, PTL DEF Spec

\* The event "completed" is only emitted once the rows are in the cache.
THEOREM RowsBeforeEvent == Spec => []EventAfterRows
  BY RowsCorrect, PTL DEF RowsInv

\* Whoever asks for the rows after the event gets them.
THEOREM RowsForNotified == Spec => []NotifiedReadersGetRows
  BY RowsCorrect, PTL DEF RowsInv

-----------------------------------------------------------------------------
(* The pipeline implements JobQueue                                         *)

\* COMPLETED and TIMEOUT are written while the message is still pending; only
\* FAILED may be written after the acknowledgement.
HeldInv ==
    \A w \in Workers :
        wpc[w] = "wal" \/ (wpc[w] = "hset" /\ wout[w] # "failed") => wtx[w] \in pel

LEMMA HeldInvStep ==
    ASSUME TypeInv, QueueInv, StatusInv, HeldInv, [Next]_vars
    PROVE  HeldInv'
  <1> USE DEF HeldInv, TypeInv, TypeOK, TargetsKnown, Active, stream, workers
  <1>1. ASSUME NEW t \in Tx, Submit(t) \/ SubmitFails(t)
        PROVE  HeldInv'
    BY <1>1 DEF Submit, SaveHash, IndexTenant, Enqueue, SubmitFails
  <1>2. ASSUME NEW w \in Workers, XAck(w)
        PROVE  HeldInv'
    BY <1>2 DEF XAck, QueueInv, OwnerInv, OneWorkerPerTx
  <1>3. ASSUME NEW w \in Workers, RunOnce(w) \/ WorkerFault(w), ~ XAck(w)
        PROVE  HeldInv'
    <2>1. pel \subseteq pel'
      BY <1>3 DEF RunOnce, WorkerFault, Dequeue, Deliver, FindById, MarkRunning,
         IndexRunning, CheckoutReady, ExecuteQuery, AppendWal, WriteOutcome,
         UnindexRunning, CacheRows, EmitOutcome, XDel, CheckoutFails, CallFails,
         Crash, Restart, PollFails
    <2>2. \A v \in Workers \ {w} : UNCHANGED <<wpc[v], wtx[v], wout[v]>>
      BY <1>3 DEF RunOnce, WorkerFault, Dequeue, FindById, MarkRunning,
         IndexRunning, CheckoutReady, ExecuteQuery, AppendWal, WriteOutcome,
         UnindexRunning, CacheRows, EmitOutcome, XDel, CheckoutFails, CallFails,
         Crash, Restart, PollFails
    <2>3. wpc'[w] = "wal" \/ (wpc'[w] = "hset" /\ wout'[w] # "failed")
              => wtx'[w] \in pel'
      <3>1. CASE CheckoutFails(w) \/ ExecuteQuery(w)
        BY <3>1 DEF CheckoutFails, ExecuteQuery, StatusInv, StepInv
      <3>2. CASE AppendWal(w)
        BY <3>2 DEF AppendWal
      <3> QED
        BY <1>3, <3>1, <3>2 DEF RunOnce, WorkerFault, Dequeue, FindById,
           MarkRunning, IndexRunning, CheckoutReady, WriteOutcome,
           UnindexRunning, CacheRows, EmitOutcome, XDel, CallFails, Crash,
           Restart, PollFails
    <2> QED
      BY <2>1, <2>2, <2>3
  <1>4. ASSUME NEW c \in Cancels, CancelStep(c)
        PROVE  HeldInv'
    BY <1>4 DEF CancelStep, CancelFind, CancelAcquire, CancelHset, CancelSrem,
       CancelDelete, CancelEmit, CancelRelease, CancelFails
  <1>5. CASE Untouched
    BY <1>5 DEF Untouched
  <1> QED
    BY <1>1, <1>2, <1>3, <1>4, <1>5, OtherStepsUntouched DEF Next

LEMMA HeldCorrect == Spec => []HeldInv
  <1>1. Init => HeldInv
    BY DEF Init, HeldInv
  <1>2. TypeInv /\ QueueInv /\ StatusInv /\ HeldInv /\ [Next]_vars => HeldInv'
    BY HeldInvStep
  <1> QED
    BY <1>1, <1>2, TypeCorrect, QueueCorrect, StatusCorrect, PTL DEF Spec

\* What JobQueue sees of the pipeline.
Visible == <<status, msgId, topId, Undelivered, pel, {t \in Tx : applied[t] > 0}>>

LEMMA SubmitRefines ==
    ASSUME TypeInv, QueueInv, NEW t \in Tx, Submit(t) \/ SubmitFails(t)
    PROVE  JQ!Next \/ UNCHANGED Visible
  <1> USE DEF TypeInv, TypeOK, Undelivered
  <1>1. CASE SaveHash(t)
    <2>1. status[t] = "none"
      BY <1>1 DEF SaveHash, QueueInv, HashInv
    <2>2. JQ!Accept(t)
      BY <1>1, <2>1 DEF SaveHash, JQ!Accept, stream, database
    <2> QED
      BY <2>2 DEF JQ!Next
  <1>2. CASE Enqueue(t)
    <2>1. /\ status[t] # "none" /\ msgId[t] = 0
          /\ t \notin entries \cup pel
          /\ lastDelivered <= topId
          /\ \A u \in Tx : msgId[u] <= topId
      BY <1>2 DEF Enqueue, QueueInv, StreamInv
    <2>2. /\ topId' = topId + 1 /\ msgId' = [msgId EXCEPT ![t] = topId + 1]
          /\ entries' \subseteq entries \cup {t}
          /\ UNCHANGED <<status, lastDelivered, pel, applied>>
      BY <1>2 DEF Enqueue, Newest, redis, database
    <2>3. t \in entries'
      <3> DEFINE above == {v \in entries \cup {t} : msgId'[v] > msgId'[t]}
      <3>1. above = {}
        BY <2>1, <2>2
      <3> HIDE DEF above
      <3>2. Cardinality(above) = 0
        BY <3>1, FS_EmptySet
      <3>3. Cardinality(above) < MaxLen
        BY <3>2, PipelineAssumption
      <3>4. entries' = Newest(entries \cup {t}, msgId')
        BY <1>2 DEF Enqueue
      <3> USE DEF above
      <3> QED
        BY <3>3, <3>4 DEF Newest
    <2> DEFINE lost == Undelivered \ Undelivered'
    <2>4. Undelivered' = (Undelivered \ lost) \cup {t}
      BY <2>1, <2>2, <2>3
    <2>5. ASSUME NEW k \in lost
          PROVE  Cardinality({i \in Tx : msgId'[i] > msgId'[k]}) >= MaxLen
      <3>1. k \in entries /\ k \notin entries'
        BY <2>1, <2>2
      <3> QED
        BY <1>2, <3>1, EnqueueDrops DEF Younger
    <2>6. lost \in SUBSET Undelivered
      OBVIOUS
    <2>7. JQ!Queue(t)
      <3> HIDE DEF lost, Undelivered, TypeInv, TypeOK
      <3> QED
        BY <2>1, <2>2, <2>4, <2>5, <2>6 DEF JQ!Queue, JQ!Cardinality, Cardinality
    <2> QED
      BY <2>7 DEF JQ!Next
  <1>3. CASE IndexTenant(t) \/ SubmitFails(t)
    BY <1>3 DEF IndexTenant, SubmitFails, Visible, redis, stream, database
  <1> QED
    BY <1>1, <1>2, <1>3 DEF Submit

\* Deliver is the only step that hands a job out.
LEMMA DeliverRefines ==
    ASSUME TypeInv, QueueInv, NEW t \in Tx, Deliver(t),
           UNCHANGED <<status, msgId, topId, entries, applied>>
    PROVE  JQ!Next
  <1> USE DEF TypeInv, TypeOK
  <1>1. /\ t \in Undelivered /\ \A u \in Undelivered : msgId[t] <= msgId[u]
        /\ lastDelivered' = msgId[t] /\ pel' = pel \cup {t}
    BY DEF Deliver
  <1>2. \A u \in Undelivered \ {t} : msgId[t] < msgId[u]
    BY <1>1 DEF QueueInv, StreamInv, Undelivered
  <1>3. Undelivered' = Undelivered \ {t}
    BY <1>1, <1>2 DEF Undelivered
  <1>4. JQ!HandOut(t)
    BY <1>1, <1>3 DEF JQ!HandOut
  <1> QED
    BY <1>4 DEF JQ!Next

LEMMA RunOnceRefines ==
    ASSUME TypeInv, QueueInv, StatusInv, HeldInv, NEW w \in Workers, RunOnce(w)
    PROVE  JQ!Next \/ UNCHANGED Visible
  <1> USE DEF TypeInv, TypeOK, TargetsKnown, Active
  <1>1. CASE Dequeue(w)
    BY <1>1, DeliverRefines DEF Dequeue, redis, database
  <1>2. CASE MarkRunning(w)
    <2>1. wtx[w] \in Tx /\ wtx[w] \in pel /\ applied[wtx[w]] = 0
      BY <1>2 DEF MarkRunning, StatusInv, StepInv
    <2>2. JQ!Start(wtx[w])
      BY <1>2, <2>1 DEF MarkRunning, JQ!Start, stream, database, Undelivered
    <2> QED
      BY <2>1, <2>2 DEF JQ!Next
  <1>3. CASE ExecuteQuery(w)
    <2>1. wtx[w] \in Tx /\ wtx[w] \in pel /\ applied[wtx[w]] = 0
      BY <1>3 DEF ExecuteQuery, StatusInv, StepInv
    <2>2. applied' = [applied EXCEPT ![wtx[w]] = 1]
      BY <1>3, <2>1 DEF ExecuteQuery
    <2>3. {t \in Tx : applied'[t] > 0} = {t \in Tx : applied[t] > 0} \cup {wtx[w]}
      BY <2>1, <2>2
    <2>4. UNCHANGED <<status, msgId, topId, Undelivered, pel>>
      BY <1>3 DEF ExecuteQuery, redis, stream, Undelivered
    <2>5. PICK j \in Tx : j = wtx[w]
      BY <2>1
    <2>6. JQ!Execute(j)
      BY <2>1, <2>3, <2>4, <2>5 DEF JQ!Execute
    <2> QED
      BY <2>6 DEF JQ!Next
  <1>4. CASE WriteOutcome(w)
    <2>1. wtx[w] \in Tx /\ status[wtx[w]] # "none"
      BY <1>4 DEF WriteOutcome, QueueInv, OwnerInv, StreamInv
    <2>2. /\ status' = [status EXCEPT ![wtx[w]] = wout[w]]
          /\ UNCHANGED <<msgId, topId, Undelivered, pel, applied>>
      BY <1>4 DEF WriteOutcome, stream, database, Undelivered
    <2>3. CASE wout[w] = "failed"
      <3>1. JQ!Fail(wtx[w])
        BY <2>1, <2>2, <2>3 DEF JQ!Fail
      <3> QED
        BY <2>1, <3>1 DEF JQ!Next
    <2>4. CASE wout[w] # "failed"
      <3>1. wtx[w] \in pel
        BY <1>4, <2>4 DEF WriteOutcome, HeldInv
      <3>2. wout[w] = "timeout" \/ (wout[w] = "completed" /\ applied[wtx[w]] > 0)
        BY <1>4, <2>4 DEF WriteOutcome, Terminal, StatusInv, StepInv
      <3>3. JQ!Finish(wtx[w])
        BY <2>1, <2>2, <3>1, <3>2 DEF JQ!Finish
      <3> QED
        BY <2>1, <3>3 DEF JQ!Next
    <2> QED
      BY <2>3, <2>4
  <1>5. CASE XAck(w)
    <2>1. wtx[w] \in Tx /\ pel' = pel \ {wtx[w]}
      BY <1>5 DEF XAck
    <2>2. UNCHANGED <<status, msgId, topId, Undelivered, applied>>
      BY <1>5 DEF XAck, redis, database, Undelivered
    <2>3. CASE wtx[w] \in pel
      <3>1. JQ!Acknowledge(wtx[w])
        BY <2>1, <2>2, <2>3 DEF JQ!Acknowledge
      <3> QED
        BY <2>1, <3>1 DEF JQ!Next
    <2>4. CASE wtx[w] \notin pel
      BY <2>1, <2>2, <2>4 DEF Visible
    <2> QED
      BY <2>3, <2>4
  <1>6. CASE XDel(w)
    <2>1. wtx[w] \in Tx /\ ~ (msgId[wtx[w]] > lastDelivered)
      BY <1>6 DEF XDel, QueueInv, OwnerInv
    <2>2. entries' = entries \ {wtx[w]}
          /\ UNCHANGED <<status, msgId, topId, lastDelivered, pel, applied>>
      BY <1>6 DEF XDel, redis, database
    <2> QED
      BY <2>1, <2>2 DEF Visible, Undelivered
  <1>7. CASE \/ FindById(w) \/ IndexRunning(w) \/ CheckoutReady(w)
             \/ AppendWal(w) \/ UnindexRunning(w) \/ CacheRows(w)
             \/ EmitOutcome(w)
    <2>1. UNCHANGED <<status, stream, applied>>
      BY <1>7 DEF FindById, IndexRunning, CheckoutReady, AppendWal,
         UnindexRunning, CacheRows, EmitOutcome, redis, database
    <2> QED
      BY <2>1 DEF Visible, stream, Undelivered
  <1> QED
    BY <1>1, <1>2, <1>3, <1>4, <1>5, <1>6, <1>7 DEF RunOnce

LEMMA FaultRefines ==
    ASSUME TypeInv, QueueInv, NEW w \in Workers, WorkerFault(w)
    PROVE  JQ!Next \/ UNCHANGED Visible
  <1>1. CASE PollFails(w)
    <2>1. UNCHANGED <<status, msgId, topId, entries, applied>>
      BY <1>1 DEF PollFails, redis, database
    <2>2. CASE \E t \in Tx : Deliver(t)
      BY <2>1, <2>2, DeliverRefines
    <2>3. CASE UNCHANGED <<lastDelivered, pel>>
      BY <2>1, <2>3 DEF Visible, Undelivered
    <2> QED
      BY <1>1, <2>2, <2>3 DEF PollFails
  <1>2. CASE CheckoutFails(w) \/ CallFails(w) \/ Crash(w) \/ Restart(w)
    <2>1. UNCHANGED <<status, stream, applied>>
      BY <1>2 DEF CheckoutFails, CallFails, Crash, Restart, redis, database
    <2> QED
      BY <2>1 DEF Visible, stream, Undelivered
  <1> QED
    BY <1>1, <1>2 DEF WorkerFault

LEMMA CancelRefines ==
    ASSUME TypeInv, QueueInv, NEW c \in Cancels, CancelStep(c)
    PROVE  JQ!Next \/ UNCHANGED Visible
  <1> USE DEF TypeInv, TypeOK, TargetsKnown
  <1>1. CASE CancelHset(c)
    <2>1. ctx[c] \in Tx /\ status[ctx[c]] # "none"
      BY <1>1 DEF CancelHset, QueueInv, CancelInv, StreamInv
    <2>2. JQ!Fail(ctx[c])
      BY <1>1, <2>1 DEF CancelHset, JQ!Fail, stream, database, Undelivered
    <2> QED
      BY <2>1, <2>2 DEF JQ!Next
  <1>2. ASSUME ~ CancelHset(c)
        PROVE  UNCHANGED Visible
    <2>1. UNCHANGED <<status, stream, applied>>
      BY <1>2 DEF CancelStep, CancelFind, CancelAcquire, CancelSrem,
         CancelDelete, CancelEmit, CancelRelease, CancelFails, redis, database
    <2> QED
      BY <2>1 DEF Visible, stream, Undelivered
  <1> QED
    BY <1>1, <1>2

\* The pipeline is a JobQueue to its clients: jobs are handed out in the order
\* of their messages and once, run at most once, are completed only when they
\* ran, and nothing but the cap of the stream loses one.
THEOREM PipelineImplementsJobQueue == Spec => ImplementsJobQueue
  <1>1. Init => JQ!Init
    <2>1. Init => Undelivered = {} /\ {t \in Tx : applied[t] > 0} = {}
      BY DEF Init, Undelivered
    <2> QED
      BY <2>1 DEF Init, JQ!Init
  <1>2. TypeInv /\ QueueInv /\ StatusInv /\ HeldInv /\ [Next]_vars
            => [JQ!Next]_(JQ!jobVars)
    <2> SUFFICES ASSUME TypeInv, QueueInv, StatusInv, HeldInv, [Next]_vars
                 PROVE  JQ!Next \/ UNCHANGED Visible
      BY DEF JQ!jobVars, Visible
    <2>1. CASE Untouched
      BY <2>1 DEF Untouched, Visible, Undelivered, redis, stream, database
    <2> QED
      BY <2>1, SubmitRefines, RunOnceRefines, FaultRefines, CancelRefines,
         OtherStepsUntouched DEF Next
  <1> QED
    BY <1>1, <1>2, TypeCorrect, QueueCorrect, StatusCorrect, HeldCorrect, PTL
    DEF Spec, ImplementsJobQueue, JQ!Spec
=============================================================================
