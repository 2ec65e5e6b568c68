----------------------------- MODULE JobsProofs -----------------------------
(***************************************************************************)
(* Proofs about module Jobs, for every set of jobs, every assignment of    *)
(* keys, every number of handlers and every combination of failures.       *)
(***************************************************************************)
EXTENDS Jobs, TLAPS

\* What no action of Jobs touches before the task is enqueued.
Untouched(j) ==
    tx[j] \in {"idle", "inserted"} =>
        task[j] = "none" /\ runs[j] = 0 /\ requeued[j] = 0

\* A handler in progress holds its task.
HandlerHoldsTask(j) == pc[j] # "idle" => task[j] = "active"

\* Redis has at most one task per task id.
TaskIDsUnique ==
    \A j, k \in Jobs :
        j # k /\ KeyOf[j] = KeyOf[k] /\ KeyOf[j] # NoKey
            => task[j] = "none" \/ task[k] = "none"

\* A start of the host operation that is still to come has been paid for.
DeliveryBudget(j) ==
    /\ runs[j] <= 1 + requeued[j]
    /\ task[j] = "pending" \/ pc[j] = "claimed" => runs[j] <= requeued[j]

QueueInv ==
    /\ TypeOK
    /\ \A j \in Jobs : Untouched(j) /\ HandlerHoldsTask(j) /\ DeliveryBudget(j)
    /\ TaskIDsUnique

-----------------------------------------------------------------------------
\* Every action keeps the variables in their types.
LEMMA TypeStep == TypeOK /\ [Next]_vars => TypeOK'
<1> SUFFICES ASSUME TypeOK, [Next]_vars PROVE TypeOK'
  OBVIOUS
<1> USE DEF TypeOK, RowStates, TxStates, Replies, TaskStates, HandlerSteps,
            Results, history
<1>1. ASSUME NEW j \in Jobs, Dispatch(j) PROVE TypeOK'
  BY <1>1 DEF Dispatch, DispatchInsert, DispatchEnqueue, DispatchDuplicate,
              DispatchEnqueueError, DispatchCommit, DispatchCommitError
<1>2. ASSUME NEW j \in Jobs, Claim(j) PROVE TypeOK'
  BY <1>2 DEF Claim
<1>3. ASSUME NEW j \in Jobs, Work(j) PROVE TypeOK'
  <2>1. CASE DecodeError(j)
    BY <2>1 DEF DecodeError
  <2>2. CASE MarkRunning(j)
    BY <2>2 DEF MarkRunning, MarkJobRunning
  <2>3. CASE HostOp(j)
    BY <2>3 DEF HostOp
  <2>4. CASE FinishRow(j)
    BY <2>4 DEF FinishRow, MarkJobFinished
  <2>5. CASE Return(j)
    BY <2>5 DEF Return
  <2>6. CASE Timeout(j)
    BY <2>6 DEF Timeout
  <2> QED
    BY <1>3, <2>1, <2>2, <2>3, <2>4, <2>5, <2>6 DEF Work
<1>4. ASSUME NEW j \in Jobs, LeaseExpired(j) \/ ArchiveExpired(j) PROVE TypeOK'
  BY <1>4 DEF LeaseExpired, ArchiveExpired
<1>5. ASSUME NEW j \in Jobs, Cancel(j) PROVE TypeOK'
  BY <1>5 DEF Cancel, CancelJob
<1>6. ASSUME NEW j \in Jobs, Publish(j) PROVE TypeOK'
  BY <1>6 DEF Publish
<1>7. CASE Stop
  BY <1>7, JobsAssumption DEF Stop
<1>8. CASE Start
  BY <1>8 DEF Start, MarkRunningInterrupted
<1>9. CASE UNCHANGED vars
  BY <1>9 DEF vars
<1> QED
  BY <1>1, <1>2, <1>3, <1>4, <1>5, <1>6, <1>7, <1>8, <1>9 DEF Next, JobStep

\* Every action keeps the bookkeeping of tasks, handlers and deliveries.
LEMMA QueueStep == QueueInv /\ [Next]_vars => QueueInv'
<1> SUFFICES ASSUME QueueInv, [Next]_vars PROVE QueueInv'
  OBVIOUS
<1> TypeOK /\ TypeOK'
  BY TypeStep DEF QueueInv
<1> DEFINE PerJob == \A j \in Jobs :
              Untouched(j) /\ HandlerHoldsTask(j) /\ DeliveryBudget(j)
<1> SUFFICES PerJob' /\ TaskIDsUnique'
  BY DEF QueueInv
<1> PerJob /\ TaskIDsUnique
  BY DEF QueueInv
<1> USE DEF TypeOK, Untouched, HandlerHoldsTask, DeliveryBudget, TaskIDsUnique,
            history
<1>1. ASSUME NEW j \in Jobs, DispatchInsert(j) \/ DispatchDuplicate(j)
      PROVE  PerJob' /\ TaskIDsUnique'
  BY <1>1 DEF DispatchInsert, DispatchDuplicate
<1>2. ASSUME NEW j \in Jobs, DispatchEnqueue(j) \/ DispatchEnqueueError(j)
      PROVE  PerJob' /\ TaskIDsUnique'
  <2>1. PerJob'
    BY <1>2 DEF DispatchEnqueue, DispatchEnqueueError
  <2>2. TaskIDsUnique'
    BY <1>2 DEF DispatchEnqueue, DispatchEnqueueError, TaskIDConflict
  <2> QED
    BY <2>1, <2>2
<1>3. ASSUME NEW j \in Jobs, DispatchCommit(j) \/ DispatchCommitError(j)
      PROVE  PerJob' /\ TaskIDsUnique'
  BY <1>3 DEF DispatchCommit, DispatchCommitError
<1>4. ASSUME NEW j \in Jobs, Claim(j) PROVE PerJob' /\ TaskIDsUnique'
  BY <1>4 DEF Claim
<1>5. ASSUME NEW j \in Jobs, Work(j) \/ Publish(j)
      PROVE  PerJob' /\ TaskIDsUnique'
  <2>1. CASE DecodeError(j)
    BY <2>1 DEF DecodeError
  <2>2. CASE MarkRunning(j)
    BY <2>2 DEF MarkRunning
  <2>3. CASE HostOp(j)
    BY <2>3 DEF HostOp
  <2>4. CASE FinishRow(j)
    BY <2>4 DEF FinishRow
  <2>5. CASE Return(j)
    BY <2>5 DEF Return
  <2>6. CASE Timeout(j)
    BY <2>6 DEF Timeout
  <2>7. CASE Publish(j)
    BY <2>7 DEF Publish
  <2> QED
    BY <1>5, <2>1, <2>2, <2>3, <2>4, <2>5, <2>6, <2>7 DEF Work
<1>6. ASSUME NEW j \in Jobs, LeaseExpired(j) \/ ArchiveExpired(j)
      PROVE  PerJob' /\ TaskIDsUnique'
  BY <1>6 DEF LeaseExpired, ArchiveExpired
<1>7. ASSUME NEW j \in Jobs, Cancel(j) PROVE PerJob' /\ TaskIDsUnique'
  BY <1>7 DEF Cancel
<1>8. CASE Stop
  <2>1. PICK S \in SUBSET Busy :
          /\ task' = [j \in Jobs |-> IF j \in S THEN "pending" ELSE task[j]]
          /\ requeued' = [j \in Jobs |->
                            IF j \in S THEN requeued[j] + 1 ELSE requeued[j]]
    BY <1>8 DEF Stop
  <2>2. \A j \in S : task[j] = "active"
    BY DEF Busy
  <2>3. PerJob'
    BY <1>8, <2>1, <2>2 DEF Stop, TxStates, Replies
  <2>4. TaskIDsUnique'
    BY <2>1, <2>2
  <2> QED
    BY <2>3, <2>4
<1>9. CASE Start
  BY <1>9 DEF Start
<1>10. CASE UNCHANGED vars
  BY <1>10 DEF vars
<1> QED
  BY <1>1, <1>2, <1>3, <1>4, <1>5, <1>6, <1>7, <1>8, <1>9, <1>10
     DEF Next, JobStep, Dispatch

-----------------------------------------------------------------------------
\* The row becomes visible with the commit.
RowAfterCommit(j) == tx[j] \in {"idle", "inserted", "enqueued"} => row[j] = "none"

\* The handler records and publishes a result that its host operation had.
ResultIsOutcome(j) ==
    pc[j] \in {"ran", "recorded", "published"} => res[j] \in outcomes[j]

\* A row that says queued, or is about to, is remembered: QueuedNotForgotten
\* made inductive.
Remembered(j) ==
    server = "up" /\ (row[j] = "queued" \/ tx[j] = "enqueued") =>
        task[j] = "pending" \/ pc[j] # "idle" \/ outcomes[j] # {}

RowInv ==
    /\ QueueInv
    /\ \A j \in Jobs :
          /\ RowAfterCommit(j)
          /\ ResultIsOutcome(j)
          /\ server = "down" => tx[j] # "enqueued"
          /\ j \in ReplicationRuns => row[j] # "running"
          /\ Faults \cap {"decode", "recover"} = {} => Remembered(j)
    /\ RunningHasHandler

\* Every action keeps rows, handlers and results in agreement.
LEMMA RowStep == RowInv /\ [Next]_vars => RowInv'
<1> SUFFICES ASSUME RowInv, [Next]_vars PROVE RowInv'
  OBVIOUS
<1> QueueInv /\ QueueInv'
  BY QueueStep DEF RowInv
<1> TypeOK /\ TypeOK' /\ \A j \in Jobs : HandlerHoldsTask(j)
  BY DEF QueueInv
<1> DEFINE PerJob == \A j \in Jobs :
              /\ RowAfterCommit(j)
              /\ ResultIsOutcome(j)
              /\ server = "down" => tx[j] # "enqueued"
              /\ j \in ReplicationRuns => row[j] # "running"
              /\ Faults \cap {"decode", "recover"} = {} => Remembered(j)
<1> SUFFICES PerJob' /\ RunningHasHandler'
  BY DEF RowInv
<1> PerJob /\ RunningHasHandler
  BY DEF RowInv
<1> USE DEF TypeOK, RowAfterCommit, ResultIsOutcome, Remembered,
            RunningHasHandler, HandlerHoldsTask, Results, history
<1>1. ASSUME NEW j \in Jobs, Dispatch(j) PROVE PerJob' /\ RunningHasHandler'
  BY <1>1 DEF Dispatch, DispatchInsert, DispatchEnqueue, DispatchDuplicate,
              DispatchEnqueueError, DispatchCommit, DispatchCommitError
<1>2. ASSUME NEW j \in Jobs, Claim(j) PROVE PerJob' /\ RunningHasHandler'
  BY <1>2 DEF Claim
<1>3. ASSUME NEW j \in Jobs, Work(j) \/ Publish(j)
      PROVE  PerJob' /\ RunningHasHandler'
  <2>1. CASE DecodeError(j)
    BY <2>1 DEF DecodeError
  <2>2. CASE MarkRunning(j)
    BY <2>2 DEF MarkRunning, MarkJobRunning
  <2>3. CASE HostOp(j)
    BY <2>3 DEF HostOp
  <2>4. CASE FinishRow(j)
    BY <2>4 DEF FinishRow, MarkJobFinished
  <2>5. CASE Return(j)
    BY <2>5 DEF Return
  <2>6. CASE Timeout(j)
    <3>1. "failed" \in outcomes'[j] /\ pc'[j] = "idle"
      BY <2>6 DEF Timeout
    <3>2. "timeout" \in Faults /\ UNCHANGED <<row, tx, res, server>>
      BY <2>6 DEF Timeout
    <3>3. \A k \in Jobs \ {j} : /\ task'[k] = task[k] /\ pc'[k] = pc[k]
                                /\ outcomes'[k] = outcomes[k]
      BY <2>6 DEF Timeout
    <3>4. PerJob'
      BY <3>1, <3>2, <3>3
    <3> QED
      BY <3>2, <3>4
  <2>7. CASE Publish(j)
    BY <2>7 DEF Publish
  <2> QED
    BY <1>3, <2>1, <2>2, <2>3, <2>4, <2>5, <2>6, <2>7 DEF Work
<1>4. ASSUME NEW j \in Jobs, LeaseExpired(j) \/ ArchiveExpired(j)
      PROVE  PerJob' /\ RunningHasHandler'
  BY <1>4 DEF LeaseExpired, ArchiveExpired
<1>5. ASSUME NEW j \in Jobs, Cancel(j) PROVE PerJob' /\ RunningHasHandler'
  BY <1>5 DEF Cancel, CancelJob
<1>6. CASE Stop
  <2>1. server' = "down" /\ row' = row /\ \A j \in Jobs : pc'[j] = "idle"
    BY <1>6 DEF Stop
  <2>2. \A j \in Jobs : RowAfterCommit(j)' /\ tx'[j] # "enqueued"
    BY <1>6 DEF Stop
  <2> QED
    BY <2>1, <2>2
<1>7. CASE Start
  <2>1. Faults \cap {"recover"} = {} =>
           \A j \in Jobs : row'[j] \notin {"queued", "running"}
    BY <1>7 DEF Start, MarkRunningInterrupted
  <2>2. \A j \in Jobs : RowAfterCommit(j)' /\ (row'[j] = "running" => row[j] = "running")
    BY <1>7 DEF Start, MarkRunningInterrupted
  <2>3. server = "down" /\ server' = "up" /\ UNCHANGED <<tx, task, pc, res, outcomes>>
    BY <1>7 DEF Start
  <2> QED
    BY <2>1, <2>2, <2>3
<1>8. CASE UNCHANGED vars
  BY <1>8 DEF vars
<1> QED
  BY <1>1, <1>2, <1>3, <1>4, <1>5, <1>6, <1>7, <1>8 DEF Next, JobStep

\* The initial state satisfies the inductive invariant.
LEMMA RowInit == Init => RowInv
  BY JobsAssumption
     DEF Init, RowInv, QueueInv, TypeOK, RowStates, TxStates, Replies,
         TaskStates, HandlerSteps, Results, Untouched, HandlerHoldsTask,
         DeliveryBudget, TaskIDsUnique, RowAfterCommit, ResultIsOutcome,
         Remembered, RunningHasHandler

\* The inductive invariant holds in every reachable state.
THEOREM Invariance == Spec => []RowInv
<1>1. RowInv /\ [Next]_vars => RowInv'
  BY RowStep
<1> QED
  BY RowInit, <1>1, PTL DEF Spec

-----------------------------------------------------------------------------
\* All variables of the pipeline stay in their types.
THEOREM TypeCorrect == Spec => []TypeOK
<1>1. RowInv => TypeOK
  BY DEF RowInv, QueueInv
<1> QED
  BY Invariance, <1>1, PTL

\* asynq.TaskID(UniqueKey) keeps handlers with the same key apart, whatever
\* fails and however often the process stops.
THEOREM MutualExclusion == Spec => []UniqueKeyExclusive
<1>1. RowInv => UniqueKeyExclusive
  BY DEF RowInv, QueueInv, TypeOK, TaskIDsUnique, HandlerHoldsTask,
         UniqueKeyExclusive, Busy
<1> QED
  BY Invariance, <1>1, PTL

\* A host operation is started at most once per delivery of its task.
THEOREM StartedOncePerDelivery == Spec => []OncePerDelivery
<1>1. RowInv => OncePerDelivery
  BY DEF RowInv, QueueInv, DeliveryBudget, OncePerDelivery
<1> QED
  BY Invariance, <1>1, PTL

\* While the worker's and the recovery's UPDATEs succeed and no handler runs
\* into asynq's deadline, a row says running only if a handler is at work.
THEOREM RunningIsTrue == Spec => []RunningHasHandler
<1>1. RowInv => RunningHasHandler
  BY DEF RowInv
<1> QED
  BY Invariance, <1>1, PTL

\* A row says queued only if its task is still to be handled or its host
\* operation has run.
THEOREM NoJobForgotten == Spec => []QueuedNotForgotten
<1>1. RowInv => QueuedNotForgotten
  BY DEF RowInv, QueueInv, TypeOK, HandlerHoldsTask, Remembered,
         QueuedNotForgotten
<1> QED
  BY Invariance, <1>1, PTL

-----------------------------------------------------------------------------
\* Every step of the pipeline is a step of the lifecycle or changes neither the
\* rows nor the outcomes.
LEMMA LifecycleStep ==
    RowInv /\ [Next]_vars => [Lifecycle!Next]_<<row, outcomes>>
<1> SUFFICES ASSUME RowInv, [Next]_vars
             PROVE  Lifecycle!Next \/ UNCHANGED <<row, outcomes>>
  OBVIOUS
<1> TypeOK /\ \A j \in Jobs : RowAfterCommit(j) /\ ResultIsOutcome(j)
  BY DEF RowInv, QueueInv
<1> USE DEF TypeOK, RowAfterCommit, ResultIsOutcome, history
<1>1. ASSUME NEW j \in Jobs, Dispatch(j)
      PROVE  Lifecycle!Submit(j) \/ UNCHANGED <<row, outcomes>>
  BY <1>1 DEF Dispatch, DispatchInsert, DispatchEnqueue, DispatchDuplicate,
              DispatchEnqueueError, DispatchCommit, DispatchCommitError,
              Lifecycle!Submit, Lifecycle!Move
<1>2. ASSUME NEW j \in Jobs, MarkRunning(j)
      PROVE  Lifecycle!Begin(j) \/ UNCHANGED <<row, outcomes>>
  BY <1>2 DEF MarkRunning, MarkJobRunning, Lifecycle!Begin, Lifecycle!Move
<1>3. ASSUME NEW j \in Jobs, FinishRow(j)
      PROVE  Lifecycle!Finish(j) \/ UNCHANGED <<row, outcomes>>
  <2>1. res[j] \in outcomes[j]
    BY <1>3 DEF FinishRow
  <2> QED
    BY <1>3, <2>1 DEF FinishRow, MarkJobFinished, Lifecycle!Finish, Lifecycle!Move
<1>4. ASSUME NEW j \in Jobs, HostOp(j) \/ Timeout(j) PROVE Lifecycle!Effect(j)
  BY <1>4 DEF HostOp, Timeout, Results, Lifecycle!Effect
<1>5. ASSUME NEW j \in Jobs, Cancel(j) PROVE Lifecycle!CancelRow(j)
  BY <1>5 DEF Cancel, CancelJob, Lifecycle!CancelRow, Lifecycle!Move
<1>6. ASSUME NEW j \in Jobs,
             \/ Claim(j) \/ DecodeError(j) \/ Publish(j) \/ Return(j)
             \/ LeaseExpired(j) \/ ArchiveExpired(j)
      PROVE  UNCHANGED <<row, outcomes>>
  BY <1>6 DEF Claim, DecodeError, Publish, Return, LeaseExpired, ArchiveExpired
<1>7. Stop => UNCHANGED <<row, outcomes>>
  BY DEF Stop
<1>8. Start => Lifecycle!Interrupt \/ UNCHANGED <<row, outcomes>>
  BY DEF Start, MarkRunningInterrupted, Lifecycle!Interrupt
<1>9. UNCHANGED vars => UNCHANGED <<row, outcomes>>
  BY DEF vars
<1> QED
  BY <1>1, <1>2, <1>3, <1>4, <1>5, <1>6, <1>7, <1>8, <1>9
     DEF Next, JobStep, Work, Lifecycle!Next

\* The pipeline implements the lifecycle: whatever fails, rows move along its
\* edges, nothing leaves a final state, and a result is recorded only after the
\* host operation had it.
THEOREM ImplementsLifecycle == Spec => RowsFollowLifecycle
<1>1. Init => Lifecycle!Init
  BY DEF Init, Lifecycle!Init
<1> QED
  BY <1>1, LifecycleStep, Invariance, PTL
     DEF Spec, RowsFollowLifecycle, Lifecycle!Spec, Lifecycle!lifecycleVars

=============================================================================
