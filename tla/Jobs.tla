-------------------------------- MODULE Jobs --------------------------------
(***************************************************************************)
(* The asynchronous job pipeline of nova-api: the dispatcher that writes a *)
(* row of table jobs (Postgres) and a task of the asynq queue (Redis), the *)
(* worker that runs the task's host operation and records its outcome in   *)
(* the row, DELETE /jobs/{id}, and the recovery done when the process      *)
(* starts.                                                                 *)
(*                                                                         *)
(* Every member of Jobs stands for one call of Dispatcher.Dispatch: a new  *)
(* uuid, hence at most one row and one task.  Host operations are reduced  *)
(* to their result: the handlers of worker.go differ only in the operation *)
(* they call.                                                              *)
(***************************************************************************)
EXTENDS Integers, FiniteSets

CONSTANTS
    Jobs,            \* the job ids that may be dispatched
    KeyOf,           \* the DispatchInput.UniqueKey of each job
    NoKey,           \* the empty UniqueKey
    ReplicationRuns, \* the jobs of kind replication.run
    Concurrency,     \* asynq.Config.Concurrency
    Faults,          \* the failures that may happen
    MaxStops         \* bound: how often the process may stop

\* "tx":      Begin, InsertJob or Commit fails          "redis": Enqueue fails
\* "db":      an UPDATE of the worker fails             "decode": bad task body
\* "timeout": asynq's deadline for a task passes        "recover": the recovery
\*            UPDATE at startup fails
FaultKinds == {"tx", "redis", "db", "decode", "timeout", "recover"}

ASSUME JobsAssumption ==
    /\ KeyOf \in [Jobs -> {KeyOf[j] : j \in Jobs}]
    /\ ReplicationRuns \subseteq Jobs
    /\ Concurrency \in Nat \ {0}
    /\ Faults \subseteq FaultKinds
    /\ MaxStops \in Nat

VARIABLES
    row,      \* jobs.state of the committed row, "none" when there is none
    tx,       \* progress of Dispatch, and then its reply
    task,     \* the task in Redis, "none" when its key is free
    pc,       \* the worker's progress in the job's handler
    res,      \* the handler's local variable err
    server,   \* whether the process is up
    stops,    \* how often it stopped
    \* history, not read by any action
    runs,     \* how often the host operation was started
    outcomes, \* the results of the host operation
    requeued  \* how often asynq put an active task back at shutdown

vars == <<row, tx, task, pc, res, server, stops, runs, outcomes, requeued>>
history == <<runs, outcomes, requeued>>

RowStates == {"none", "queued", "running", "succeeded", "failed", "cancelled",
              "interrupted"}
Replies == {"accepted", "duplicate", "error"}
TxStates == {"idle", "inserted", "enqueued"} \cup Replies
TaskStates == {"none", "pending", "active", "archived"}
HandlerSteps == {"idle", "claimed", "executing", "ran", "recorded", "published"}
Results == {"succeeded", "failed"}

TypeOK ==
    /\ row \in [Jobs -> RowStates]
    /\ tx \in [Jobs -> TxStates]
    /\ task \in [Jobs -> TaskStates]
    /\ pc \in [Jobs -> HandlerSteps]
    /\ res \in [Jobs -> Results \cup {"none"}]
    /\ server \in {"up", "down"}
    /\ stops \in 0..MaxStops
    /\ runs \in [Jobs -> Nat]
    /\ outcomes \in [Jobs -> SUBSET Results]
    /\ requeued \in [Jobs -> Nat]

Init ==
    /\ row = [j \in Jobs |-> "none"]
    /\ tx = [j \in Jobs |-> "idle"]
    /\ task = [j \in Jobs |-> "none"]
    /\ pc = [j \in Jobs |-> "idle"]
    /\ res = [j \in Jobs |-> "none"]
    /\ server = "up"
    /\ stops = 0
    /\ runs = [j \in Jobs |-> 0]
    /\ outcomes = [j \in Jobs |-> {}]
    /\ requeued = [j \in Jobs |-> 0]

-----------------------------------------------------------------------------
(* The UPDATE statements of jobs.sql, as functions of the state of the row  *)
(* they address; a row that does not exist is left alone.                  *)

MarkJobRunning(s) == IF s \in {"queued", "interrupted"} THEN "running" ELSE s

\* Mutants: a state the table does not know; a finish that forgets the cancel.
MarkJobFinishedMisspelt(s, r) == IF s = "running" THEN "success" ELSE s
MarkJobFinishedAlways(s, r) == IF s = "none" THEN s ELSE r

MarkJobFinished(s, r) == IF s = "running" THEN r ELSE s

\* Mutants: recovery of one of the two unfinished states only.
InterruptQueuedOnly(s) == IF s = "queued" THEN "interrupted" ELSE s
InterruptRunningOnly(s) == IF s = "running" THEN "interrupted" ELSE s

MarkRunningInterrupted(s) ==
    IF s \in {"queued", "running"} THEN "interrupted" ELSE s

CancelJob(s) == IF s \in {"queued", "running"} THEN "cancelled" ELSE s

-----------------------------------------------------------------------------
(* Dispatcher.Dispatch, cut where another process can run in between.      *)

\* Begin and InsertJob: the row stays invisible until the commit.
DispatchInsert(j) ==
    /\ server = "up"
    /\ tx[j] = "idle"
    /\ \/ tx' = [tx EXCEPT ![j] = "inserted"]
       \/ /\ "tx" \in Faults
          /\ tx' = [tx EXCEPT ![j] = "error"]
    /\ UNCHANGED <<row, task, pc, res, server, stops, history>>

\* asynq refuses a task id that has a task in any state, archived included.
TaskIDConflict(j) ==
    /\ KeyOf[j] # NoKey
    /\ \E k \in Jobs \ {j} : KeyOf[k] = KeyOf[j] /\ task[k] # "none"

\* Mutant: the task is enqueued without asynq.TaskID.
EnqueueWithoutTaskID(j) ==
    /\ server = "up"
    /\ tx[j] = "inserted"
    /\ tx' = [tx EXCEPT ![j] = "enqueued"]
    /\ task' = [task EXCEPT ![j] = "pending"]
    /\ UNCHANGED <<row, pc, res, server, stops, history>>

\* EnqueueContext succeeds; the worker may take the task from here on.
DispatchEnqueue(j) ==
    /\ server = "up"
    /\ tx[j] = "inserted"
    /\ ~TaskIDConflict(j)
    /\ tx' = [tx EXCEPT ![j] = "enqueued"]
    /\ task' = [task EXCEPT ![j] = "pending"]
    /\ UNCHANGED <<row, pc, res, server, stops, history>>

\* ErrTaskIDConflict: the transaction is rolled back, the caller gets a 409.
DispatchDuplicate(j) ==
    /\ server = "up"
    /\ tx[j] = "inserted"
    /\ TaskIDConflict(j)
    /\ tx' = [tx EXCEPT ![j] = "duplicate"]
    /\ UNCHANGED <<row, task, pc, res, server, stops, history>>

\* EnqueueContext fails; the command or only its answer was lost.
DispatchEnqueueError(j) ==
    /\ "redis" \in Faults
    /\ server = "up"
    /\ tx[j] = "inserted"
    /\ tx' = [tx EXCEPT ![j] = "error"]
    /\ \/ UNCHANGED task
       \/ /\ ~TaskIDConflict(j)
          /\ task' = [task EXCEPT ![j] = "pending"]
    /\ UNCHANGED <<row, pc, res, server, stops, history>>

DispatchCommit(j) ==
    /\ server = "up"
    /\ tx[j] = "enqueued"
    /\ tx' = [tx EXCEPT ![j] = "accepted"]
    /\ row' = [row EXCEPT ![j] = "queued"]
    /\ UNCHANGED <<task, pc, res, server, stops, history>>

\* Commit fails; again the transaction or only its answer was lost.
DispatchCommitError(j) ==
    /\ "tx" \in Faults
    /\ server = "up"
    /\ tx[j] = "enqueued"
    /\ tx' = [tx EXCEPT ![j] = "error"]
    /\ \/ UNCHANGED row
       \/ row' = [row EXCEPT ![j] = "queued"]
    /\ UNCHANGED <<task, pc, res, server, stops, history>>

-----------------------------------------------------------------------------
(* The worker: asynq hands a task to the kind's handler, which decodes it, *)
(* marks the row running, runs the host operation, calls finish (an UPDATE *)
(* and a PUBLISH, errors of both ignored) and returns its error.           *)

Busy == {j \in Jobs : pc[j] # "idle"}

Claim(j) ==
    /\ server = "up"
    /\ task[j] = "pending"
    /\ Cardinality(Busy) < Concurrency
    /\ task' = [task EXCEPT ![j] = "active"]
    /\ pc' = [pc EXCEPT ![j] = "claimed"]
    /\ UNCHANGED <<row, tx, res, server, stops, history>>

\* decode fails: the handler returns without touching the row.
DecodeError(j) ==
    /\ "decode" \in Faults
    /\ pc[j] = "claimed"
    /\ task' = [task EXCEPT ![j] = "archived"]
    /\ pc' = [pc EXCEPT ![j] = "idle"]
    /\ UNCHANGED <<row, tx, res, server, stops, history>>

\* Neither an error nor an UPDATE of no row keeps the handler from going on.
\* HandleReplicationRun has no markRunning.
MarkRunning(j) ==
    /\ pc[j] = "claimed"
    /\ pc' = [pc EXCEPT ![j] = "executing"]
    /\ \/ row' = [row EXCEPT ![j] =
                    IF j \in ReplicationRuns THEN @ ELSE MarkJobRunning(@)]
       \/ "db" \in Faults /\ UNCHANGED row
    /\ runs' = [runs EXCEPT ![j] = @ + 1]
    /\ UNCHANGED <<tx, task, res, server, stops, outcomes, requeued>>

HostOp(j) ==
    /\ pc[j] = "executing"
    /\ pc' = [pc EXCEPT ![j] = "ran"]
    /\ \E r \in Results :
          /\ res' = [res EXCEPT ![j] = r]
          /\ outcomes' = [outcomes EXCEPT ![j] = @ \cup {r}]
    /\ UNCHANGED <<row, tx, task, server, stops, runs, requeued>>

\* finish, first half.  HandleReplicationRun does not call it.
FinishRow(j) ==
    /\ pc[j] = "ran"
    /\ pc' = [pc EXCEPT ![j] = "recorded"]
    /\ \/ row' = [row EXCEPT ![j] =
                    IF j \in ReplicationRuns THEN @
                    ELSE MarkJobFinished(@, res[j])]
       \/ "db" \in Faults /\ UNCHANGED row
    /\ UNCHANGED <<tx, task, res, server, stops, history>>

\* finish, second half.  The message has no reader in this module.
Publish(j) ==
    /\ pc[j] = "recorded"
    /\ pc' = [pc EXCEPT ![j] = "published"]
    /\ UNCHANGED <<row, tx, task, res, server, stops, history>>

\* Mutant: without MaxRetry(0), asynq retries a failed task.
ReturnWithRetry(j) ==
    /\ pc[j] = "published"
    /\ pc' = [pc EXCEPT ![j] = "idle"]
    /\ task' = [task EXCEPT ![j] =
                  IF res[j] = "succeeded" \/ runs[j] > 3 THEN "none" ELSE "pending"]
    /\ res' = [res EXCEPT ![j] = "none"]
    /\ UNCHANGED <<row, tx, server, stops, history>>

\* asynq drops the task of a handler that returns nil and, MaxRetry being 0,
\* archives the task of one that returns an error.
Return(j) ==
    /\ pc[j] = "published"
    /\ pc' = [pc EXCEPT ![j] = "idle"]
    /\ task' = [task EXCEPT ![j] =
                  IF res[j] = "succeeded" THEN "none" ELSE "archived"]
    /\ res' = [res EXCEPT ![j] = "none"]
    /\ UNCHANGED <<row, tx, server, stops, history>>

\* Dispatch sets no deadline, so asynq's default applies: the task is archived,
\* the host command is killed, and finish fails on the expired context.
Timeout(j) ==
    /\ "timeout" \in Faults
    /\ pc[j] = "executing"
    /\ pc' = [pc EXCEPT ![j] = "idle"]
    /\ task' = [task EXCEPT ![j] = "archived"]
    /\ outcomes' = [outcomes EXCEPT ![j] = @ \cup {"failed"}]
    /\ UNCHANGED <<row, tx, res, server, stops, runs, requeued>>

\* asynq's recoverer, for an active task whose process is gone.
LeaseExpired(j) ==
    /\ server = "up"
    /\ task[j] = "active"
    /\ pc[j] = "idle"
    /\ task' = [task EXCEPT ![j] = "archived"]
    /\ UNCHANGED <<row, tx, pc, res, server, stops, history>>

\* asynq deletes archived tasks after its retention time.
ArchiveExpired(j) ==
    /\ task[j] = "archived"
    /\ task' = [task EXCEPT ![j] = "none"]
    /\ UNCHANGED <<row, tx, pc, res, server, stops, history>>

-----------------------------------------------------------------------------
\* DELETE /jobs/{id}: one UPDATE.
Cancel(j) ==
    /\ server = "up"
    /\ row[j] # CancelJob(row[j])
    /\ row' = [row EXCEPT ![j] = CancelJob(@)]
    /\ UNCHANGED <<tx, task, pc, res, server, stops, history>>

\* The process stops: open transactions roll back and handlers die.  A
\* graceful shutdown that lasts long enough requeues active tasks, a crash
\* requeues none.
Stop ==
    /\ server = "up"
    /\ stops < MaxStops
    /\ server' = "down"
    /\ stops' = stops + 1
    /\ tx' = [j \in Jobs |->
                IF tx[j] \in {"inserted", "enqueued"} THEN "error" ELSE tx[j]]
    /\ \E S \in SUBSET Busy :
          /\ task' = [j \in Jobs |-> IF j \in S THEN "pending" ELSE task[j]]
          /\ requeued' = [j \in Jobs |->
                            IF j \in S THEN requeued[j] + 1 ELSE requeued[j]]
    /\ pc' = [j \in Jobs |-> "idle"]
    /\ res' = [j \in Jobs |-> "none"]
    /\ UNCHANGED <<row, runs, outcomes>>

\* main: MarkInterruptedAtStartup (an error is only logged) and only then the
\* worker and the HTTP server.
Start ==
    /\ server = "down"
    /\ server' = "up"
    /\ \/ row' = [j \in Jobs |-> MarkRunningInterrupted(row[j])]
       \/ "recover" \in Faults /\ UNCHANGED row
    /\ UNCHANGED <<tx, task, pc, res, stops, history>>

-----------------------------------------------------------------------------
Dispatch(j) ==
    \/ DispatchInsert(j)
    \/ DispatchEnqueue(j)
    \/ DispatchDuplicate(j)
    \/ DispatchEnqueueError(j)
    \/ DispatchCommit(j)
    \/ DispatchCommitError(j)

\* A step of the handler of j other than its PUBLISH.
Work(j) ==
    \/ DecodeError(j)
    \/ MarkRunning(j)
    \/ HostOp(j)
    \/ FinishRow(j)
    \/ Return(j)
    \/ Timeout(j)

JobStep(j) ==
    \/ Dispatch(j)
    \/ Claim(j)
    \/ Work(j)
    \/ LeaseExpired(j)
    \/ ArchiveExpired(j)
    \/ Cancel(j)

Next ==
    \/ \E j \in Jobs : JobStep(j) \/ Publish(j)
    \/ Stop
    \/ Start

Spec == Init /\ [][Next]_vars

\* A goroutine that can go on does and asynq's server loops run while the process
\* is up.  It comes up again: systemd restarts it after a failure
\* (Restart=on-failure), an operator or the next boot after a graceful stop.  No
\* client has to call Dispatch or Cancel.
Fairness ==
    /\ WF_vars(Start)
    /\ \A j \in Jobs :
          /\ WF_vars(DispatchEnqueue(j) \/ DispatchDuplicate(j))
          /\ WF_vars(DispatchCommit(j))
          /\ WF_vars(Claim(j))
          /\ WF_vars(Work(j) \/ Publish(j))
          /\ WF_vars(LeaseExpired(j))

FairSpec == Spec /\ Fairness

-----------------------------------------------------------------------------
(* Properties *)

\* Two handlers whose dispatches had the same UniqueKey are never in progress
\* together, through restarts and redeliveries: a second Dispatch with the key
\* gets ErrTaskIDConflict while the first task exists in any state.
UniqueKeyExclusive ==
    \A j, k \in Busy : j # k => KeyOf[j] = NoKey \/ KeyOf[j] # KeyOf[k]

\* A host operation is started at most once per delivery of its task: MaxRetry
\* is 0 and the archived task is not run again, so only the requeue of a
\* graceful shutdown can make it run twice.  This bounds what the worker does; it
\* is weaker than what the design promises of a requeued task, which
\* RecordedIsNotRerun states and the code does not keep.
OncePerDelivery == \A j \in Jobs : runs[j] <= 1 + requeued[j]

\* A row in state running has a live handler while the process is up: what a
\* stop left behind is interrupted at startup, before the worker runs.  It
\* needs the UPDATEs of finish and of the recovery to succeed and the handler
\* to return before asynq's deadline.
RunningHasHandler ==
    Faults \cap {"db", "timeout", "recover"} = {} =>
        \A j \in Jobs : server = "up" /\ row[j] = "running" =>
                            pc[j] \in {"executing", "ran"}

\* A committed row in state queued is not forgotten: its task is still in the
\* queue or in a handler, or else the host operation has already run (the worker
\* was faster than the commit of the row, or the job is a replication.run, whose
\* handler never writes the row: it says queued after every run).
QueuedNotForgotten ==
    Faults \cap {"decode", "recover"} = {} =>
        \A j \in Jobs : server = "up" /\ row[j] = "queued" =>
                            task[j] \in {"pending", "active"} \/ outcomes[j] # {}

\* The rows seen by GET /jobs follow the lifecycle of module JobLifecycle.
Lifecycle == INSTANCE JobLifecycle
RowsFollowLifecycle == Lifecycle!Spec

\* No row says running for ever (with the proviso of RunningHasHandler).
RunningEnds ==
    Faults \cap {"db", "timeout", "recover"} = {} =>
        \A j \in Jobs : row[j] = "running" ~> row[j] # "running"

\* Every accepted job is tried, or its row says that it was not: no interleaving
\* with other jobs, restarts and the limit on handlers starves it.
AcceptedIsTried ==
    "decode" \notin Faults =>
        \A j \in Jobs : tx[j] = "accepted" ~>
                            \/ outcomes[j] # {}
                            \/ row[j] \in {"cancelled", "interrupted"}

-----------------------------------------------------------------------------
(* What comments and the design say and the code does not do.              *)

\* dispatcher.go: the order insert, enqueue, commit guarantees "no orphan rows":
\* a queued row has a task that will move it.
NoOrphanRows ==
    \A j \in Jobs : server = "up" /\ row[j] = "queued" =>
                        task[j] \in {"pending", "active"}

\* dispatcher.go: ErrDuplicate means that the key is already in flight.
DuplicateMeansInFlight ==
    [][\A j \in Jobs : tx[j] = "inserted" /\ tx'[j] = "duplicate" =>
          \E k \in Jobs \ {j} : /\ KeyOf[k] = KeyOf[j]
                                /\ task[k] \in {"pending", "active"}]_vars

\* design, Crash recovery: the worker "checks the row state before re-running: only
\* re-runs if state IN ('queued','interrupted')", so an operation whose result is in
\* the row is not started again.
RecordedIsNotRerun ==
    [][\A j \in Jobs : row[j] \in Results => runs'[j] = runs[j]]_vars

=============================================================================
