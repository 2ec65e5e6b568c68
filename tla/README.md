# A TLA+ verification of NovaNAS

NovaNAS is a storage appliance: one Go process, `nova-api`, serves a REST API,
keeps its records in Postgres, queues work in Redis (asynq), and changes the host
through `zfs`, `zpool`, `exportfs`, `smbcontrol` and files under `/etc` and `/sys`.
Beside it run small programs at boot (unseal, key load, restore of targets), a CSI
driver and a Kerberos sync daemon.

This directory models the parts of it in which several actors change shared state,
checks them with TLC on small instances and proves the main safety properties with
TLAPS for every instance. `PROJECT.json` lists components, runs, the definition to
source map, findings, hazards and theorems.

| Module | Models | Source |
|---|---|---|
| `Jobs` | dispatcher, queue, worker, cancel, restart | `internal/jobs`, `cmd/nova-api/main.go`, `internal/store/queries/jobs.sql` |
| `JobLifecycle` | abstract: what the table `jobs` promises a reader | what `GET /jobs` shows |
| `JobStream` | `GET /jobs/{id}/stream` composed with `Jobs` | `internal/api/handlers/jobs_sse.go` |
| `Replication` | `Manager.Run` against PATCH, DELETE and a stop | `internal/replication`, its handlers |
| `KeyEscrow` | encrypted datasets, key escrow, boot | `internal/host/zfs/dataset/encryption.go`, `cmd/nova-zfs-keyload`, systemd units |
| `JobsProofs`, `ReplicationProofs`, `KeyEscrowProofs` | theorems | |
| `MCJobs`, `MCJobStream`, `MCReplication`, `MCKeyEscrow` | instances for TLC | |

Run one check with `tlc -config MCJobs_live.cfg MCJobs`, one set of proofs with
`tlapm JobsProofs.tla`.

## 1. Inventory

For every part: its state, its operations, whom it meets, what is hard, what
should hold. "Modelled" parts have a section below.

**Job pipeline** (`internal/jobs`) — modelled. State: a row per job in Postgres, a
task per job in Redis. Operations: Dispatch (insert, enqueue, commit), the worker's
handlers (mark running, host operation, finish, publish), cancel, recovery at
startup. Every write request of the API goes through it. Hard: three stores without
a common transaction, stops at any point, redelivery. Should hold: operations with
one key exclude each other, an operation is not repeated, rows tell the truth and
reach a final state.

**Job event stream** (`handlers/jobs_sse.go`) — modelled. State: a Redis
subscription and a row read once. Hard: the message may pass between the two.
Should hold: what a client is told is true, and a stream ends.

**Replication** (`internal/replication`) — modelled for backend `zfs`. State: job
and run rows, an in-process lock, snapshots on both sides. Hard: a transfer of hours
between a read of the job and its write back. Should hold: the incremental base
exists at a destination, one run at a time.

**Dataset encryption** (`dataset/encryption.go`, `nova-zfs-keyload`) — modelled.
State: a wrapped key per dataset in the secrets backend, datasets, loaded keys.
Hard: two systems, a rollback that can itself fail, clients that go away, reboots.
Should hold: no key of an existing dataset is lost; a boot unlocks all.

**REST write handlers** (`internal/api/handlers`, 9.8k lines). No state of their own: they
validate, choose a UniqueKey and dispatch. Hard: two requests about one resource
with different keys run together. Should hold: operations that must not overlap
share a key. One instance is checked (`jobs_pool`).

**Snapshot and replication schedules** (`internal/host/scheduler`) and **scrub policies**
(`internal/scrubpolicy`), **replication scheduler** (`main.go`). State:
`last_fired_at` per row, snapshots. Operations: a tick per minute that evaluates
cron windows, fires, marks, prunes. Hard: late ticks, a stop between firing and
marking, retention against the incremental base. Should hold: every window fires
once, retention keeps what the policy says. Cron and retention are pure functions.

**Protocol shares** (`protocolshare`) over **NFS** and **Samba** managers. State: dataset,
export file, share file, what the daemons serve. Operations: create with rollback,
update, two deletes; direct requests for each protocol under other keys. Should
hold: a failed create leaves nothing; files and daemons agree.

**Plugin engine** (`internal/plugins`). State: rows, directories, routes, provisioned
resources, a mutex per name. Operations: install with dependencies, upgrade,
uninstall, restart, restore. Hard: recursion under locks, planning against a changing table.
Should hold: no deadlock, no installed plugin without its dependencies.

**Kerberos sync** (`internal/krb5sync`). State: event cursor, principals. Should
hold: the KDC converges to Keycloak's users whatever call fails.

**Notification center** (`internal/notifycenter`) and **SMTP outbox**. State: cursors,
per-user read state, a bus that sheds, a bounded outbox. Should hold: no event is
skipped, no mail is sent twice or marked under another's index.

**CSI driver** (`internal/csi`). Stateless; retried by the orchestrator. Should
hold: create, delete, expand and publish are idempotent at every interleaving.

**NVMe-oF save and restore**, **iSCSI**, **secrets backends**, **JWKS cache**,
**TLS reload**, **workloads**, **VMs**: small state, each with one race or one multi-step
write; they are in the plan.

**Not to be modelled**: wrappers of one command or file (SMART, disks, network,
system, TPM, exec), generated code, clients, metrics, configuration, validation
programs, the web console. `PROJECT.json` has the reason for each.

## 2. The job pipeline (`Jobs`, `JobLifecycle`)

A member of `Jobs` is one call of `Dispatch`: one uuid, at most one row and one
task. `row` is the committed `jobs.state`; the insert is invisible until the commit,
so only `tx` knows of it. `task` is the task in Redis under its id, which is the
UniqueKey or a fresh one. `pc` and `res` are the worker's place in the handler and
its local `err`. `server` is the process: API, worker and streams are goroutines of
it. `runs`, `outcomes`, `requeued` are history and guard nothing.

Actions: `DispatchInsert`, `DispatchEnqueue`, `DispatchDuplicate`,
`DispatchEnqueueError`, `DispatchCommit`, `DispatchCommitError` (the steps of
`Dispatch`, cut where the worker can run in between); `Claim` (asynq hands a task to
a handler, at most `Concurrency`); `DecodeError`, `MarkRunning`, `HostOp`,
`FinishRow`, `Publish`, `Return` (a handler of `worker.go`; all of them have this
shape and differ in the operation called; those of kind `replication.run` do not touch
the row); `Timeout`, `LeaseExpired`, `ArchiveExpired` (asynq); `Cancel`; `Stop`
(crash or graceful; after a graceful one asynq may have put active tasks back); `Start` (recovery, then the
worker). The UPDATE statements are functions of the state they match on.

asynq is external and modelled from how it is configured and called: a task id
conflicts with a task in any state, `MaxRetry(0)` archives a failed task, success
deletes it, a task has a deadline, and a task without a live lease is archived.

| Run | Instance | Shows |
|---|---|---|
| `jobs_faults` | two jobs with one key, two handlers, all faults, two stops | `TypeOK`, `UniqueKeyExclusive`, `OncePerDelivery`, and that `Jobs` implements `JobLifecycle` |
| `jobs_live` | a job with a key and a replication run, one handler, failing dispatches, two stops | `RunningHasHandler`, `QueuedNotForgotten`, and, with fairness, `RunningEnds`, `AcceptedIsTried` |
| `jobs_orphan` | two jobs, no faults | the worker can outrun the commit of the row: "no orphan rows" is false |
| `jobs_duplicate` | as above | an archived task answers "already in flight" to a retry |
| `jobs_redelivery` | one job, one stop, no faults | a task requeued by a graceful shutdown is run again although its row is final |
| `jobs_pool` | a destroy and a policy's scrub of one pool | they have different keys and run together |

Bounds. Two jobs suffice for key conflicts (the relation is between pairs), one
handler for contention, two stops for a stop during the aftermath of another.
The process may stop for good and requests may never come, so deadlock is not
checked. Fairness: the process comes up again, a request being handled goes on, asynq
keeps claiming and expiring leases, a handler that runs returns. systemd restarts the
process only after a failure (`Restart=on-failure`); after a graceful stop `RunningEnds`,
`AcceptedIsTried` and `TailEnds` rely on an operator or on the next boot. Cancels, faults, stops and the arrival of requests are not fair.

What the properties do not say. `OncePerDelivery` is a bound on what the worker does and
leaves one more run to every requeue; the design promises that a requeued task is run only
if its row is `queued` or `interrupted`, which is `RecordedIsNotRerun`, violated in
`jobs_redelivery`. `RowsFollowLifecycle` allows an operation without a row and a row that is
left `running`. `RunningHasHandler` and `RunningEnds` assume that the UPDATEs of `finish` and
of the recovery succeed and that no deadline passes. `QueuedNotForgotten` counts a row as
remembered once its operation has run: rows of kind `replication.run` stay `queued` after
every run, since their handler (`replication_task.go`) never writes the row.

## 3. The event stream (`JobStream`)

Extends `Jobs`. `Subscribe` sends the command (go-redis does not wait for the answer),
`SubscriptionTakesEffect` is Redis, `Snapshot` reads the row and sends the first
event, `Forward` relays messages until a terminal one, `Disconnect` is the client.
The worker's `Publish` becomes `PublishState`.

`stream_tail` (one job, two stops): a stream whose subscription was in effect at the snapshot can
still learn the end (`TailCanLearn`), says only what happened
(`StreamTellsTruth`: of the operation; the row of a cancelled job says something else than
the message its handler publishes), and ends (`TailEnds`). `stream_race`: the subscription can take
effect after both the snapshot and the last message, so subscribing first does not
close the race, contrary to the comment in the handler.

## 4. Replication (`Replication`)

One job of backend `zfs`. A snapshot is the minute in its name, `cfg` stands for the
fields a request sets and names the destination. `Load`, `TryLock`, `CreateRun`,
`SnapshotCreate`, `Transfer`, `SaveLast`, `SaveRun` are the steps of `Manager.Run`
between which other calls run; `PatchLoad` and `PatchSave` are PATCH; `Delete`, `Stop`
and `Clock` complete it. A transfer may be committed by the receiver and still be
reported as failed. `cut` is history: calls that a stop or a failed UpdateRun ended.

As wired today no transfer ever happens: `main.go:216-229` registers `ZFSBackend{}` without
sender, receiver and snapshots, and `Execute` rejects every run at `zfs_backend.go:77-79`.
That is the second disjunct of `SnapshotCreate`. The model is a superset: it also has the
runs of a backend with its dependencies, for which the rest of `Run` is written, and the
properties hold of both. `replication_edits` needs a run that succeeds, so its finding
waits for the backend to be wired.

`replication_faults` (two runs, a PATCH, three minutes, store errors, stops, DELETE):
the last snapshot is one that a destination has (`LastWasReceived`), success is true
(`SucceededWasReceived`), runs exclude each other (`OneRunPerJob`), two runs never
send one snapshot (`SnapshotsAreDistinct`), a run listed as running is in progress unless a
stop or a failed UpdateRun ended it (`RunningHasCall`), the lock is freed on every path
(`LockIsReleased`, under weak fairness of a run in progress). That a transfer ends at all
rests on asynq's default deadline, which cancels the context of `Execute`; the `LockTTL` that
should cap the hold is dropped by `MemLocker` (section 7). The UpdateRun of a run that the
deadline ended fails on the same context, which is a store error of the model.
`replication_edits`: a run that loaded the job before a PATCH writes the old fields back.
Two runs are what a lock is about; three minutes allow same-minute and later runs.
A PATCH is assumed to leave `lastSnapshot` out or to clear it, as the docs advise: the
handler would store any name it is sent, and then `LastWasReceived` says nothing. The
source dataset and the backend of the job stay the same.

## 5. Encrypted datasets (`KeyEscrow`)

A key is the call that generated it; the TPM seals and unseals it or fails (fault `"tpm"`, a
PCR change included). `EscrowKey`, `CreateDataset`, `Rollback` are `Initialize`; `Disconnect`
cancels the context they share, which kills `zfs create` before or after its effect and
makes the rollback's delete fail. `LoadKey`, `UnloadKey`, `Destroy` are the other requests.
`Reboot`, `KeyloadList`, `KeyloadOne`, `KeyloadExit`, `StartApi` are the boot sequence of the
two units, `StopApi` a crash or stop of `nova-api` without a reboot, after which the kernel
still has the keys and `StartApi` follows without the loader. History: `clash`, names for
which a call began while another was in progress or the dataset existed; `denied`, names that
a `zfs create` created and reported as failed without having been killed (fault `"mount"`: the
dataset is created and cannot be mounted); `faulted`, names for which the loader of this boot
met a failure of the backend, the TPM or the command.

`escrow_faults` (three calls for two names, every fault, stops of `nova-api`, two reboots):
the key of every dataset without a clash is in escrow, except that the rollback may have
deleted the record of a `denied` one (`KeyIsEscrowed`); and when the loader has ended a dataset
is locked only if the loader exits with an error and failed before its loop or on this very
dataset (`BootUnlocks`). A wrong key is no excuse, except after a clash or a misreported
create; then the exit status still tells, unless the record is gone and the loader cannot
know. The code cannot tell a misreported create from a failed one: that it deletes the
record then is a loss the model has and the property allows.
`escrow_retry` (one call at a time, no faults): a POST for an existing name overwrites the
key, `zfs create` refuses the name, and the rollback deletes the record
(`RollbackSparesExisting`, from the comment on the rollback). Two names suffice for a record
that fails in front of one that must not; two calls for one name for a destroy followed by
a new creation.

## 6. Proofs

All hold for every value of the constants under the named assumptions of the modules
(`JobsAssumption`, `ReplicationAssumption`, `KeyEscrowAssumption`: the
constants have the right shape, nothing more).

`JobsProofs`. `UniqueKeyExclusive` and `OncePerDelivery` follow from `QueueInv`: a
handler in progress holds an active task (`HandlerHoldsTask`), two tasks never share an
id (`TaskIDsUnique`), a task not yet enqueued has no history (`Untouched`), and a task that
may still start its operation has started it fewer times than it was delivered
(`DeliveryBudget`). The invariants about rows need `RowInv`: beyond `QueueInv`, a row exists
only after the commit, a handler's result is an outcome that happened, no
dispatch is in the middle while the process is down, replication rows are never
running, queued rows are remembered and running rows have a handler.
`ImplementsLifecycle` shows from it that every step of `Jobs` is a step of `JobLifecycle` or a stutter.

`ReplicationProofs`. `IInv` adds to the properties: the lock table is the set of calls
between TryLock and release (`LockInv`), what a call knows at each step of its copy, its
snapshot and its run row (`CallInv`), that a PATCH in progress holds an old row
whose last snapshot was received too (`PatchInv`), and what a succeeded run has
delivered (`SucceededInv`); `RunningHasCall` is inductive on top of it. `PatchInv` is the point: PATCH writes back a stale pointer, and
`LastWasReceived` survives because a stale pointer once was a good one.

`KeyEscrowProofs`. `KInv` adds that a call in progress without a clash is alone and owns the
record (`CallInv`), and that a dataset whose create failed exists only if the client
has gone, in which case the rollback cannot delete, or if zfs misreported the create
(`FailingInv`). `BootInv` adds that no call is in progress until the API is up and that, in
the loop, a locked dataset is still to come, has failed by a fault, or has a spoilt record.
No theorem restricts the faults.

Only model-checked: the liveness properties (`RunningEnds`, `AcceptedIsTried`,
`TailEnds`, `LockIsReleased`), since the prover has no fairness and no ENABLED, and the
safety of `JobStream`, whose channels are sequences.

## 7. Seen while modelling

Besides the seven findings of `PROJECT.json`, the models behave as follows, which the
comments or docs at the place given do not say:

- a dispatch whose commit failed is executed all the same, since handlers do not look at
  whether a row matched (`internal/jobs/worker.go`, `markRunning`), while `dispatcher.go:63-64`
  has the worker ack and log a task without a row;
- the lock of a replication job never expires: `MemLocker.TryLock` (`manager.go:375`) drops
  its ttl, while `manager.go:52-54` says "LockTTL caps how long a run can hold the per-job
  lock" and `docs/replication/README.md:190-193` that it "is force-released after TTL".
  `OneRunPerJob` and `RunsExclude` are about the code: exclusion for as long as a run lasts. With
  the documented expiry a run longer than six hours would not exclude the next one;
- a run left in `running` need not mean that the worker died or the destination is
  unreachable, as the same lines say: a failed UpdateRun leaves it so too;
- `DELETE /jobs/{id}` on a queued job only updates the row (`handlers/jobs.go:86-98`), and the
  worker still runs its task, while the design (line 200) says that it removes the task;
- a PATCH that loaded the job before a run succeeded sets its last snapshot back
  (`handlers/replication.go`, `Update`);
- a client that goes away during `zfs create` also cancels the rollback, which leaves a
  record without a dataset; the next boot's key load then fails for that record;
- `nova-api.service` is only ordered after the key load and starts when it failed, while
  `docs/encryption/README.md` says that it requires it.

## 8. Not modelled yet, and the plan

In order, each with its run, bounds and theorems:

1. `Plugins`: install, upgrade, uninstall over per-name locks and a dependency relation;
   three plugins, two requests; deadlock checked; no installed plugin without its
   dependencies; the resolver's plan as a pure operator. Theorem: one owner per lock, rows
   and directories agree.
2. `ResourceKeys`: the requests of the REST handlers with their keys, on top of the
   exclusion that `JobsProofs` proves; one resource of each type, two requests; which
   operations can overlap. Theorem: same key implies no overlap, for all requests.
3. `Schedules`: the tick loops of snapshots, replication and scrub policies over an abstract
   cron window; three windows, late ticks, stops; each window fires at most once. Cron
   matching and retention as operators against reference definitions.
4. `Shares`: protocol shares over NFS and Samba; one name, a managed and a direct
   request; a failed create leaves what was there before.
5. `Krb5Sync`, `NotifyCenter`, `Outbox`: cursors and bounded queues; nothing is skipped;
   convergence under fairness.
6. `CsiVolumes` composed with `JobLifecycle`: retries of the orchestrator; idempotence.
7. `SecretsFile`, `NvmetPersist`, `CertReload`, `KeySets`: one race each.
8. Extensions: rename and change-key in `KeyEscrow`; backends `s3` and `rsync` and the
   pages of run history in `Replication`.
