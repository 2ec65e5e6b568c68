----------------------------- MODULE Replication -----------------------------
(***************************************************************************)
(* The replication manager and one replication job of backend zfs: calls   *)
(* of Manager.Run, which load the job, take the in-process lock, snapshot  *)
(* the source, send it to the destination and write the job and the run    *)
(* back, racing PATCH and DELETE of the job and a stop of the process.     *)
(*                                                                         *)
(* A snapshot is the minute in its name, repl-YYYY-MM-DD-HHMM; 0 is the    *)
(* empty name.  cfg stands for the fields a request sets: it names the     *)
(* destination; the source dataset and the backend do not change.          *)
(*                                                                         *)
(* main.go registers ZFSBackend{} without sender, receiver and snapshots,  *)
(* so today Execute always fails on its first check: SnapshotCreate's      *)
(* second disjunct.  The module also has the runs of a backend that is     *)
(* fully wired, and every property holds of both.                          *)
(***************************************************************************)
EXTENDS Integers

CONSTANTS
    Runners,    \* the calls of Manager.Run
    Patches,    \* the calls of PATCH /replication-jobs/{id}
    Configs,    \* the values of the fields a request sets
    NoJob,      \* the state of the job's row after DELETE
    Faults,     \* subset of {"store", "stop"}
    MaxMinute   \* bound of the clock

\* "store": a call of the store may fail      "stop": the process may stop
ASSUME ReplicationAssumption ==
    /\ Faults \subseteq {"store", "stop"}
    /\ MaxMinute \in Nat \ {0}
    /\ NoJob \notin [cfg : Configs, last : 0..MaxMinute]

VARIABLES
    job,     \* the row of replication_jobs
    src,     \* the snapshots of the source dataset
    dst,     \* the snapshots each destination has received
    minute,  \* the clock
    held,    \* MemLocker.held: the calls that hold the job's lock
    rpc,     \* progress of each Run
    copy,    \* its local variable job
    snap,    \* the snapshot its Execute created, 0 before
    res,     \* res.Snapshot, 0 when Execute failed
    runRow,  \* the outcome in its row of replication_runs, "none" without a row
    cut,     \* history: the calls that a stop or a failed UpdateRun ended
    ppc,     \* progress of each PATCH
    existing \* its local variable existing

runVars == <<rpc, copy, snap, res, runRow, cut>>
patchVars == <<ppc, existing>>
vars == <<job, src, dst, minute, held, runVars, patchVars>>

Minutes == 1..MaxMinute
JobRows == [cfg : Configs, last : 0..MaxMinute]
\* The steps of Run that it takes with the lock.
LockedSteps == {"locked", "created", "sending", "executed", "saved"}

TypeOK ==
    /\ job \in JobRows \cup {NoJob}
    /\ src \in SUBSET Minutes
    /\ dst \in [Configs -> SUBSET Minutes]
    /\ minute \in Minutes
    /\ held \in SUBSET Runners
    /\ rpc \in [Runners -> {"idle", "loaded", "done"} \cup LockedSteps]
    /\ copy \in [Runners -> JobRows \cup {NoJob}]
    /\ snap \in [Runners -> 0..MaxMinute]
    /\ res \in [Runners -> 0..MaxMinute]
    /\ runRow \in [Runners -> {"none", "running", "succeeded", "failed"}]
    /\ cut \in SUBSET Runners
    /\ ppc \in [Patches -> {"idle", "loaded", "done"}]
    /\ existing \in [Patches -> JobRows \cup {NoJob}]

\* The job has been created and has never run.
Init ==
    /\ \E c \in Configs : job = [cfg |-> c, last |-> 0]
    /\ src = {}
    /\ dst = [c \in Configs |-> {}]
    /\ minute = 1
    /\ held = {}
    /\ rpc = [r \in Runners |-> "idle"]
    /\ copy = [r \in Runners |-> NoJob]
    /\ snap = [r \in Runners |-> 0]
    /\ res = [r \in Runners |-> 0]
    /\ runRow = [r \in Runners |-> "none"]
    /\ cut = {}
    /\ ppc = [p \in Patches |-> "idle"]
    /\ existing = [p \in Patches |-> NoJob]

-----------------------------------------------------------------------------
(* Manager.Run *)

\* GetJob; without a row Run returns ErrNotFound.
Load(r) ==
    /\ rpc[r] = "idle"
    /\ \/ /\ job # NoJob
          /\ copy' = [copy EXCEPT ![r] = job]
          /\ rpc' = [rpc EXCEPT ![r] = "loaded"]
       \/ /\ job = NoJob \/ "store" \in Faults
          /\ rpc' = [rpc EXCEPT ![r] = "done"]
          /\ UNCHANGED copy
    /\ UNCHANGED <<job, src, dst, minute, held, snap, res, runRow, cut, patchVars>>

\* Mutant: the lock is taken without a look at the table.
TryLockUnchecked(r) ==
    /\ rpc[r] = "loaded"
    /\ held' = held \cup {r}
    /\ rpc' = [rpc EXCEPT ![r] = "locked"]
    /\ UNCHANGED <<job, src, dst, minute, copy, snap, res, runRow, cut, patchVars>>

\* MemLocker.TryLock; a second call returns ErrLocked and writes no run.  The ttl
\* that Run passes is ignored: only the holder's release frees the lock.
TryLock(r) ==
    /\ rpc[r] = "loaded"
    /\ IF held = {}
       THEN /\ held' = {r}
            /\ rpc' = [rpc EXCEPT ![r] = "locked"]
       ELSE /\ rpc' = [rpc EXCEPT ![r] = "done"]
            /\ UNCHANGED held
    /\ UNCHANGED <<job, src, dst, minute, copy, snap, res, runRow, cut, patchVars>>

\* Mutant: a failed insert returns without the release.
CreateRunKeepsLock(r) ==
    /\ rpc[r] = "locked"
    /\ \/ /\ job # NoJob
          /\ runRow' = [runRow EXCEPT ![r] = "running"]
          /\ rpc' = [rpc EXCEPT ![r] = "created"]
       \/ /\ job = NoJob \/ "store" \in Faults
          /\ rpc' = [rpc EXCEPT ![r] = "done"]
          /\ UNCHANGED runRow
    /\ UNCHANGED <<job, src, dst, minute, held, copy, snap, res, cut, patchVars>>

\* CreateRun.  It fails on a store error and, the run referring to its job, when
\* the job has been deleted; the deferred release then frees the lock.
CreateRun(r) ==
    /\ rpc[r] = "locked"
    /\ \/ /\ job # NoJob
          /\ runRow' = [runRow EXCEPT ![r] = "running"]
          /\ rpc' = [rpc EXCEPT ![r] = "created"]
          /\ UNCHANGED held
       \/ /\ job = NoJob \/ "store" \in Faults
          /\ rpc' = [rpc EXCEPT ![r] = "done"]
          /\ held' = held \ {r}
          /\ UNCHANGED runRow
    /\ UNCHANGED <<job, src, dst, minute, copy, snap, res, cut, patchVars>>

\* Mutant: a snapshot that exists is taken for the new one.
SnapshotReuse(r) ==
    /\ rpc[r] = "created"
    /\ src' = src \cup {minute}
    /\ snap' = [snap EXCEPT ![r] = minute]
    /\ rpc' = [rpc EXCEPT ![r] = "sending"]
    /\ UNCHANGED <<job, dst, minute, held, copy, res, runRow, cut, patchVars>>

\* Execute, the check of its dependencies, which is all that happens as wired
\* today, and the snapshot: its name has minute resolution and must be new.
SnapshotCreate(r) ==
    /\ rpc[r] = "created"
    /\ \/ /\ minute \notin src
          /\ src' = src \cup {minute}
          /\ snap' = [snap EXCEPT ![r] = minute]
          /\ rpc' = [rpc EXCEPT ![r] = "sending"]
       \/ /\ rpc' = [rpc EXCEPT ![r] = "executed"]
          /\ UNCHANGED <<src, snap>>
    /\ UNCHANGED <<job, dst, minute, held, copy, res, runRow, cut, patchVars>>

\* Execute, send and receive.  An incremental stream needs its base on both
\* sides; every transfer may fail, also after the destination has committed it.
Transfer(r) ==
    /\ rpc[r] = "sending"
    /\ rpc' = [rpc EXCEPT ![r] = "executed"]
    /\ \/ /\ copy[r].last = 0 \/ copy[r].last \in src \cap dst[copy[r].cfg]
          /\ dst' = [dst EXCEPT ![copy[r].cfg] = @ \cup {snap[r]}]
          /\ res' \in {res, [res EXCEPT ![r] = snap[r]]}
       \/ UNCHANGED <<dst, res>>
    /\ UNCHANGED <<job, src, minute, held, copy, snap, runRow, cut, patchVars>>

\* Mutant: the pointer is saved whether or not the transfer succeeded.
SaveLastAlways(r) ==
    /\ rpc[r] = "executed"
    /\ rpc' = [rpc EXCEPT ![r] = "saved"]
    /\ job # NoJob
    /\ job' = [copy[r] EXCEPT !.last = snap[r]]
    /\ UNCHANGED <<src, dst, minute, held, copy, snap, res, runRow, cut, patchVars>>

\* After a successful transfer UpdateJob writes the copy loaded at the start,
\* with the new last snapshot; an error, a deleted job included, is logged.
SaveLast(r) ==
    /\ rpc[r] = "executed"
    /\ rpc' = [rpc EXCEPT ![r] = "saved"]
    /\ \/ /\ res[r] # 0 /\ job # NoJob
          /\ job' = [copy[r] EXCEPT !.last = res[r]]
       \/ /\ res[r] = 0 \/ job = NoJob \/ "store" \in Faults
          /\ UNCHANGED job
    /\ UNCHANGED <<src, dst, minute, held, copy, snap, res, runRow, cut, patchVars>>

\* Mutants: every run is reported as succeeded; the outcome is a word the table
\* does not allow.
SaveRunSucceeded(r) ==
    /\ rpc[r] = "saved"
    /\ rpc' = [rpc EXCEPT ![r] = "done"]
    /\ held' = held \ {r}
    /\ runRow' = [runRow EXCEPT ![r] = "succeeded"]
    /\ UNCHANGED <<job, src, dst, minute, copy, snap, res, cut, patchVars>>

SaveRunMisspelt(r) ==
    /\ rpc[r] = "saved"
    /\ rpc' = [rpc EXCEPT ![r] = "done"]
    /\ held' = held \ {r}
    /\ runRow' = [runRow EXCEPT ![r] = "success"]
    /\ UNCHANGED <<job, src, dst, minute, copy, snap, res, cut, patchVars>>

\* Mutant: Run returns the error of Execute before it calls UpdateRun.
SaveRunOnSuccess(r) ==
    /\ rpc[r] = "saved"
    /\ rpc' = [rpc EXCEPT ![r] = "done"]
    /\ held' = held \ {r}
    /\ runRow' = [runRow EXCEPT ![r] = IF res[r] = 0 \/ @ = "none" THEN @
                                                               ELSE "succeeded"]
    /\ UNCHANGED <<job, src, dst, minute, copy, snap, res, cut, patchVars>>

\* UpdateRun and the deferred release.
SaveRun(r) ==
    /\ rpc[r] = "saved"
    /\ rpc' = [rpc EXCEPT ![r] = "done"]
    /\ held' = held \ {r}
    /\ \/ /\ runRow[r] # "none"
          /\ runRow' = [runRow EXCEPT ![r] = IF res[r] = 0 THEN "failed"
                                                           ELSE "succeeded"]
          /\ UNCHANGED cut
       \/ /\ runRow[r] = "none" \/ "store" \in Faults
          /\ cut' = cut \cup {r}
          /\ UNCHANGED runRow
    /\ UNCHANGED <<job, src, dst, minute, copy, snap, res, patchVars>>

-----------------------------------------------------------------------------
(* The HTTP handlers *)

\* Update: Mgr.Get, or 404.
PatchLoad(p) ==
    /\ ppc[p] = "idle"
    /\ \/ /\ job # NoJob
          /\ existing' = [existing EXCEPT ![p] = job]
          /\ ppc' = [ppc EXCEPT ![p] = "loaded"]
       \/ /\ job = NoJob \/ "store" \in Faults
          /\ ppc' = [ppc EXCEPT ![p] = "done"]
          /\ UNCHANGED existing
    /\ UNCHANGED <<job, src, dst, minute, held, runVars>>

\* Update: requestToJob and UpdateJob, which writes every column.  The request
\* may clear the last snapshot, as the docs advise, and else keeps the loaded one.
PatchSave(p) ==
    /\ ppc[p] = "loaded"
    /\ ppc' = [ppc EXCEPT ![p] = "done"]
    /\ \/ /\ job # NoJob
          /\ \E c \in Configs, l \in {0, existing[p].last} :
                job' = [cfg |-> c, last |-> l]
       \/ /\ job = NoJob \/ "store" \in Faults
          /\ UNCHANGED job
    /\ UNCHANGED <<src, dst, minute, held, runVars, existing>>

\* Delete: the runs go with the job (ON DELETE CASCADE).
Delete ==
    /\ job # NoJob
    /\ job' = NoJob
    /\ runRow' = [r \in Runners |-> "none"]
    /\ UNCHANGED <<src, dst, minute, held, rpc, copy, snap, res, cut, patchVars>>

-----------------------------------------------------------------------------
\* The process stops: calls in progress and the lock table are gone.
Stop ==
    /\ "stop" \in Faults
    /\ \E r \in Runners : rpc[r] \notin {"idle", "done"}
    /\ held' = {}
    /\ rpc' = [r \in Runners |-> IF rpc[r] = "idle" THEN "idle" ELSE "done"]
    /\ cut' = cut \cup {r \in Runners : rpc[r] \in LockedSteps}
    /\ ppc' = [p \in Patches |-> IF ppc[p] = "idle" THEN "idle" ELSE "done"]
    /\ UNCHANGED <<job, src, dst, minute, copy, snap, res, runRow, existing>>

Clock ==
    /\ minute < MaxMinute
    /\ minute' = minute + 1
    /\ UNCHANGED <<job, src, dst, held, runVars, patchVars>>

RunStep(r) ==
    \/ Load(r)
    \/ TryLock(r)
    \/ CreateRun(r)
    \/ SnapshotCreate(r)
    \/ Transfer(r)
    \/ SaveLast(r)
    \/ SaveRun(r)

Next ==
    \/ \E r \in Runners : RunStep(r)
    \/ \E p \in Patches : PatchLoad(p) \/ PatchSave(p)
    \/ Delete
    \/ Stop
    \/ Clock

Spec == Init /\ [][Next]_vars

\* A call of Run that has begun goes on.  For Transfer this rests on asynq's default
\* deadline, which cancels the context of a transfer that hangs: LockTTL, meant to
\* cap the hold of the lock, is not implemented by MemLocker.
FairSpec == Spec /\ \A r \in Runners : WF_vars(rpc[r] # "idle" /\ RunStep(r))

-----------------------------------------------------------------------------
(* Properties *)

\* The base of the next incremental send is a snapshot that a destination of the
\* job has received: neither a failed transfer, nor a store error, nor a stop, nor
\* a PATCH that writes back an old row makes LastSnapshot name another.
LastWasReceived ==
    job # NoJob => job.last = 0 \/ \E c \in Configs : job.last \in dst[c]

\* A run reported as succeeded has delivered its snapshot to the destination that
\* the job had when the run began.
SucceededWasReceived ==
    \A r \in Runners : runRow[r] = "succeeded" => snap[r] \in dst[copy[r].cfg]

\* At most one run of the job transfers at a time: the lock table holds exactly
\* the call that is between TryLock and its release, however long it lasts and
\* whichever way it ends.  That is what the code does and not what is documented:
\* manager.go:52-54 and docs/replication/README.md:190-193 let the lock expire
\* after LockTTL (6 h), with the first run still in progress, and MemLocker
\* (manager.go:375) drops the ttl.  The exclusion rests on that.
OneRunPerJob == \A r \in Runners : rpc[r] \in LockedSteps <=> held = {r}

\* No two runs of the job send the same snapshot, two runs within one minute
\* included: the second finds the name taken and fails.
SnapshotsAreDistinct ==
    \A r, q \in Runners : r # q /\ snap[r] # 0 => snap[r] # snap[q]

\* A run that is listed as running is in progress, or its process stopped under it
\* (nothing at startup looks at replication_runs), or its UpdateRun failed: no
\* error path, no refused lock and no DELETE leaves such a row behind.
RunningHasCall ==
    \A r \in Runners : runRow[r] = "running" => rpc[r] \in LockedSteps \/ r \in cut

\* The lock of the job does not stay held, whatever fails: the deferred release
\* is on every path of Run.  (A transfer that hangs is ended by asynq's deadline,
\* see FairSpec, and not by LockTTL.)
LockIsReleased == held # {} ~> held = {}

-----------------------------------------------------------------------------
(* What comments and docs say and the code does not do.                    *)

\* manager.go, Update: fields are merged "onto the latest version": the fields
\* that a request set change by requests only.
EditsSurviveRuns ==
    [][job # NoJob /\ job' # NoJob /\ job'.cfg # job.cfg =>
          \E p \in Patches : ppc[p] = "loaded" /\ ppc'[p] = "done"]_vars

=============================================================================
