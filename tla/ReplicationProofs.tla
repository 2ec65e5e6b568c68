-------------------------- MODULE ReplicationProofs --------------------------
(***************************************************************************)
(* Proofs about module Replication, for every set of calls, of             *)
(* configurations and of faults.                                           *)
(***************************************************************************)
EXTENDS Replication, TLAPS

\* The lock table is empty or holds one call, and it is that call which is
\* between TryLock and its release.
LockInv ==
    /\ held = {} \/ \E r \in Runners : held = {r}
    /\ OneRunPerJob

\* What a call of Run knows at each step.
CallInv ==
    \A r \in Runners :
        /\ rpc[r] \in {"loaded"} \cup LockedSteps => copy[r] # NoJob
        /\ rpc[r] \in {"idle", "loaded", "locked", "created"} => snap[r] = 0
        /\ rpc[r] \in {"idle", "loaded", "locked"} => runRow[r] = "none"
        /\ rpc[r] = "sending" => snap[r] # 0
        /\ rpc[r] = "sending" => res[r] = 0
        /\ snap[r] # 0 => snap[r] \in src
        /\ res[r] # 0 => /\ copy[r] # NoJob
                         /\ res[r] = snap[r]
                         /\ snap[r] \in dst[copy[r].cfg]

\* The row that a PATCH has loaded names a delivered snapshot.
PatchInv ==
    \A p \in Patches :
        ppc[p] = "loaded" =>
            /\ existing[p] # NoJob
            /\ existing[p].last = 0 \/ \E c \in Configs : existing[p].last \in dst[c]

SucceededInv == \A r \in Runners : runRow[r] = "succeeded" => res[r] # 0

IInv ==
    /\ TypeOK
    /\ LockInv
    /\ CallInv
    /\ PatchInv
    /\ SucceededInv
    /\ SnapshotsAreDistinct
    /\ LastWasReceived

\* The initial states satisfy the invariant.
LEMMA InitIInv == Init => IInv
  BY ReplicationAssumption
  DEF Init, IInv, TypeOK, LockInv, OneRunPerJob, CallInv, PatchInv, SucceededInv,
      SnapshotsAreDistinct, LastWasReceived, Minutes, JobRows, LockedSteps

\* Every step keeps the types.
LEMMA TypeStep == IInv /\ [Next]_vars => TypeOK'
<1> SUFFICES ASSUME IInv, [Next]_vars PROVE TypeOK'
  OBVIOUS
<1> USE ReplicationAssumption DEF TypeOK, Minutes, JobRows, LockedSteps, runVars, patchVars
<1>0. TypeOK
  BY DEF IInv
<1>1. ASSUME NEW r \in Runners, RunStep(r) PROVE TypeOK'
  <2>1. CASE Load(r) BY <1>0, <2>1 DEF Load
  <2>2. CASE TryLock(r) BY <1>0, <2>2 DEF TryLock
  <2>3. CASE CreateRun(r) BY <1>0, <2>3 DEF CreateRun
  <2>4. CASE SnapshotCreate(r)
    <3>1. minute \in Minutes /\ minute \in 0..MaxMinute
      BY <1>0
    <3>2. src' \in SUBSET Minutes
      BY <1>0, <2>4, <3>1 DEF SnapshotCreate
    <3>3. snap' \in [Runners -> 0..MaxMinute]
      <4>1. snap' = snap \/ snap' = [snap EXCEPT ![r] = minute]
        BY <2>4 DEF SnapshotCreate
      <4>2. QED BY <1>0, <3>1, <4>1
    <3>4. rpc' \in [Runners -> {"idle", "loaded", "done"} \cup LockedSteps]
      BY <1>0, <2>4 DEF SnapshotCreate
    <3>5. QED BY <1>0, <2>4, <3>2, <3>3, <3>4 DEF SnapshotCreate
  <2>5. CASE Transfer(r)
    <3>1. copy[r] \in JobRows
      BY <2>5 DEF Transfer, IInv, CallInv
    <3>2. copy[r].cfg \in Configs
      BY <3>1
    <3>3. snap[r] \in Minutes
      BY <1>0, <2>5 DEF Transfer, IInv, CallInv
    <3>4. dst' \in [Configs -> SUBSET Minutes]
      BY <1>0, <2>5, <3>2, <3>3 DEF Transfer
    <3>5. res' \in [Runners -> 0..MaxMinute]
      BY <1>0, <2>5 DEF Transfer
    <3>6. QED BY <1>0, <2>5, <3>4, <3>5 DEF Transfer
  <2>6. CASE SaveLast(r)
    <3>1. copy[r] \in JobRows
      BY <2>6 DEF SaveLast, IInv, CallInv
    <3>2. QED BY <1>0, <2>6, <3>1 DEF SaveLast
  <2>7. CASE SaveRun(r) BY <1>0, <2>7 DEF SaveRun
  <2>8. QED BY <1>1, <2>1, <2>2, <2>3, <2>4, <2>5, <2>6, <2>7 DEF RunStep
<1>2. ASSUME NEW p \in Patches, PatchLoad(p) PROVE TypeOK'
  BY <1>0, <1>2 DEF PatchLoad
<1>3. ASSUME NEW p \in Patches, PatchSave(p) PROVE TypeOK'
  <2>1. existing[p] \in JobRows
    BY <1>3 DEF PatchSave, IInv, PatchInv
  <2>2. QED BY <1>0, <1>3, <2>1 DEF PatchSave
<1>4. CASE Delete BY <1>0, <1>4 DEF Delete
<1>5. CASE Stop BY <1>0, <1>5 DEF Stop
<1>6. CASE Clock BY <1>0, <1>6 DEF Clock
<1>7. CASE UNCHANGED vars BY <1>0, <1>7 DEF vars
<1>8. QED BY <1>1, <1>2, <1>3, <1>4, <1>5, <1>6, <1>7 DEF Next

\* The lock excludes: a call enters only an empty table and leaves by its release.
LEMMA LockStep == IInv /\ [Next]_vars => LockInv'
<1> SUFFICES ASSUME IInv, [Next]_vars PROVE LockInv'
  OBVIOUS
<1> USE DEF LockInv, OneRunPerJob, TypeOK, LockedSteps, runVars, patchVars
<1>0. TypeOK /\ LockInv
  BY DEF IInv
<1>1. ASSUME NEW r \in Runners, RunStep(r) PROVE LockInv'
  <2>1. CASE Load(r) BY <1>0, <2>1 DEF Load
  <2>2. CASE TryLock(r) BY <1>0, <2>2 DEF TryLock
  <2>3. CASE CreateRun(r) BY <1>0, <2>3 DEF CreateRun
  <2>4. CASE SnapshotCreate(r) BY <1>0, <2>4 DEF SnapshotCreate
  <2>5. CASE Transfer(r) BY <1>0, <2>5 DEF Transfer
  <2>6. CASE SaveLast(r) BY <1>0, <2>6 DEF SaveLast
  <2>7. CASE SaveRun(r) BY <1>0, <2>7 DEF SaveRun
  <2>8. QED BY <1>1, <2>1, <2>2, <2>3, <2>4, <2>5, <2>6, <2>7 DEF RunStep
<1>2. ASSUME NEW p \in Patches, PatchLoad(p) \/ PatchSave(p) PROVE LockInv'
  BY <1>0, <1>2 DEF PatchLoad, PatchSave
<1>3. CASE Delete BY <1>0, <1>3 DEF Delete
<1>4. CASE Stop BY <1>0, <1>4 DEF Stop
<1>5. CASE Clock BY <1>0, <1>5 DEF Clock
<1>6. CASE UNCHANGED vars BY <1>0, <1>6 DEF vars
<1>7. QED BY <1>1, <1>2, <1>3, <1>4, <1>5, <1>6 DEF Next

\* Every step keeps what the calls of Run know, and no two of them the same
\* snapshot.
LEMMA CallStep == IInv /\ [Next]_vars => CallInv' /\ SucceededInv' /\ SnapshotsAreDistinct'
<1> DEFINE Goal == CallInv /\ SucceededInv /\ SnapshotsAreDistinct
<1> SUFFICES ASSUME IInv, [Next]_vars PROVE Goal'
  OBVIOUS
<1> USE ReplicationAssumption
    DEF CallInv, SucceededInv, SnapshotsAreDistinct, TypeOK, LockedSteps, Minutes,
        JobRows, runVars, patchVars
<1>0. TypeOK /\ Goal
  BY DEF IInv
<1>1. ASSUME NEW r \in Runners, RunStep(r) PROVE Goal'
  <2>1. CASE Load(r) BY <1>0, <2>1 DEF Load
  <2>2. CASE TryLock(r) BY <1>0, <2>2 DEF TryLock
  <2>3. CASE CreateRun(r) BY <1>0, <2>3 DEF CreateRun
  <2>4. CASE SnapshotCreate(r) BY <1>0, <2>4 DEF SnapshotCreate
  <2>5. CASE Transfer(r) BY <1>0, <2>5 DEF Transfer
  <2>6. CASE SaveLast(r) BY <1>0, <2>6 DEF SaveLast
  <2>7. CASE SaveRun(r) BY <1>0, <2>7 DEF SaveRun
  <2>8. QED BY <1>1, <2>1, <2>2, <2>3, <2>4, <2>5, <2>6, <2>7 DEF RunStep
<1>2. ASSUME NEW p \in Patches, PatchLoad(p) \/ PatchSave(p) PROVE Goal'
  BY <1>0, <1>2 DEF PatchLoad, PatchSave
<1>3. CASE Delete BY <1>0, <1>3 DEF Delete
<1>4. CASE Stop BY <1>0, <1>4 DEF Stop
<1>5. CASE Clock BY <1>0, <1>5 DEF Clock
<1>6. CASE UNCHANGED vars BY <1>0, <1>6 DEF vars
<1>7. QED BY <1>1, <1>2, <1>3, <1>4, <1>5, <1>6 DEF Next

\* Every step keeps the rows, stored or loaded, naming delivered snapshots.
LEMMA LastStep == IInv /\ [Next]_vars => PatchInv' /\ LastWasReceived'
<1> DEFINE Goal == PatchInv /\ LastWasReceived
<1> SUFFICES ASSUME IInv, [Next]_vars PROVE Goal'
  OBVIOUS
<1> USE ReplicationAssumption
    DEF PatchInv, LastWasReceived, TypeOK, LockedSteps, Minutes, JobRows, runVars,
        patchVars
<1>0. TypeOK /\ Goal
  BY DEF IInv
<1>1. ASSUME NEW r \in Runners, RunStep(r) PROVE Goal'
  <2>1. CASE Load(r) BY <1>0, <2>1 DEF Load
  <2>2. CASE TryLock(r) BY <1>0, <2>2 DEF TryLock
  <2>3. CASE CreateRun(r) BY <1>0, <2>3 DEF CreateRun
  <2>4. CASE SnapshotCreate(r) BY <1>0, <2>4 DEF SnapshotCreate
  <2>5. CASE Transfer(r)
    <3>1. copy[r] \in JobRows
      BY <2>5 DEF Transfer, IInv, CallInv
    <3>2. \A c \in Configs : dst[c] \subseteq dst'[c]
      BY <1>0, <2>5, <3>1 DEF Transfer
    <3>3. UNCHANGED <<job, ppc, existing>>
      BY <2>5 DEF Transfer
    <3>4. QED BY <1>0, <3>2, <3>3
  <2>6. CASE SaveLast(r)
    <3>1. /\ copy[r] \in JobRows
          /\ res[r] # 0 => res[r] \in dst[copy[r].cfg]
      BY <2>6 DEF SaveLast, IInv, CallInv
    <3>2. QED BY <1>0, <2>6, <3>1 DEF SaveLast
  <2>7. CASE SaveRun(r) BY <1>0, <2>7 DEF SaveRun
  <2>8. QED BY <1>1, <2>1, <2>2, <2>3, <2>4, <2>5, <2>6, <2>7 DEF RunStep
<1>2. ASSUME NEW p \in Patches, PatchLoad(p) PROVE Goal'
  BY <1>0, <1>2 DEF PatchLoad
<1>3. ASSUME NEW p \in Patches, PatchSave(p) PROVE Goal'
  BY <1>0, <1>3 DEF PatchSave
<1>4. CASE Delete BY <1>0, <1>4 DEF Delete
<1>5. CASE Stop BY <1>0, <1>5 DEF Stop
<1>6. CASE Clock BY <1>0, <1>6 DEF Clock
<1>7. CASE UNCHANGED vars BY <1>0, <1>7 DEF vars
<1>8. QED BY <1>1, <1>2, <1>3, <1>4, <1>5, <1>6, <1>7 DEF Next

\* IInv is an invariant of the replication manager.
THEOREM Invariance == Spec => []IInv
<1>1. IInv /\ [Next]_vars => IInv'
  BY TypeStep, LockStep, CallStep, LastStep DEF IInv
<1>2. QED BY InitIInv, <1>1, PTL DEF Spec

\* The variables of the replication manager keep their types.
THEOREM ReplicationTypes == Spec => []TypeOK
<1>1. IInv => TypeOK
  BY DEF IInv
<1>2. QED BY Invariance, <1>1, PTL

\* LastSnapshot is empty or names a snapshot that a destination has received.
THEOREM LastSnapshotDelivered == Spec => []LastWasReceived
<1>1. IInv => LastWasReceived
  BY DEF IInv
<1>2. QED BY Invariance, <1>1, PTL

\* A run that the API reports as succeeded has delivered its snapshot.
THEOREM SuccessIsTrue == Spec => []SucceededWasReceived
<1>1. IInv => SucceededWasReceived
  BY DEF IInv, SucceededInv, CallInv, SucceededWasReceived
<1>2. QED BY Invariance, <1>1, PTL

\* At most one run of the job is between TryLock and its release.
THEOREM RunsExclude == Spec => []OneRunPerJob
<1>1. IInv => OneRunPerJob
  BY DEF IInv, LockInv
<1>2. QED BY Invariance, <1>1, PTL

\* No two runs of the job send the same snapshot.
THEOREM RunsSendOwnSnapshot == Spec => []SnapshotsAreDistinct
<1>1. IInv => SnapshotsAreDistinct
  BY DEF IInv
<1>2. QED BY Invariance, <1>1, PTL

\* Whatever fails, a run listed as running is in progress or was ended by a stop
\* or by a failed UpdateRun (RunningHasCall).
THEOREM RunningIsLive == Spec => []RunningHasCall
<1> USE DEF RunningHasCall, TypeOK, LockedSteps, runVars, patchVars
<1>1. Init => RunningHasCall
  BY DEF Init
<1>2. IInv /\ RunningHasCall /\ [Next]_vars => RunningHasCall'
  <2> SUFFICES ASSUME IInv, RunningHasCall, [Next]_vars PROVE RunningHasCall'
    OBVIOUS
  <2>0. TypeOK /\ CallInv
    BY DEF IInv
  <2>1. ASSUME NEW r \in Runners, RunStep(r) PROVE RunningHasCall'
    <3>1. CASE Load(r) BY <2>0, <3>1 DEF Load
    <3>2. CASE TryLock(r) BY <2>0, <3>2 DEF TryLock
    <3>3. CASE CreateRun(r) BY <2>0, <3>3 DEF CreateRun, CallInv
    <3>4. CASE SnapshotCreate(r) BY <2>0, <3>4 DEF SnapshotCreate
    <3>5. CASE Transfer(r) BY <2>0, <3>5 DEF Transfer
    <3>6. CASE SaveLast(r) BY <2>0, <3>6 DEF SaveLast
    <3>7. CASE SaveRun(r) BY <2>0, <3>7 DEF SaveRun
    <3>8. QED BY <2>1, <3>1, <3>2, <3>3, <3>4, <3>5, <3>6, <3>7 DEF RunStep
  <2>2. ASSUME NEW p \in Patches, PatchLoad(p) \/ PatchSave(p) PROVE RunningHasCall'
    BY <2>0, <2>2 DEF PatchLoad, PatchSave
  <2>3. CASE Delete BY <2>0, <2>3 DEF Delete
  <2>4. CASE Stop BY <2>0, <2>4 DEF Stop
  <2>5. CASE Clock BY <2>0, <2>5 DEF Clock
  <2>6. CASE UNCHANGED vars BY <2>0, <2>6 DEF vars
  <2>7. QED BY <2>1, <2>2, <2>3, <2>4, <2>5, <2>6 DEF Next
<1>3. QED BY <1>1, <1>2, Invariance, PTL DEF Spec
=============================================================================
