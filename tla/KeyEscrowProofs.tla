--------------------------- MODULE KeyEscrowProofs ---------------------------
(***************************************************************************)
(* KeyIsEscrowed and BootUnlocks for every set of calls and datasets,      *)
(* every assignment of calls to datasets and every choice of faults.       *)
(*                                                                         *)
(* Why the key survives a failed create that did take effect: either the   *)
(* client has gone, and then the rollback cannot delete the record, or     *)
(* zfs itself misreported it (denied).  That is FailingInv, which makes    *)
(* the property inductive together with what a call in progress knows      *)
(* (CallInv).                                                              *)
(***************************************************************************)
EXTENDS KeyEscrow, TLAPS

\* At most one call per dataset is in progress, and its key is the one in escrow.
CallInv ==
    \A c \in Calls :
        Target[c] \notin clash /\ pc[c] \in {"escrowed", "failing"} =>
            /\ escrow[Target[c]] = c
            /\ InProgress(Target[c]) = {c}

\* While a call is about to create the dataset it does not exist; a call whose
\* create failed has created nothing, unless its client has gone or zfs
\* misreported the create.
FailingInv ==
    \A c \in Calls :
        Target[c] \notin clash =>
            /\ pc[c] = "escrowed" => zfs[Target[c]] = None
            /\ pc[c] = "failing" => zfs[Target[c]] = None \/ c \in gone \/ Target[c] \in denied

\* The inductive invariant.
KInv ==
    /\ TypeOK
    /\ CallInv
    /\ FailingInv
    /\ KeyIsEscrowed

\* Nothing is escrowed and nothing exists when the host is first booted.
LEMMA KInit == Init => KInv
  <1> SUFFICES ASSUME Init PROVE KInv
    OBVIOUS
  <1>1. boots \in 0..MaxBoots
    BY KeyEscrowAssumption DEF Init
  <1>2. TypeOK
    BY <1>1 DEF Init, TypeOK
  <1>3. CallInv /\ FailingInv /\ KeyIsEscrowed
    BY KeyEscrowAssumption DEF Init, CallInv, FailingInv, KeyIsEscrowed
  <1> QED
    BY <1>2, <1>3 DEF KInv

\* Every step keeps the types.
LEMMA KTypes == TypeOK /\ [Next]_vars => TypeOK'
  <1> SUFFICES ASSUME TypeOK, [Next]_vars PROVE TypeOK'
    OBVIOUS
  <1> USE KeyEscrowAssumption
  <1>1. CASE \E c \in Calls : EscrowKey(c)
    BY <1>1 DEF EscrowKey, TypeOK, bootVars, history
  <1>2. CASE \E c \in Calls : CreateDataset(c)
    BY <1>2 DEF CreateDataset, ZfsCreate, TypeOK, bootVars, history
  <1>3. CASE \E c \in Calls : Rollback(c)
    BY <1>3 DEF Rollback, TypeOK, bootVars, history
  <1>4. CASE \E c \in Calls : Disconnect(c)
    BY <1>4 DEF Disconnect, TypeOK, bootVars, history
  <1>5. CASE \E d \in Datasets : LoadKey(d) \/ UnloadKey(d)
    BY <1>5 DEF LoadKey, UnloadKey, TypeOK, bootVars, history
  <1>6. CASE \E d \in Datasets : Destroy(d)
    BY <1>6 DEF Destroy, TypeOK, bootVars, history
  <1>7. CASE \E d \in Datasets : KeyloadOne(d)
    BY <1>7 DEF KeyloadOne, TypeOK, history
  <1>8. CASE Reboot
    <2>1. boots' \in 0..MaxBoots
      BY <1>8 DEF Reboot, TypeOK
    <2>2. pc' \in [Calls -> {"idle", "escrowed", "failing", "created", "error"}]
      BY <1>8 DEF Reboot, Abandoned, TypeOK
    <2> QED
      BY <1>8, <2>1, <2>2 DEF Reboot, TypeOK, history
  <1>9. CASE KeyloadList \/ KeyloadExit \/ StartApi
    BY <1>9 DEF KeyloadList, ListEscrowedDatasets, KeyloadExit, StartApi, TypeOK, history
  <1>10. CASE StopApi
    BY <1>10 DEF StopApi, Abandoned, TypeOK, history
  <1>11. CASE UNCHANGED vars
    BY <1>11 DEF vars, bootVars, history, TypeOK
  <1> QED
    BY <1>1, <1>2, <1>3, <1>4, <1>5, <1>6, <1>7, <1>8, <1>9, <1>10, <1>11
    DEF Next, CallStep, DatasetStep

\* Every step keeps the inductive invariant.
LEMMA KNext == KInv /\ [Next]_vars => KInv'
  <1> SUFFICES ASSUME KInv, [Next]_vars
               PROVE  CallInv' /\ FailingInv' /\ KeyIsEscrowed'
    BY KTypes DEF KInv
  <1> USE KeyEscrowAssumption
  <1>t. TypeOK /\ TypeOK' /\ CallInv /\ FailingInv /\ KeyIsEscrowed
    BY KTypes DEF KInv
  <1>1. ASSUME NEW c \in Calls, EscrowKey(c) PROVE CallInv' /\ FailingInv' /\ KeyIsEscrowed'
    BY <1>t, <1>1
    DEF EscrowKey, InProgress, history, TypeOK, CallInv, FailingInv, KeyIsEscrowed
  <1>2. ASSUME NEW c \in Calls, CreateDataset(c) PROVE CallInv' /\ FailingInv' /\ KeyIsEscrowed'
    BY <1>t, <1>2
    DEF CreateDataset, ZfsCreate, InProgress, history, TypeOK, CallInv, FailingInv, KeyIsEscrowed
  <1>3. ASSUME NEW c \in Calls, Rollback(c) PROVE CallInv' /\ FailingInv' /\ KeyIsEscrowed'
    BY <1>t, <1>3
    DEF Rollback, InProgress, history, TypeOK, CallInv, FailingInv, KeyIsEscrowed
  <1>4. ASSUME NEW c \in Calls, Disconnect(c) PROVE CallInv' /\ FailingInv' /\ KeyIsEscrowed'
    BY <1>t, <1>4
    DEF Disconnect, InProgress, history, TypeOK, CallInv, FailingInv, KeyIsEscrowed
  <1>5. ASSUME NEW d \in Datasets, Destroy(d) PROVE CallInv' /\ FailingInv' /\ KeyIsEscrowed'
    BY <1>t, <1>5
    DEF Destroy, InProgress, history, TypeOK, CallInv, FailingInv, KeyIsEscrowed
  <1>6. CASE Reboot \/ StopApi
    BY <1>t, <1>6
    DEF Reboot, StopApi, Abandoned, InProgress, history, TypeOK, CallInv, FailingInv, KeyIsEscrowed
  <1>7. CASE UNCHANGED <<escrow, zfs, pc, gone, history>>
    BY <1>t, <1>7 DEF InProgress, history, CallInv, FailingInv, KeyIsEscrowed
  <1>8. ASSUME NEW d \in Datasets, LoadKey(d) \/ UnloadKey(d) \/ KeyloadOne(d)
        PROVE  UNCHANGED <<escrow, zfs, pc, gone, history>>
    BY <1>8 DEF LoadKey, UnloadKey, KeyloadOne
  <1>9. KeyloadList \/ KeyloadExit \/ StartApi \/ UNCHANGED vars
        => UNCHANGED <<escrow, zfs, pc, gone, history>>
    BY DEF KeyloadList, KeyloadExit, StartApi, vars
  <1> QED
    BY <1>1, <1>2, <1>3, <1>4, <1>5, <1>6, <1>7, <1>8, <1>9
    DEF Next, CallStep, DatasetStep

\* The inductive invariant holds in every reachable state.
THEOREM Invariance == Spec => []KInv
  BY KInit, KNext, PTL DEF Spec

\* Whatever fails, the key of a dataset whose creation did not clash with another
\* call for the same name stays in escrow, unless zfs misreported the create and
\* the rollback deleted the record (KeyIsEscrowed).
THEOREM KeysAreEscrowed == Spec => []KeyIsEscrowed
  <1>1. KInv => KeyIsEscrowed
    BY DEF KInv
  <1> QED
    BY Invariance, <1>1, PTL

-----------------------------------------------------------------------------
(* The boot sequence *)

\* Until nova-api has started no call is in progress, and a dataset is locked only
\* before the loader has come to it or for one of the reasons of BootUnlocks.
BootInv ==
    /\ api # "waiting" => loader \in {"ok", "failed"}
    /\ api # "up" => \A c \in Calls : pc[c] \notin {"escrowed", "failing"}
    /\ loader = "loading" =>
          /\ faulted \subseteq failed
          /\ \A d \in Datasets :
                zfs[d] # None => \/ d \in todo \cup loaded \cup faulted
                                 \/ d \in clash \cup denied /\ (escrow[d] = None \/ d \in failed)
    /\ loader = "start" => failed = {} /\ faulted = {}

\* The invariant of the boot sequence, on top of the one of the escrow.
BInv == BootInv /\ BootUnlocks

\* Every step keeps the invariant of the boot sequence.
LEMMA BNext == KInv /\ BInv /\ [Next]_vars => BInv'
  <1> SUFFICES ASSUME KInv, BInv, [Next]_vars PROVE BInv'
    OBVIOUS
  <1> USE KeyEscrowAssumption
  <1>t. TypeOK /\ KeyIsEscrowed /\ BootInv /\ BootUnlocks
    BY DEF KInv, BInv
  <1>1. ASSUME NEW c \in Calls, CallStep(c) PROVE BInv'
    <2>1. api = "up" /\ UNCHANGED bootVars
      BY <1>t, <1>1
      DEF CallStep, EscrowKey, CreateDataset, Rollback, Disconnect, BootInv
    <2> QED
      BY <1>t, <2>1 DEF bootVars, BInv, BootInv, BootUnlocks
  <1>2. ASSUME NEW d \in Datasets, LoadKey(d) \/ UnloadKey(d) \/ Destroy(d) PROVE BInv'
    <2>1. api = "up" /\ UNCHANGED bootVars
      BY <1>2 DEF LoadKey, UnloadKey, Destroy
    <2> QED
      BY <1>t, <2>1 DEF bootVars, BInv, BootInv, BootUnlocks
  <1>3. ASSUME NEW d \in Datasets, KeyloadOne(d) PROVE BInv'
    BY <1>t, <1>3
    DEF KeyloadOne, Unlocks, history, TypeOK, KeyIsEscrowed, BInv, BootInv, BootUnlocks
  <1>4. CASE Reboot
    BY <1>t, <1>4 DEF Reboot, Abandoned, history, TypeOK, BInv, BootInv, BootUnlocks
  <1>5. CASE KeyloadList
    BY <1>t, <1>5 DEF KeyloadList, ListEscrowedDatasets, history, TypeOK, KeyIsEscrowed, BInv, BootInv, BootUnlocks
  <1>6. CASE KeyloadExit
    BY <1>t, <1>6 DEF KeyloadExit, history, TypeOK, BInv, BootInv, BootUnlocks
  <1>7. CASE StartApi \/ StopApi
    BY <1>t, <1>7 DEF StartApi, StopApi, Abandoned, history, TypeOK, BInv, BootInv, BootUnlocks
  <1>8. CASE UNCHANGED vars
    BY <1>t, <1>8 DEF vars, bootVars, history, BInv, BootInv, BootUnlocks
  <1> QED
    BY <1>1, <1>2, <1>3, <1>4, <1>5, <1>6, <1>7, <1>8 DEF Next, DatasetStep

\* Whatever fails, in every boot: when the loader has ended, an encrypted dataset
\* is unlocked, or the loader has failed before its loop or on that dataset and
\* says so (BootUnlocks).
THEOREM BootUnlocksAll == Spec => []BootUnlocks
  <1>1. Init => BInv
    BY DEF Init, BInv, BootInv, BootUnlocks
  <1>2. BInv => BootUnlocks
    BY DEF BInv
  <1> QED
    BY Invariance, BNext, <1>1, <1>2, PTL DEF Spec

=============================================================================
