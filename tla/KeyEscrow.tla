------------------------------ MODULE KeyEscrow ------------------------------
(***************************************************************************)
(* Native encryption of datasets: POST /datasets/{name}/encryption, which  *)
(* escrows a fresh key in the secrets backend and creates the dataset with *)
(* it, load-key and unload-key, destroy, and the boot sequence in which    *)
(* nova-zfs-keyload loads the escrowed keys before nova-api starts.        *)
(*                                                                         *)
(* Every call generates its own random key, so a key is the call that made *)
(* it.  Sealing and unsealing by the TPM return that key or fail ("tpm").  *)
(***************************************************************************)
EXTENDS Naturals

CONSTANTS
    Calls,     \* the calls of EncryptionManager.Initialize
    Datasets,  \* the names of datasets
    Target,    \* the dataset each call is about
    None,      \* no key: no record, or no dataset
    Faults,    \* the failures that may happen
    MaxBoots   \* bound: how often the host may reboot

\* "secrets": a call of the secrets backend fails, or only its answer is lost
\* "tpm":     sealing or unsealing a key fails, for instance after a PCR change
\* "zfs":     a zfs command fails and changes nothing
\* "mount":   zfs create creates the dataset and reports an error
\* "disconnect": the client of a call goes away, which cancels its context
ASSUME KeyEscrowAssumption ==
    /\ Target \in [Calls -> Datasets]
    /\ None \notin Calls
    /\ Faults \subseteq {"secrets", "tpm", "zfs", "mount", "disconnect"}
    /\ MaxBoots \in Nat

VARIABLES
    escrow,  \* the key in the record of each dataset
    zfs,     \* the key of each dataset on disk
    loaded,  \* the datasets whose key the kernel holds
    pc,      \* progress of each Initialize
    gone,    \* the calls whose client has gone
    api,     \* nova-api: not yet started in this boot, up, or stopped
    loader,  \* progress of nova-zfs-keyload in this boot
    todo,    \* the datasets it has listed and not yet tried
    failed,  \* the datasets it could not load
    boots,   \* how often the host rebooted
    faulted, \* history: the datasets for which the loader met a failure of the
             \* secrets backend, the TPM or the zfs command in this boot
    clash,   \* history: the datasets with a call that began while another was
             \* in progress or the dataset existed
    denied   \* history: the datasets that a zfs create, not killed, created
             \* and reported as failed

bootVars == <<api, loader, todo, failed, boots, faulted>>
history == <<clash, denied>>
vars == <<escrow, zfs, loaded, pc, gone, history, bootVars>>

TypeOK ==
    /\ escrow \in [Datasets -> Calls \cup {None}]
    /\ zfs \in [Datasets -> Calls \cup {None}]
    /\ loaded \in SUBSET Datasets
    /\ pc \in [Calls -> {"idle", "escrowed", "failing", "created", "error"}]
    /\ gone \in SUBSET Calls
    /\ api \in {"waiting", "up", "stopped"}
    /\ loader \in {"start", "loading", "ok", "failed"}
    /\ todo \in SUBSET Datasets
    /\ failed \in SUBSET Datasets
    /\ boots \in 0..MaxBoots
    /\ faulted \in SUBSET Datasets
    /\ clash \in SUBSET Datasets
    /\ denied \in SUBSET Datasets

Init ==
    /\ escrow = [d \in Datasets |-> None]
    /\ zfs = [d \in Datasets |-> None]
    /\ loaded = {}
    /\ pc = [c \in Calls |-> "idle"]
    /\ gone = {}
    /\ api = "waiting"
    /\ loader = "start"
    /\ todo = {}
    /\ failed = {}
    /\ boots = 0
    /\ faulted = {}
    /\ clash = {}
    /\ denied = {}

-----------------------------------------------------------------------------
(* EncryptionManager.Initialize *)

InProgress(d) == {c \in Calls : Target[c] = d /\ pc[c] \in {"escrowed", "failing"}}

\* WrapAEAD and Secrets.Set; on an error Initialize returns.
EscrowKey(c) ==
    /\ api = "up"
    /\ pc[c] = "idle"
    /\ clash' = IF InProgress(Target[c]) # {} \/ zfs[Target[c]] # None
                THEN clash \cup {Target[c]} ELSE clash
    /\ \/ /\ escrow' = [escrow EXCEPT ![Target[c]] = c]
          /\ pc' = [pc EXCEPT ![c] = "escrowed"]
       \/ /\ \/ /\ Faults \cap {"tpm", "secrets", "disconnect"} # {}
                /\ UNCHANGED escrow
             \/ /\ Faults \cap {"secrets", "disconnect"} # {}
                /\ escrow' = [escrow EXCEPT ![Target[c]] = c]
          /\ pc' = [pc EXCEPT ![c] = "error"]
    /\ UNCHANGED <<zfs, loaded, gone, denied, bootVars>>

\* zfs create takes effect: the dataset must be new, and its key is loaded.
ZfsCreate(c) ==
    /\ zfs[Target[c]] = None
    /\ zfs' = [zfs EXCEPT ![Target[c]] = c]
    /\ loaded' = loaded \cup {Target[c]}

\* The command succeeds, fails, or is killed because the client has gone, before
\* or after it has taken effect.
CreateDataset(c) ==
    /\ pc[c] = "escrowed"
    /\ \/ /\ ZfsCreate(c)
          /\ pc' = [pc EXCEPT ![c] = "created"]
          /\ UNCHANGED denied
       \/ /\ zfs[Target[c]] # None \/ "zfs" \in Faults \/ c \in gone
          /\ pc' = [pc EXCEPT ![c] = "failing"]
          /\ UNCHANGED <<zfs, loaded, denied>>
       \/ /\ "mount" \in Faults \/ c \in gone
          /\ ZfsCreate(c)
          /\ pc' = [pc EXCEPT ![c] = "failing"]
          /\ denied' = IF c \in gone THEN denied ELSE denied \cup {Target[c]}
    /\ UNCHANGED <<escrow, gone, clash, bootVars>>

\* Mutants: the rollback has a context of its own, or blanks the record with
\* Secrets.Set instead of deleting it.
RollbackDetached(c) ==
    /\ pc[c] = "failing"
    /\ pc' = [pc EXCEPT ![c] = "error"]
    /\ escrow' = [escrow EXCEPT ![Target[c]] = None]
    /\ UNCHANGED <<zfs, loaded, gone, history, bootVars>>
RollbackBlanks(c) ==
    /\ pc[c] = "failing"
    /\ pc' = [pc EXCEPT ![c] = "error"]
    /\ escrow' = [escrow EXCEPT ![Target[c]] = "blank"]
    /\ UNCHANGED <<zfs, loaded, gone, history, bootVars>>

\* Secrets.Delete after a failed create, its error ignored; on the context of a
\* client that has gone it fails.
Rollback(c) ==
    /\ pc[c] = "failing"
    /\ pc' = [pc EXCEPT ![c] = "error"]
    /\ \/ /\ c \notin gone
          /\ escrow' = [escrow EXCEPT ![Target[c]] = None]
       \/ /\ c \in gone \/ "secrets" \in Faults
          /\ UNCHANGED escrow
    /\ UNCHANGED <<zfs, loaded, gone, history, bootVars>>

\* net/http cancels the context of the request.
Disconnect(c) ==
    /\ "disconnect" \in Faults
    /\ pc[c] \in {"escrowed", "failing"}
    /\ gone' = gone \cup {c}
    /\ UNCHANGED <<escrow, zfs, loaded, pc, history, bootVars>>

-----------------------------------------------------------------------------
(* The other operations on a dataset *)

\* zfs load-key accepts only the dataset's key.
Unlocks(d) == zfs[d] # None /\ escrow[d] = zfs[d]

\* fetchRawKey and zfs load-key; in every other case nothing changes.
LoadKey(d) ==
    /\ api = "up"
    /\ Unlocks(d)
    /\ loaded' = loaded \cup {d}
    /\ UNCHANGED <<escrow, zfs, pc, gone, history, bootVars>>

UnloadKey(d) ==
    /\ api = "up"
    /\ d \in loaded
    /\ loaded' = loaded \ {d}
    /\ UNCHANGED <<escrow, zfs, pc, gone, history, bootVars>>

\* DELETE /datasets/{name}: the record stays.
Destroy(d) ==
    /\ api = "up"
    /\ zfs[d] # None
    /\ zfs' = [zfs EXCEPT ![d] = None]
    /\ loaded' = loaded \ {d}
    /\ UNCHANGED <<escrow, pc, gone, history, bootVars>>

-----------------------------------------------------------------------------
(* Boot *)

Abandoned == [c \in Calls |-> IF pc[c] \in {"escrowed", "failing"} THEN "error" ELSE pc[c]]

\* The host goes down at any moment and comes up without keys.
Reboot ==
    /\ boots < MaxBoots
    /\ boots' = boots + 1
    /\ loaded' = {}
    /\ pc' = Abandoned
    /\ api' = "waiting"
    /\ loader' = "start"
    /\ todo' = {}
    /\ failed' = {}
    /\ faulted' = {}
    /\ UNCHANGED <<escrow, zfs, gone, history>>

\* The names under which the secrets backend has a record.
ListEscrowedDatasets == {d \in Datasets : escrow[d] # None}

\* run and the listing; an error of FromEnv, tpm.New or the listing ends
\* the loader before it has tried a dataset.
KeyloadList ==
    /\ loader = "start"
    /\ \/ /\ todo' = ListEscrowedDatasets
          /\ loader' = "loading"
       \/ /\ Faults \cap {"secrets", "tpm"} # {}
          /\ loader' = "failed"
          /\ UNCHANGED todo
    /\ UNCHANGED <<escrow, zfs, loaded, pc, gone, history, api, failed, boots, faulted>>

\* One turn of loadAll's loop; a failure is counted and the loop goes on.
KeyloadOne(d) ==
    /\ loader = "loading"
    /\ d \in todo
    /\ todo' = todo \ {d}
    /\ \/ /\ Unlocks(d)
          /\ loaded' = loaded \cup {d}
          /\ UNCHANGED <<failed, faulted>>
       \/ /\ ~Unlocks(d)
          /\ failed' = failed \cup {d}
          /\ UNCHANGED <<loaded, faulted>>
       \/ /\ Faults \cap {"secrets", "tpm", "zfs"} # {}
          /\ failed' = failed \cup {d}
          /\ faulted' = faulted \cup {d}
          /\ UNCHANGED loaded
    /\ UNCHANGED <<escrow, zfs, pc, gone, history, api, loader, boots>>

\* Mutant: failures are logged and not counted.
KeyloadExitZero ==
    /\ loader = "loading"
    /\ todo = {}
    /\ loader' = "ok"
    /\ UNCHANGED <<escrow, zfs, loaded, pc, gone, history, api, todo, failed, boots, faulted>>

\* The exit status of the loader.
KeyloadExit ==
    /\ loader = "loading"
    /\ todo = {}
    /\ loader' = IF failed = {} THEN "ok" ELSE "failed"
    /\ UNCHANGED <<escrow, zfs, loaded, pc, gone, history, api, todo, failed, boots, faulted>>

\* systemd starts nova-api after the loader has ended (Before=), whatever its
\* exit status was, as the unit does not require it, and again after a stop.
StartApi ==
    /\ api # "up"
    /\ loader \in {"ok", "failed"}
    /\ api' = "up"
    /\ UNCHANGED <<escrow, zfs, loaded, pc, gone, history, loader, todo, failed, boots, faulted>>

\* nova-api crashes or is stopped with calls in progress; systemd kills the zfs
\* commands with it, and the kernel keeps the keys.
StopApi ==
    /\ api = "up"
    /\ api' = "stopped"
    /\ pc' = Abandoned
    /\ UNCHANGED <<escrow, zfs, loaded, gone, history, loader, todo, failed, boots, faulted>>

-----------------------------------------------------------------------------
CallStep(c) ==
    \/ EscrowKey(c)
    \/ CreateDataset(c)
    \/ Rollback(c)
    \/ Disconnect(c)

DatasetStep(d) ==
    \/ LoadKey(d)
    \/ UnloadKey(d)
    \/ Destroy(d)
    \/ KeyloadOne(d)

Next ==
    \/ \E c \in Calls : CallStep(c)
    \/ \E d \in Datasets : DatasetStep(d)
    \/ Reboot
    \/ KeyloadList
    \/ KeyloadExit
    \/ StartApi
    \/ StopApi

Spec == Init /\ [][Next]_vars

-----------------------------------------------------------------------------
(* Properties *)

\* The key of a dataset on disk is in escrow, through reboots and stops of
\* nova-api at any moment, errors of the secrets backend and the TPM, failed
\* creates and clients that go away, as long as Initialize was not called for a
\* dataset that existed or was being created.  The one other way to lose a key is
\* a zfs create that creates the dataset and reports an error to a client that is
\* still there: the rollback may then delete the record, and nothing else.
KeyIsEscrowed ==
    \A d \in Datasets \ clash :
        zfs[d] # None => \/ escrow[d] = zfs[d]
                         \/ d \in denied /\ escrow[d] = None

\* When the loader has ended and nova-api has not started yet, an encrypted
\* dataset is still locked only if the loader exits with an error and either did
\* not get as far as the loop or met a failure of the secrets backend, the TPM or
\* the zfs command for this very dataset.  A record without a dataset, left by
\* another call, does not keep the loader from the rest.  For a dataset whose
\* record a clash or a misreported create has spoilt, the loader exits with an
\* error unless the record is gone.
BootUnlocks ==
    loader \in {"ok", "failed"} /\ api = "waiting" =>
        \A d \in Datasets :
            zfs[d] # None /\ d \notin loaded =>
                \/ loader = "failed" /\ (failed = {} \/ d \in faulted)
                \/ d \in clash \cup denied /\ (escrow[d] = None \/ loader = "failed")

-----------------------------------------------------------------------------
(* What a comment says and the code does not do. *)

\* The comment on the rollback in Initialize: it removes the record of a dataset
\* that never came into existence, so no rollback takes the record of a dataset
\* that exists.
RollbackSparesExisting ==
    [][\A c \in Calls : Rollback(c) /\ zfs[Target[c]] # None => UNCHANGED escrow]_vars

=============================================================================
