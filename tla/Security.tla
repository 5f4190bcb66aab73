------------------------------ MODULE Security ------------------------------
(***************************************************************************)
(* Key backup of one handle: MatrixSecurityService and the methods of      *)
(* MatrixClientManager it calls, on each of the handle's devices.          *)
(*                                                                         *)
(* A backup on the server has a version, and its key is made with it, so   *)
(* a key is named by the version it opens (0: none).  Creating, rotating   *)
(* and resetting a backup all replace it: bootstrapSecretStorage deletes   *)
(* what is there, with the key the device keeps, makes a new version, and  *)
(* keeps the new key on the device, where getSessionBackupPrivateKey then  *)
(* finds the key to hand out.                                              *)
(*                                                                         *)
(* External: the server, and the SDK's crypto as just described.           *)
(***************************************************************************)
EXTENDS Naturals, Sequences

CONSTANTS
    Device, Task,
    WrongKey,   \* a key that opens no backup
    Faults,     \* requests may fail
    MaxCalls

ASSUME SecurityAssumption ==
    /\ Device # {} /\ Faults \in BOOLEAN /\ MaxCalls \in Nat
    /\ WrongKey \in Nat /\ WrongKey > MaxCalls

VARIABLES
    version,    \* server: the current backup, 0 = none
    made,       \* server: versions made so far
    stored,     \* device: the backup key it keeps, 0 = none
    call,       \* the calls under way
    calls,
    given,      \* history: the last key a call returned
    clean       \* history: no call lost a key, and none crossed another's

vars == <<version, made, stored, call, calls, given, clean>>

----------------------------------------------------------------------------
(* Data.                                                                   *)

Making == {"createBackup", "rotateBackupKey", "resetBackupKey"}
BackupOp == Making \cup {"getBackupState", "recover"}
Step == {"check", "delete", "make", "save", "read",
         "recheck", "active", "store", "restore"}
\* key: what recover was given, or the key of the version that was made.
NoCall == [op |-> "none", by |-> CHOOSE d \in Device : TRUE, todo |-> <<>>, key |-> 0]

TypeOK ==
    /\ version \in Nat /\ made \in Nat /\ given \in Nat /\ calls \in Nat
    /\ stored \in [Device -> Nat] /\ clean \in BOOLEAN
    /\ call \in [Task -> [op : BackupOp \cup {"none"}, by : Device,
                          todo : Seq(Step), key : Nat]]

Init == /\ version = 0 /\ made = 0 /\ given = 0 /\ calls = 0
        /\ stored = [d \in Device |-> 0]
        /\ clean = TRUE
        /\ call = [t \in Task |-> NoCall]

----------------------------------------------------------------------------
(* MatrixClientManager and MatrixSecurityService: the steps of a call.     *)

hasKeyBackup == <<"check">>

\* Mutant: the key is read while the device has not kept it yet.
ReadFirst == <<"delete", "make", "read", "save">>

\* bootstrapSecretStorage, then getSessionBackupPrivateKey: three methods of
\* the client take the same steps.
replaceKeyBackup == <<"delete", "make", "save", "read">>
createKeyBackup  == replaceKeyBackup
rotateKeyBackup  == replaceKeyBackup
resetKeyBackup   == replaceKeyBackup

recoverFromBackup == <<"recheck", "active", "store", "restore">>

getBackupState  == hasKeyBackup
createBackup    == getBackupState \o createKeyBackup
rotateBackupKey == getBackupState \o rotateKeyBackup
resetBackupKey  == resetKeyBackup
recover         == getBackupState \o recoverFromBackup

----------------------------------------------------------------------------
(* Calls.                                                                  *)

Active == {t \in Task : call[t].op # "none"}

Begin(t, d, op, todo, key) ==
    /\ t \notin Active /\ calls < MaxCalls /\ calls' = calls + 1
    /\ call' = [call EXCEPT ![t] = [op |-> op, by |-> d, todo |-> todo, key |-> key]]
    /\ UNCHANGED <<version, made, stored, given, clean>>

\* The use cases; recover is given a key that was handed out, or a wrong one.
GetBackupState(t, d)  == Begin(t, d, "getBackupState", getBackupState, 0)
CreateBackup(t, d)    == Begin(t, d, "createBackup", createBackup, 0)
RotateBackupKey(t, d) == Begin(t, d, "rotateBackupKey", rotateBackupKey, 0)
ResetBackupKey(t, d)  == Begin(t, d, "resetBackupKey", resetBackupKey, 0)
Recover(t, d)         == \E key \in {given, WrongKey} \ {0} :
                             Begin(t, d, "recover", recover, key)

At(t, step) == call[t].todo # <<>> /\ call[t].todo[1] = step
Finish(t)   == call' = [call EXCEPT ![t] = NoCall]
GoOn(t)     == IF Tail(call[t].todo) = <<>> THEN Finish(t)
               ELSE call' = [call EXCEPT ![t].todo = Tail(@)]

\* createBackup goes on without a backup, rotateBackupKey and recover with one.
Check(t) ==
    /\ At(t, "check") \/ At(t, "recheck")
    /\ LET refused == IF call[t].op = "createBackup" THEN version # 0
                      ELSE call[t].op # "getBackupState" /\ version = 0
       IN  IF refused THEN Finish(t) ELSE GoOn(t)
    /\ UNCHANGED <<version, made, stored, calls, given, clean>>

\* A call that has deleted the backup and not handed out a key yet.
Replacing(t) == At(t, "make") \/ At(t, "save") \/ At(t, "read")

\* bootstrapSecretStorage: the backup is deleted and the device forgets its
\* key, the server makes a version, and the device keeps the key of it.
DeleteVersions(t) ==
    /\ At(t, "delete")
    /\ version' = 0
    /\ stored' = [stored EXCEPT ![call[t].by] = 0]
    /\ GoOn(t)
    /\ UNCHANGED <<made, calls, given, clean>>

\* Calls cross if a version is made while another call has still to keep the
\* key of one, or, on another device, to read it.
MakeVersion(t) ==
    /\ At(t, "make")
    /\ made' = made + 1 /\ version' = made + 1
    /\ call' = [call EXCEPT ![t].todo = Tail(@), ![t].key = made + 1]
    /\ clean' = (clean /\ \A u \in Task \ {t} :
                              /\ ~At(u, "save")
                              /\ At(u, "read") => call[u].by = call[t].by)
    /\ UNCHANGED <<stored, calls, given>>

SaveKey(t) ==
    /\ At(t, "save")
    /\ stored' = [stored EXCEPT ![call[t].by] = call[t].key]
    /\ GoOn(t)
    /\ UNCHANGED <<version, made, calls, given, clean>>

\* getSessionBackupPrivateKey: the key that is on the device is returned, or,
\* if there is none, the recovery key, which no backup was made with.
ReadKey(t) ==
    /\ At(t, "read")
    /\ given' = IF stored[call[t].by] # 0 THEN stored[call[t].by] ELSE WrongKey
    /\ GoOn(t)
    /\ UNCHANGED <<version, made, stored, calls, clean>>

\* getActiveSessionBackupVersion: whether the device trusts the backup is the
\* SDK's to say; it does if it has its key.
ActiveVersion(t) ==
    /\ At(t, "active")
    /\ \/ version # 0 /\ GoOn(t)
       \/ (version = 0 \/ stored[call[t].by] # version) /\ Finish(t)
    /\ UNCHANGED <<version, made, stored, calls, given, clean>>

\* storeSessionBackupPrivateKey keeps the key, right or wrong;
\* restoreKeyBackup then throws if it is wrong.  It crosses a call that has
\* still to read its key on the device.
StoreKey(t) ==
    /\ At(t, "store")
    /\ stored' = [stored EXCEPT ![call[t].by] = call[t].key]
    /\ clean' = (clean /\ \A u \in Task : At(u, "read") => call[u].by # call[t].by)
    /\ GoOn(t)
    /\ UNCHANGED <<version, made, calls, given>>

Restore(t) ==
    /\ At(t, "restore") /\ Finish(t)
    /\ UNCHANGED <<version, made, stored, calls, given, clean>>

\* A request fails: the call throws.  If it had deleted the backup, that is
\* gone, or the key of the new one was not handed out.
CallFails(t) ==
    /\ Faults /\ t \in Active
    /\ Finish(t)
    /\ clean' = (clean /\ ~Replacing(t))
    /\ UNCHANGED <<version, made, stored, calls, given>>

SecurityModuleBackup(t, d) ==
    \/ GetBackupState(t, d) \/ CreateBackup(t, d) \/ RotateBackupKey(t, d)
    \/ ResetBackupKey(t, d) \/ Recover(t, d)

Next == \/ \E t \in Task, d \in Device : SecurityModuleBackup(t, d)
        \/ \E t \in Task : \/ Check(t) \/ DeleteVersions(t) \/ MakeVersion(t)
                           \/ SaveKey(t) \/ ReadKey(t) \/ ActiveVersion(t)
                           \/ StoreKey(t) \/ Restore(t) \/ CallFails(t)

Spec == Init /\ [][Next]_vars

----------------------------------------------------------------------------
(* Properties.                                                             *)

\* The key an application got last opens the backup on the server whenever no
\* call is between the deletion of a backup and the handing out of the key of
\* the next: also if calls that create, rotate and reset the backup overlap
\* on a device, delete each other's backups and read each other's keys,
\* whatever wrong keys were tried on any device, and if calls fail before
\* they delete.  (Not if a version is made while the key of another is on its
\* way to a device, if a key is tried on a device that is about to read the
\* key of its new backup, or after a call failed half way.)
KeyOpensBackup ==
    (clean /\ \A t \in Task : ~Replacing(t)) => given = version
=============================================================================
