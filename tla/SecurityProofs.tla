---------------------------- MODULE SecurityProofs ----------------------------
(***************************************************************************)
(* Proofs about Security for every set of devices and calls: the key that  *)
(* was handed out last opens the backup.  The argument follows the calls   *)
(* that replace the backup from the deletion of the old version to the     *)
(* making of the new one, the keeping of its key and the reading of it.    *)
(***************************************************************************)
EXTENDS Security, SequenceTheorems, TLAPS

-----------------------------------------------------------------------------
(* What is left to do of each call.                                        *)

R1 == <<"read">>
R2 == <<"save", "read">>
R3 == <<"make", "save", "read">>
R4 == <<"delete", "make", "save", "read">>
R5 == <<"check", "delete", "make", "save", "read">>
V1 == <<"restore">>
V2 == <<"store", "restore">>
V3 == <<"active", "store", "restore">>
V4 == <<"recheck", "active", "store", "restore">>
V5 == <<"check", "recheck", "active", "store", "restore">>
C1 == <<"check">>

\* What a call may have left that is not past the deletion of a backup, and
\* what any call may have left.
Harmless == {R4, R5, V1, V2, V3, V4, V5, C1, <<>>}
Todo     == Harmless \cup {R1, R2, R3}

CallRecord == [op : BackupOp \cup {"none"}, by : Device, todo : Todo, key : Nat]

CallType ==
    /\ call \in [Task -> CallRecord]
    /\ \A t \in Task : call[t].op = "none" => call[t].todo = <<>>

\* Calls that have deleted the backup and not yet made one, calls that have
\* made one whose key the device has not yet, and calls that have not yet
\* read the key.
Deleted(t) == call[t].todo = R3
Saving(t)  == call[t].todo = R2
Reading(t) == call[t].todo = R1

Types == /\ version \in Nat /\ made \in Nat /\ given \in Nat
         /\ stored \in [Device -> Nat] /\ clean \in BOOLEAN /\ CallType

\* As long as no key was lost or crossed: one call at a time has a key to
\* save, and only calls of its device have one to read; ...
OneSaving ==
    clean => \A t, u \in Task :
                Saving(t) => /\ Saving(u) => u = t
                             /\ Reading(u) => call[u].by = call[t].by

\* ... if no call is between deletion and making, the key to save is that of
\* the backup; ...
SavesKey ==
    clean /\ (\A t \in Task : ~Deleted(t))
          => \A t \in Task : Saving(t) => call[t].key = version /\ version # 0

\* ... if none is between deletion and saving, the keys to read are; ...
ReadsKey ==
    clean /\ (\A t \in Task : ~Deleted(t) /\ ~Saving(t))
          => \A t \in Task : Reading(t) => stored[call[t].by] = version /\ version # 0

\* ... and if none is past the deletion, the key handed out is.
Handed ==
    clean /\ (\A t \in Task : ~Deleted(t) /\ ~Saving(t) /\ ~Reading(t))
          => given = version

Keys == OneSaving /\ SavesKey /\ ReadsKey /\ Handed

Inv == Types /\ Keys

-----------------------------------------------------------------------------
(* Facts about the steps.                                                  *)

\* What is left after a step.
LEMMA Tails ==
    /\ Tail(C1) = <<>> /\ Tail(R1) = <<>>
    /\ Tail(R2) = R1 /\ Tail(R3) = R2 /\ Tail(R4) = R3 /\ Tail(R5) = R4
    /\ Tail(V1) = <<>> /\ Tail(V2) = V1 /\ Tail(V3) = V2
    /\ Tail(V4) = V3 /\ Tail(V5) = V4
BY DEF R1, R2, R3, R4, R5, V1, V2, V3, V4, V5, C1

\* What it means to come after a check.
LEMMA AfterCheck ==
    ASSUME NEW s \in Seq(Step), NEW r \in Seq(Step), Len(r) = 1 + Len(s),
           r[1] = "check", \A i \in 2..Len(r) : r[i] = s[i - 1]
    PROVE  <<"check">> \o s = r
<1> DEFINE c == <<"check">>
<1>1. c \in Seq(Step) /\ Len(c) = 1 /\ c[1] = "check"
  BY DEF Step
<1> HIDE DEF c
<1>2. /\ c \o s \in Seq(Step) /\ Len(c \o s) = Len(c) + Len(s)
      /\ \A i \in 1..(Len(c) + Len(s)) :
            (c \o s)[i] = IF i <= Len(c) THEN c[i] ELSE s[i - Len(c)]
  BY <1>1, ConcatProperties
<1>3. Len(s) \in Nat
  BY LenProperties
<1>4. \A i \in 1..Len(c \o s) : (c \o s)[i] = r[i]
  BY <1>1, <1>2, <1>3
<1>5. c \o s = r
  BY <1>1, <1>2, <1>4, SeqEqual
<1>6. QED
  BY <1>5 DEF c

\* The two operations that begin with a check.
LEMMA CheckFirst ==
    /\ <<"check">> \o <<"delete", "make", "save", "read">> = R5
    /\ <<"check">> \o <<"recheck", "active", "store", "restore">> = V5
<1>1. <<"check">> \o <<"delete", "make", "save", "read">> = R5
  <2> DEFINE s == <<"delete", "make", "save", "read">>
  <2>1. /\ s \in Seq(Step) /\ R5 \in Seq(Step) /\ Len(R5) = 1 + Len(s)
        /\ R5[1] = "check"
    BY DEF R5, Step
  <2>2. \A i \in 2..Len(R5) : R5[i] = s[i - 1]
    BY DEF R5
  <2> HIDE DEF s
  <2>3. <<"check">> \o s = R5
    BY <2>1, <2>2, AfterCheck
  <2>4. QED
    BY <2>3 DEF s
<1>2. <<"check">> \o <<"recheck", "active", "store", "restore">> = V5
  <2> DEFINE s == <<"recheck", "active", "store", "restore">>
  <2>1. /\ s \in Seq(Step) /\ V5 \in Seq(Step) /\ Len(V5) = 1 + Len(s)
        /\ V5[1] = "check"
    BY DEF V5, Step
  <2>2. \A i \in 2..Len(V5) : V5[i] = s[i - 1]
    BY DEF V5
  <2> HIDE DEF s
  <2>3. <<"check">> \o s = V5
    BY <2>1, <2>2, AfterCheck
  <2>4. QED
    BY <2>3 DEF s
<1>3. QED
  BY <1>1, <1>2

\* What each operation begins with.
LEMMA Begins ==
    /\ getBackupState = C1 /\ createBackup = R5 /\ rotateBackupKey = R5
    /\ resetBackupKey = R4 /\ recover = V5
BY CheckFirst, Zenon DEF getBackupState, createBackup, rotateBackupKey,
   resetBackupKey, recover, hasKeyBackup, createKeyBackup, rotateKeyBackup,
   resetKeyBackup, replaceKeyBackup, recoverFromBackup, C1, R4

\* Calls past the deletion are recognised by what they have left to do.
LEMMA Distinct ==
    /\ R1 # R2 /\ R1 # R3 /\ R2 # R3
    /\ R1 \notin Harmless /\ R2 \notin Harmless /\ R3 \notin Harmless
BY DEF R1, R2, R3, R4, R5, V1, V2, V3, V4, V5, C1, Harmless

\* The step a call is about to take.
LEMMA Firsts ==
    /\ R1[1] = "read" /\ R2[1] = "save" /\ R3[1] = "make" /\ R4[1] = "delete"
    /\ R5[1] = "check" /\ V1[1] = "restore" /\ V2[1] = "store" /\ V3[1] = "active"
    /\ V4[1] = "recheck" /\ V5[1] = "check" /\ C1[1] = "check"
    /\ R1 # <<>> /\ R2 # <<>> /\ R3 # <<>>
BY DEF R1, R2, R3, R4, R5, V1, V2, V3, V4, V5, C1

\* What the model says of the step a call is at, in terms of what is left.
LEMMA WhereAt ==
    ASSUME CallType, NEW t \in Task
    PROVE  /\ At(t, "save") <=> Saving(t)
           /\ At(t, "read") <=> Reading(t)
           /\ At(t, "make") <=> Deleted(t)
           /\ At(t, "delete") => call[t].todo = R4
           /\ At(t, "check") \/ At(t, "recheck") \/ At(t, "active")
                 \/ At(t, "store") \/ At(t, "restore")
                => /\ call[t].todo \in Harmless \ {R4, <<>>}
                   /\ Tail(call[t].todo) \in Harmless
           /\ Replacing(t) <=> Deleted(t) \/ Saving(t) \/ Reading(t)
<1>1. call[t].todo \in Todo
  BY DEF CallType, CallRecord
<1>2. /\ At(t, "save") <=> Saving(t)
      /\ At(t, "read") <=> Reading(t)
      /\ At(t, "make") <=> Deleted(t)
      /\ At(t, "delete") => call[t].todo = R4
  BY <1>1, Firsts DEF At, Todo, Harmless, Saving, Reading, Deleted
<1>3. ASSUME At(t, "check") \/ At(t, "recheck") \/ At(t, "active")
                \/ At(t, "store") \/ At(t, "restore")
      PROVE  /\ call[t].todo \in Harmless \ {R4, <<>>}
             /\ Tail(call[t].todo) \in Harmless
  <2>1. call[t].todo \in {R5, V1, V2, V3, V4, V5, C1} /\ call[t].todo # <<>>
    BY <1>1, <1>3, Firsts DEF At, Todo, Harmless
  <2>2. call[t].todo # R4
    BY <1>3, Firsts DEF At
  <2>3. Tail(call[t].todo) \in Harmless
    BY <2>1, Tails DEF Harmless
  <2>4. QED
    BY <2>1, <2>2, <2>3 DEF Harmless
<1>4. QED
  BY <1>2, <1>3 DEF Replacing

-----------------------------------------------------------------------------
(* Inv is inductive.                                                       *)

\* A call that ends is NoCall.
LEMMA NoCallType ==
    ASSUME SecurityAssumption
    PROVE  /\ NoCall \in CallRecord /\ NoCall.op = "none"
           /\ NoCall.todo = <<>> /\ <<>> \in Harmless
BY DEF NoCall, SecurityAssumption, CallRecord, Todo, Harmless

\* A step of a call ends it or takes the first step off what is left; the
\* other calls stay as they are.
LEMMA CallStep ==
    ASSUME SecurityAssumption, CallType, NEW t \in Task, NEW step, At(t, step),
           Finish(t) \/ GoOn(t), Tail(call[t].todo) \in Todo
    PROVE  /\ CallType'
           /\ \A u \in Task : u # t => call'[u] = call[u]
           /\ \/ call'[t].todo = <<>>
              \/ /\ call'[t].by = call[t].by /\ call'[t].todo = Tail(call[t].todo)
           /\ GoOn(t) /\ Tail(call[t].todo) # <<>>
                => call'[t].by = call[t].by /\ call'[t].todo = Tail(call[t].todo)
<1> DEFINE rest == Tail(call[t].todo)
<1>0. call \in [Task -> CallRecord] /\ call[t] \in CallRecord /\ call[t].todo # <<>>
  BY DEF CallType, At
<1>1. call[t].op # "none"
  BY <1>0 DEF CallType
<1>2. CASE GoOn(t) /\ rest # <<>>
  <2>1. call' = [call EXCEPT ![t].todo = rest]
    BY <1>2 DEF GoOn
  <2> HIDE DEF rest
  <2>2. /\ call' \in [Task -> CallRecord]
        /\ call'[t].op = call[t].op /\ call'[t].by = call[t].by
        /\ call'[t].todo = rest
        /\ \A u \in Task : u # t => call'[u] = call[u]
    <3>1. rest \in Todo
      BY DEF rest
    <3>2. QED
      BY <1>0, <2>1, <3>1 DEF CallRecord
  <2>3. CallType'
    BY <1>1, <2>2 DEF CallType
  <2>4. QED
    BY <2>2, <2>3 DEF rest
<1>3. CASE ~(GoOn(t) /\ rest # <<>>)
  <2>1. call' = [call EXCEPT ![t] = NoCall]
    BY <1>3 DEF GoOn, Finish
  <2>2. call' \in [Task -> CallRecord] /\ call'[t] = NoCall
        /\ \A u \in Task : u # t => call'[u] = call[u]
    BY <1>0, <2>1, NoCallType
  <2>3. CallType'
    BY <2>2, NoCallType DEF CallType
  <2>4. QED
    BY <1>3, <2>2, <2>3, NoCallType
<1>4. QED
  BY <1>2, <1>3

\* A step of a call that is not past the deletion, before it and after it.
LEMMA HarmlessStep ==
    ASSUME Inv, NEW t \in Task, call[t].todo \in Harmless, call'[t].todo \in Harmless,
           \A u \in Task : u # t => call'[u] = call[u],
           version' = version, given' = given, clean' => clean,
           \A u \in Task : clean' /\ Reading(u) => stored'[call[u].by] = stored[call[u].by]
    PROVE  Keys'
<1>1. \A u \in Task : /\ Deleted(u)' <=> Deleted(u)
                      /\ Saving(u)' <=> Saving(u)
                      /\ Reading(u)' <=> Reading(u)
  BY Distinct DEF Deleted, Saving, Reading
<1>2. \A u \in Task : Saving(u) \/ Reading(u) => call'[u] = call[u]
  BY Distinct DEF Saving, Reading
<1>3. OneSaving'
  BY <1>1, <1>2 DEF Inv, Keys, OneSaving
<1>4. SavesKey'
  BY <1>1, <1>2 DEF Inv, Keys, SavesKey
<1>5. ReadsKey'
  BY <1>1, <1>2 DEF Inv, Keys, ReadsKey
<1>6. Handed'
  BY <1>1 DEF Inv, Keys, Handed
<1>7. QED
  BY <1>3, <1>4, <1>5, <1>6 DEF Keys

\* The backup is deleted: the call has still to make one.
LEMMA DeleteInv ==
    ASSUME SecurityAssumption, Inv, NEW t \in Task, DeleteVersions(t)
    PROVE  Inv'
<1>1. At(t, "delete") /\ GoOn(t) /\ CallType
  BY DEF DeleteVersions, Inv, Types
<1>2. call[t].todo = R4 /\ Tail(call[t].todo) = R3 /\ R3 # <<>> /\ R3 \in Todo
  BY <1>1, WhereAt, Tails, Firsts DEF Todo
<1>3. /\ CallType' /\ call'[t].todo = R3
      /\ \A u \in Task : u # t => call'[u] = call[u]
  BY <1>1, <1>2, CallStep
<1>4. Types'
  <2>1. call[t].by \in Device
    BY <1>1 DEF CallType, CallRecord
  <2>2. QED
    BY <1>3, <2>1 DEF DeleteVersions, Inv, Types
<1>5. Deleted(t)'
  BY <1>3 DEF Deleted
<1>6. \A u \in Task : (Saving(u)' => Saving(u) /\ call'[u] = call[u])
                    /\ (Reading(u)' => Reading(u) /\ call'[u] = call[u])
  BY <1>3, Distinct DEF Saving, Reading
<1>7. OneSaving'
  <2>1. clean' = clean
    BY DEF DeleteVersions
  <2>2. QED
    BY <1>6, <2>1 DEF Inv, Keys, OneSaving
<1>8. QED
  BY <1>4, <1>5, <1>7 DEF Inv, Keys, SavesKey, ReadsKey, Handed

\* A version is made: it is the only one whose key a device has to save.
LEMMA MakeInv ==
    ASSUME SecurityAssumption, Inv, NEW t \in Task, MakeVersion(t)
    PROVE  Inv'
<1>1. At(t, "make") /\ CallType
  BY DEF MakeVersion, Inv, Types
<1>2. call[t].todo = R3 /\ Tail(call[t].todo) = R2 /\ R2 \in Todo
  BY <1>1, WhereAt, Tails DEF Todo, Deleted
<1>3. /\ version' = made + 1 /\ made + 1 \in Nat /\ made + 1 # 0
      /\ made' = made + 1 /\ given' = given /\ stored' = stored
      /\ call' = [call EXCEPT ![t].todo = Tail(@), ![t].key = made + 1]
      /\ clean' = (clean /\ \A u \in Task \ {t} :
                                /\ ~At(u, "save")
                                /\ At(u, "read") => call[u].by = call[t].by)
  BY DEF MakeVersion, Inv, Types
<1>4. /\ call' \in [Task -> CallRecord]
      /\ \A u \in Task : u # t => call'[u] = call[u]
      /\ call'[t].todo = R2 /\ call'[t].key = made + 1
      /\ call'[t].by = call[t].by /\ call'[t].op = call[t].op
  <2>1. call \in [Task -> CallRecord] /\ call[t] \in CallRecord
    BY <1>1 DEF CallType
  <2>2. call' = [call EXCEPT ![t] = [call[t] EXCEPT !.todo = R2, !.key = made + 1]]
    BY <1>2, <1>3, <2>1 DEF CallRecord
  <2>3. [call[t] EXCEPT !.todo = R2, !.key = made + 1] \in CallRecord
    BY <1>2, <1>3, <2>1 DEF CallRecord
  <2>4. QED
    BY <2>1, <2>2, <2>3 DEF CallRecord
<1>5. Types'
  <2>1. call[t].op # "none"
    BY <1>1, <1>2, Firsts DEF CallType
  <2>2. CallType'
    BY <1>1, <1>4, <2>1 DEF CallType
  <2>3. clean' \in BOOLEAN
    BY <1>3
  <2>4. QED
    BY <1>3, <2>2, <2>3 DEF Inv, Types
<1>6. SUFFICES ASSUME clean' PROVE Keys'
  BY <1>5 DEF Inv, Keys, OneSaving, SavesKey, ReadsKey, Handed
<1>7. \A u \in Task : u # t => ~Saving(u) /\ (Reading(u) => call[u].by = call[t].by)
  BY <1>1, <1>3, <1>6, WhereAt
<1>8. /\ Saving(t)' /\ ~Reading(t)'
      /\ \A u \in Task : u # t => (Saving(u)' <=> Saving(u)) /\ (Reading(u)' <=> Reading(u))
  BY <1>4, Distinct DEF Saving, Reading
<1>9. \A u \in Task : Saving(u)' => u = t
  BY <1>7, <1>8
<1>10. \A u \in Task : Reading(u)' => call'[u].by = call'[t].by
  BY <1>4, <1>7, <1>8
<1>11. OneSaving'
  BY <1>9, <1>10 DEF OneSaving
<1>12. SavesKey'
  BY <1>3, <1>4, <1>9 DEF SavesKey
<1>13. ReadsKey' /\ Handed'
  BY <1>8 DEF ReadsKey, Handed
<1>14. QED
  BY <1>11, <1>12, <1>13 DEF Keys

\* The device keeps the key: every call that will read it, reads it there.
LEMMA SaveInv ==
    ASSUME SecurityAssumption, Inv, NEW t \in Task, SaveKey(t)
    PROVE  Inv'
<1>1. /\ At(t, "save") /\ GoOn(t) /\ CallType
      /\ stored' = [stored EXCEPT ![call[t].by] = call[t].key]
      /\ version' = version /\ given' = given /\ made' = made /\ clean' = clean
  BY DEF SaveKey, Inv, Types
<1>2. /\ call[t].todo = R2 /\ Tail(call[t].todo) = R1 /\ R1 \in Todo /\ R1 # <<>>
      /\ Saving(t)
  BY <1>1, WhereAt, Tails, Firsts DEF Todo, Saving
<1>3. /\ CallType' /\ call'[t].todo = R1 /\ call'[t].by = call[t].by
      /\ \A u \in Task : u # t => call'[u] = call[u]
  BY <1>1, <1>2, CallStep
<1>4. call[t].by \in Device /\ call[t].key \in Nat /\ stored \in [Device -> Nat]
  BY <1>1 DEF CallType, CallRecord, Inv, Types
<1>5. Types'
  BY <1>1, <1>3, <1>4 DEF Inv, Types
<1>6. SUFFICES ASSUME clean PROVE Keys'
  BY <1>1, <1>5 DEF Inv, Keys, OneSaving, SavesKey, ReadsKey, Handed
<1>7. \A u \in Task : (Saving(u) => u = t) /\ (Reading(u) => call[u].by = call[t].by)
  BY <1>2, <1>6 DEF Inv, Keys, OneSaving
<1>8. /\ Reading(t)' /\ ~Saving(t)' /\ ~Deleted(t)' /\ ~Deleted(t)
      /\ \A u \in Task : u # t => /\ Saving(u)' <=> Saving(u)
                                  /\ Reading(u)' <=> Reading(u)
                                  /\ Deleted(u)' <=> Deleted(u)
  BY <1>2, <1>3, Distinct DEF Saving, Reading, Deleted
<1>9. \A u \in Task : ~Saving(u)'
  BY <1>7, <1>8
<1>10. \A u \in Task : Reading(u)' => call'[u].by = call[t].by
  BY <1>3, <1>7, <1>8
<1>11. (\A u \in Task : ~Deleted(u)') => call[t].key = version /\ version # 0
  BY <1>2, <1>6, <1>8 DEF Inv, Keys, SavesKey
<1>12. stored'[call[t].by] = call[t].key
  BY <1>1, <1>4
<1>13. ReadsKey'
  BY <1>1, <1>10, <1>11, <1>12 DEF ReadsKey
<1>14. QED
  BY <1>8, <1>9, <1>13 DEF Keys, OneSaving, SavesKey, Handed

\* The key is read and handed out: if no other call is past the deletion,
\* it is the key of the backup, and never the unused recovery key.
LEMMA ReadInv ==
    ASSUME SecurityAssumption, Inv, NEW t \in Task, ReadKey(t)
    PROVE  Inv'
<1>1. /\ At(t, "read") /\ GoOn(t) /\ CallType
      /\ given' = IF stored[call[t].by] # 0 THEN stored[call[t].by] ELSE WrongKey
      /\ stored' = stored /\ version' = version
      /\ clean' = clean /\ made' = made
  BY DEF ReadKey, Inv, Types
<1>2. call[t].todo = R1 /\ Tail(call[t].todo) = <<>> /\ <<>> \in Todo /\ Reading(t)
  BY <1>1, WhereAt, Tails DEF Todo, Harmless, Reading
<1>3. /\ CallType' /\ call'[t].todo = <<>>
      /\ \A u \in Task : u # t => call'[u] = call[u]
  BY <1>1, <1>2, CallStep
<1>4. Types'
  <2>1. call[t].by \in Device
    BY <1>1 DEF CallType, CallRecord
  <2>2. given' \in Nat
    BY <1>1, <2>1 DEF Inv, Types, SecurityAssumption
  <2>3. QED
    BY <1>1, <1>3, <2>2 DEF Inv, Types
<1>5. /\ ~Deleted(t)' /\ ~Deleted(t) /\ ~Saving(t)' /\ ~Saving(t) /\ ~Reading(t)'
      /\ \A u \in Task : u # t => /\ Saving(u)' <=> Saving(u)
                                  /\ Reading(u)' <=> Reading(u)
                                  /\ Deleted(u)' <=> Deleted(u)
  BY <1>2, <1>3, Distinct DEF Saving, Reading, Deleted, Harmless
<1>6. \A u \in Task : Saving(u)' \/ Reading(u)' => u # t /\ call'[u] = call[u]
  BY <1>3, <1>5
<1>7. OneSaving'
  BY <1>1, <1>5, <1>6 DEF Inv, Keys, OneSaving
<1>8. SavesKey'
  BY <1>1, <1>5, <1>6 DEF Inv, Keys, SavesKey
<1>9. ReadsKey'
  BY <1>1, <1>5, <1>6 DEF Inv, Keys, ReadsKey
<1>10. Handed'
  <2> SUFFICES ASSUME clean, \A u \in Task : ~Deleted(u)' /\ ~Saving(u)'
               PROVE  given' = version'
    BY <1>1 DEF Handed
  <2>1. \A u \in Task : ~Deleted(u) /\ ~Saving(u)
    BY <1>5
  <2>2. stored[call[t].by] = version /\ version # 0
    BY <1>2, <2>1 DEF Inv, Keys, ReadsKey
  <2>3. QED
    BY <1>1, <2>2
<1>11. QED
  BY <1>4, <1>7, <1>8, <1>9, <1>10 DEF Inv, Keys

\* A call begins, with all its steps before it.
LEMMA BeginInv ==
    ASSUME SecurityAssumption, Inv, NEW t \in Task, NEW d \in Device,
           SecurityModuleBackup(t, d)
    PROVE  Inv'
<1>1. PICK op \in BackupOp, todo \in {R4, R5, C1, V5}, key \in Nat :
         Begin(t, d, op, todo, key)
  <2>1. given \in Nat /\ WrongKey \in Nat
    BY DEF Inv, Types, SecurityAssumption
  <2>2. CASE GetBackupState(t, d)
    BY <2>2, Begins DEF GetBackupState, BackupOp, Making
  <2>3. CASE CreateBackup(t, d) \/ RotateBackupKey(t, d) \/ ResetBackupKey(t, d)
    BY <2>3, Begins DEF CreateBackup, RotateBackupKey, ResetBackupKey, BackupOp, Making
  <2>4. CASE Recover(t, d)
    BY <2>1, <2>4, Begins DEF Recover, BackupOp, Making
  <2>5. QED
    BY <2>2, <2>3, <2>4 DEF SecurityModuleBackup
<1> DEFINE new == [op |-> op, by |-> d, todo |-> todo, key |-> key]
<1>2. /\ call' = [call EXCEPT ![t] = new] /\ call[t].op = "none" /\ CallType
      /\ UNCHANGED <<version, made, stored, given, clean>>
  BY <1>1 DEF Begin, Active, Inv, Types
<1>3. new \in CallRecord /\ new.op # "none" /\ new.todo \in Harmless
  BY DEF CallRecord, Todo, Harmless, BackupOp, Making
<1>4. /\ call' \in [Task -> CallRecord] /\ call'[t] = new
      /\ \A u \in Task : u # t => call'[u] = call[u]
  <2> HIDE DEF new
  <2>1. QED
    BY <1>2, <1>3 DEF CallType
<1>5. CallType'
  <2> HIDE DEF new
  <2>1. QED
    BY <1>2, <1>3, <1>4 DEF CallType
<1>6. Types'
  BY <1>2, <1>5 DEF Inv, Types
<1>7. call[t].todo \in Harmless /\ call'[t].todo \in Harmless
  BY <1>2, <1>3, <1>4, NoCallType DEF CallType
<1>8. Keys'
  BY <1>2, <1>4, <1>7, HarmlessStep
<1>9. QED
  BY <1>6, <1>8 DEF Inv

\* A call that fails ends; if it was past the deletion, clean no longer holds.
LEMMA FailInv ==
    ASSUME SecurityAssumption, Inv, NEW t \in Task, CallFails(t)
    PROVE  Inv'
<1>1. /\ call' = [call EXCEPT ![t] = NoCall] /\ CallType
      /\ clean' = (clean /\ ~Replacing(t))
      /\ UNCHANGED <<version, made, stored, given>>
  BY DEF CallFails, Finish, Inv, Types
<1>2. /\ call'[t] = NoCall /\ \A u \in Task : u # t => call'[u] = call[u]
      /\ call' \in [Task -> CallRecord]
  BY <1>1, NoCallType DEF CallType
<1>3. CallType'
  BY <1>1, <1>2, NoCallType DEF CallType
<1>4. clean' \in BOOLEAN /\ (clean' => clean)
  BY <1>1 DEF Inv, Types
<1>5. Types'
  BY <1>1, <1>3, <1>4 DEF Inv, Types
<1>6. SUFFICES ASSUME clean' PROVE Keys'
  BY <1>5 DEF Inv, Keys, OneSaving, SavesKey, ReadsKey, Handed
<1>7. ~Replacing(t) /\ call[t].todo \in Todo
  BY <1>1, <1>6 DEF CallType, CallRecord
<1>8. call[t].todo \in Harmless
  BY <1>1, <1>7, WhereAt DEF Todo, Deleted, Saving, Reading
<1>9. call'[t].todo \in Harmless
  BY <1>2, NoCallType
<1>10. QED
  BY <1>1, <1>2, <1>4, <1>8, <1>9, HarmlessStep

\* Checks, the steps of recover, and a key that is stored, right or wrong.
LEMMA OtherStepsInv ==
    ASSUME SecurityAssumption, Inv, NEW t \in Task,
           Check(t) \/ ActiveVersion(t) \/ StoreKey(t) \/ Restore(t)
    PROVE  Inv'
<1>1. PICK step \in {"check", "recheck", "active", "store", "restore"} : At(t, step)
  BY DEF Check, ActiveVersion, StoreKey, Restore
<1>2. CallType /\ call[t].todo \in Harmless /\ Tail(call[t].todo) \in Harmless
  BY <1>1, WhereAt DEF Inv, Types
<1>3. /\ Finish(t) \/ GoOn(t)
      /\ version' = version /\ given' = given /\ made' = made
  BY DEF Check, ActiveVersion, StoreKey, Restore
<1>4. /\ CallType' /\ call'[t].todo \in Harmless
      /\ \A u \in Task : u # t => call'[u] = call[u]
  <2>1. Tail(call[t].todo) \in Todo
    BY <1>2 DEF Todo
  <2>2. QED
    BY <1>1, <1>2, <1>3, <2>1, CallStep, NoCallType
<1>5. CASE StoreKey(t)
  <2>1. call[t].by \in Device /\ call[t].key \in Nat /\ stored \in [Device -> Nat]
    BY <1>2 DEF CallType, CallRecord, Inv, Types
  <2>2. /\ stored' = [stored EXCEPT ![call[t].by] = call[t].key]
        /\ clean' = (clean /\ \A u \in Task : At(u, "read") => call[u].by # call[t].by)
    BY <1>5 DEF StoreKey
  <2>3. stored' \in [Device -> Nat] /\ clean' \in BOOLEAN /\ (clean' => clean)
    BY <2>1, <2>2 DEF Inv, Types
  <2>4. \A u \in Task : clean' /\ Reading(u)
                          => stored'[call[u].by] = stored[call[u].by]
    <3>1. SUFFICES ASSUME NEW u \in Task, clean', Reading(u)
                   PROVE  stored'[call[u].by] = stored[call[u].by]
      OBVIOUS
    <3>2. call[u].by # call[t].by /\ call[u].by \in Device
      BY <1>2, <2>2, <3>1, WhereAt DEF CallType, CallRecord
    <3>3. QED
      BY <2>1, <2>2, <3>2
  <2>5. Keys'
    BY <1>2, <1>3, <1>4, <2>3, <2>4, HarmlessStep
  <2>6. QED
    BY <1>3, <1>4, <2>3, <2>5 DEF Inv, Types
<1>6. CASE Check(t) \/ ActiveVersion(t) \/ Restore(t)
  <2>1. stored' = stored /\ clean' = clean
    BY <1>6 DEF Check, ActiveVersion, Restore
  <2>2. Keys'
    BY <1>2, <1>3, <1>4, <2>1, HarmlessStep
  <2>3. QED
    BY <1>3, <1>4, <2>1, <2>2 DEF Inv, Types
<1>7. QED
  BY <1>5, <1>6

\* Every step keeps Inv.
LEMMA NextInv == ASSUME SecurityAssumption, Inv, [Next]_vars PROVE Inv'
<1>1. CASE \E t \in Task, d \in Device : SecurityModuleBackup(t, d)
  BY <1>1, BeginInv
<1>2. CASE \E t \in Task : DeleteVersions(t) \/ MakeVersion(t) \/ SaveKey(t) \/ ReadKey(t)
  BY <1>2, DeleteInv, MakeInv, SaveInv, ReadInv
<1>3. CASE \E t \in Task : \/ Check(t) \/ ActiveVersion(t) \/ StoreKey(t)
                          \/ Restore(t) \/ CallFails(t)
  BY <1>3, OtherStepsInv, FailInv
<1>4. CASE UNCHANGED vars
  BY <1>4 DEF vars, Inv, Types, CallType, Keys, OneSaving, SavesKey, ReadsKey, Handed,
     Deleted, Saving, Reading
<1>5. QED
  BY <1>1, <1>2, <1>3, <1>4 DEF Next

\* The initial state: no backup, no key and no call.
LEMMA InitInv == ASSUME SecurityAssumption, Init PROVE Inv
<1>1. \A t \in Task : call[t] = NoCall
  BY DEF Init
<1>2. CallType
  BY <1>1, NoCallType DEF Init, CallType
<1>3. \A t \in Task : ~Deleted(t) /\ ~Saving(t) /\ ~Reading(t)
  BY <1>1, NoCallType, Distinct DEF Deleted, Saving, Reading
<1>4. QED
  BY <1>2, <1>3 DEF Init, Inv, Types, Keys, OneSaving, SavesKey, ReadsKey, Handed

\* createBackup, rotateBackupKey and resetBackupKey: for any number of calls
\* on any number of devices, also calls of a device that delete each other's
\* backups and read each other's keys, the key handed out last opens the
\* backup, unless a call failed half way or a key crossed another's.
THEOREM BackupOpens == Spec => []KeyOpensBackup
<1>1. Init => Inv
  BY InitInv, SecurityAssumption
<1>2. Inv /\ [Next]_vars => Inv'
  BY NextInv, SecurityAssumption
<1>3. Inv => KeyOpensBackup
  BY WhereAt DEF KeyOpensBackup, Inv, Types, Keys, Handed
<1>4. QED
  BY <1>1, <1>2, <1>3, PTL DEF Spec
=============================================================================
