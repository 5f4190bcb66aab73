------------------------- MODULE HandleStorageProofs -------------------------
(***************************************************************************)
(* Proofs about HandleStorage for every set of users, overlapping or not.  *)
(* ClosedIsUncached is inductive together with the types; what holds until *)
(* two calls overlap needs Alone besides.                                  *)
(***************************************************************************)
EXTENDS HandleStorage, TLAPS

Inv == TypeOK /\ ClosedIsUncached

\* The initial state satisfies the invariant.
LEMMA InitInv == ASSUME StorageAssumption, Init PROVE Inv
<1>1. [op |-> "use", mine |-> 0, early |-> FALSE] \in Local
  BY DEF Local, Op
<1>2. TypeOK
  <2>1. loc \in [User -> Local]
    BY <1>1 DEF Init
  <2>2. pc \in [User -> Label]
    BY DEF Init, Label
  <2>3. handleStorageCache \in 0..made /\ made \in Nat /\ open \subseteq 1..made
    BY DEF Init
  <2>4. item \in Value \cup {None} /\ purging \in BOOLEAN /\ overlapped \in BOOLEAN
    BY DEF Init
  <2>5. QED
    BY <2>1, <2>2, <2>3, <2>4 DEF TypeOK
<1>3. ClosedIsUncached
  BY DEF Init, ClosedIsUncached
<1>4. QED
  BY <1>2, <1>3 DEF Inv

\* A call that begins finds the cached storage or asks for an open.
LEMMA CallInv ==
    ASSUME Inv, NEW u \in User, NEW op \in Op, Call(u, op)
    PROVE  Inv'
<1>1. /\ [op |-> op, mine |-> handleStorageCache, early |-> FALSE] \in Local
      /\ [op |-> op, mine |-> 0, early |-> ~purging] \in Local
  BY DEF Inv, TypeOK, Local
<1>2. TypeOK'
  <2>1. loc' \in [User -> Local]
    BY <1>1 DEF Call, UseCached, RequestOpen, Inv, TypeOK
  <2>2. pc' \in [User -> Label]
    BY DEF Call, UseCached, RequestOpen, AfterUse, Inv, TypeOK, Label
  <2>3. overlapped' \in BOOLEAN
    BY DEF Call
  <2>4. QED
    BY <2>1, <2>2, <2>3 DEF Call, Inv, TypeOK
<1>3. ClosedIsUncached'
  BY DEF Call, Done, Inv, TypeOK, ClosedIsUncached, UseCached, RequestOpen
<1>4. QED
  BY <1>2, <1>3 DEF Inv

\* The steps that follow an await.
LEMMA StepInv == ASSUME Inv, NEW u \in User, Step(u) PROVE Inv'
<1>1. CASE useHandleStorage(u)
  <2>1. TypeOK'
    BY <1>1 DEF useHandleStorage, AfterUse, Inv, TypeOK, Label, Local
  <2>2. ClosedIsUncached'
    BY <1>1 DEF useHandleStorage, ClosedIsUncached
  <2>3. QED
    BY <2>1, <2>2 DEF Inv
<1>2. CASE closeStorage(u)
  <2>1. TypeOK'
    BY <1>2 DEF closeStorage, closeDB, Inv, TypeOK, Label
  <2>2. ClosedIsUncached'
    <3>1. CASE handleStorageCache = loc[u].mine
      BY <1>2, <3>1 DEF closeStorage, Inv, TypeOK, ClosedIsUncached
    <3>2. CASE handleStorageCache # loc[u].mine
      BY <1>2, <3>2 DEF closeStorage, closeDB, Inv, TypeOK, ClosedIsUncached
    <3>3. QED
      BY <3>1, <3>2
  <2>3. QED
    BY <2>1, <2>2 DEF Inv
<1>3. CASE uncache(u)
  BY <1>3 DEF uncache, Inv, TypeOK, Label, ClosedIsUncached
<1>4. CASE \/ useHandleStorageFails(u) \/ matrixStoreDestroyed(u)
           \/ destroyStorage(u) \/ DatabaseNotOpen(u)
  <2>1. /\ UNCHANGED <<handleStorageCache, made, open, item, overlapped, loc>>
        /\ \E label \in Label : pc' = [pc EXCEPT ![u] = label]
        /\ purging' \in BOOLEAN
    BY <1>4 DEF useHandleStorageFails, matrixStoreDestroyed, destroyStorage,
       DatabaseNotOpen, Inv, TypeOK, Label
  <2>2. TypeOK'
    BY <2>1 DEF Inv, TypeOK
  <2>3. ClosedIsUncached'
    BY <1>4 DEF useHandleStorageFails, matrixStoreDestroyed, destroyStorage,
       DatabaseNotOpen, Inv, TypeOK, ClosedIsUncached
  <2>4. QED
    BY <2>2, <2>3 DEF Inv
<1>5. QED
  BY <1>1, <1>2, <1>3, <1>4 DEF Step

\* Reads, writes and the deletion by IndexedDB change no storage object.
LEMMA ItemInv ==
    ASSUME StorageAssumption, Inv,
           \/ \E u \in User, v \in Value : saveAccessToken(u, v)
           \/ \E u \in User : deleteAccessToken(u) \/ LetGo(u)
           \/ deleteDatabase
           \/ UNCHANGED vars
    PROVE  Inv'
<1>1. CASE \E u \in User : LetGo(u)
  BY <1>1 DEF LetGo, Inv, TypeOK, Label, ClosedIsUncached
<1>2. CASE \/ \E u \in User, v \in Value : saveAccessToken(u, v)
           \/ \E u \in User : deleteAccessToken(u)
           \/ deleteDatabase \/ UNCHANGED vars
  BY <1>2 DEF saveAccessToken, deleteAccessToken, deleteDatabase, vars, Inv, TypeOK,
     ClosedIsUncached
<1>3. QED
  BY <1>1, <1>2

\* Every reachable state satisfies the invariant.
THEOREM StorageInvariant == Spec => []Inv
<1>1. Init => Inv
  BY InitInv, StorageAssumption
<1>2. Inv /\ [Next]_vars => Inv'
  BY CallInv, StepInv, ItemInv, StorageAssumption DEF Next
<1>3. QED
  BY <1>1, <1>2, PTL DEF Spec

\* Type correctness of the storage module.
THEOREM StorageTypeCorrect == Spec => []TypeOK
<1>1. Inv => TypeOK
  BY DEF Inv
<1>2. QED
  BY <1>1, StorageInvariant, PTL

\* A closed storage leaves the cache with the call that closed it, for any
\* number of overlapping calls.
THEOREM ClosedStorageUncached == Spec => []ClosedIsUncached
<1>1. Inv => ClosedIsUncached
  BY DEF Inv
<1>2. QED
  BY <1>1, StorageInvariant, PTL

-----------------------------------------------------------------------------
(* Until two calls overlap.                                                *)

Working(u) == pc[u] \notin Done
Using(u)   == pc[u] \in {"holding", "destroyMatrixStore", "closeStorage"}
Closed(u)  == pc[u] \in {"destroyStorage", "uncache"}

\* One call is under way.  A call that opens found no storage, a call that
\* uses one has the cached one open, and after it is closed none is open.
OneCall == \A u, v \in User : Working(u) /\ Working(v) => u = v

Holds(u) == /\ pc[u] # "notOpen"
            /\ pc[u] = "opening" => handleStorageCache = 0
            /\ Using(u) => loc[u].mine = handleStorageCache /\ loc[u].mine \in open
            /\ Closed(u) => open = {}

Only  == open \subseteq {handleStorageCache}
Alone == ~overlapped => OneCall /\ Only /\ \A u \in User : Holds(u)

\* A call that begins alone finds an open storage or none.
LEMMA CallAlone ==
    ASSUME Inv, Alone, NEW u \in User, NEW op \in Op, Call(u, op)
    PROVE  Alone'
<1> SUFFICES ASSUME ~overlapped' PROVE (OneCall /\ Only /\ \A v \in User : Holds(v))'
  BY DEF Alone
<1>1. ~overlapped /\ \A v \in User : ~Working(v)
  BY DEF Call, Working, Inv, TypeOK
<1>2. \A v \in User : v # u => pc'[v] = pc[v] /\ loc'[v] = loc[v]
  BY DEF Call, UseCached, RequestOpen, Inv, TypeOK
<1>3. OneCall'
  BY <1>1, <1>2 DEF OneCall, Working
<1>4. Only'
  BY <1>1 DEF Call, Alone, Only
<1>5. handleStorageCache # 0 => handleStorageCache \in open
  BY <1>1 DEF Inv, ClosedIsUncached, Working, Done
<1>6. ASSUME NEW v \in User PROVE Holds(v)'
  <2>1. CASE v # u
    <3>1. Holds(v) /\ ~Working(v)
      BY <1>1 DEF Alone
    <3>2. pc'[v] \in Done /\ pc'[v] # "notOpen"
      BY <1>2, <2>1, <3>1 DEF Holds, Working
    <3>3. QED
      BY <3>2 DEF Holds, Using, Closed, Done
  <2>2. CASE v = u
    <3>1. CASE UseCached(u, op)
      <4>1. pc'[u] = AfterUse(op) /\ loc'[u].mine = handleStorageCache
        BY <3>1 DEF UseCached, Inv, TypeOK
      <4>2. handleStorageCache' = handleStorageCache /\ open' = open
        BY DEF Call
      <4>3. handleStorageCache \in open
        BY <3>1, <1>5 DEF UseCached
      <4>4. QED
        BY <2>2, <4>1, <4>2, <4>3 DEF Holds, Using, Closed, AfterUse
    <3>2. CASE RequestOpen(u, op)
      <4>1. pc'[u] = "opening" /\ handleStorageCache' = 0
        BY <3>2 DEF RequestOpen, Call, Inv, TypeOK
      <4>2. QED
        BY <2>2, <4>1 DEF Holds, Using, Closed
    <3>3. QED
      BY <3>1, <3>2 DEF Call
  <2>3. QED
    BY <2>1, <2>2
<1>7. QED
  BY <1>3, <1>4, <1>6

\* A step of the call under way.
LEMMA StepAlone ==
    ASSUME Inv, Alone, NEW u \in User, Step(u) \/ LetGo(u)
    PROVE  Alone'
<1> SUFFICES ASSUME ~overlapped' PROVE (OneCall /\ Only /\ \A v \in User : Holds(v))'
  BY DEF Alone
<1>1. overlapped' = overlapped /\ Working(u)
  BY DEF Step, LetGo, useHandleStorage, useHandleStorageFails, matrixStoreDestroyed,
     closeStorage, destroyStorage, uncache, DatabaseNotOpen, Working, Done
<1>2. OneCall /\ Only /\ \A v \in User : Holds(v)
  BY <1>1 DEF Alone
<1>3. \A v \in User : v # u => pc'[v] = pc[v] /\ pc[v] \in Done
  <2>1. \A v \in User : v # u => pc'[v] = pc[v]
    BY DEF Step, LetGo, useHandleStorage, useHandleStorageFails, matrixStoreDestroyed,
       closeStorage, destroyStorage, uncache, DatabaseNotOpen, Inv, TypeOK
  <2>2. QED
    BY <1>1, <1>2, <2>1 DEF OneCall, Working
<1>4. OneCall'
  BY <1>3 DEF OneCall, Working
<1>5. \A v \in User : v # u => Holds(v)'
  BY <1>2, <1>3 DEF Holds, Using, Closed, Done
<1>6. Only' /\ Holds(u)'
  <2>1. CASE useHandleStorage(u)
    <3>1. open = {}
      BY <1>2, <2>1 DEF useHandleStorage, Holds, Only, Inv, TypeOK
    <3>2. open' = {made'} /\ handleStorageCache' = made'
      BY <2>1, <3>1 DEF useHandleStorage
    <3>3. pc'[u] = AfterUse(loc[u].op) /\ loc'[u].mine = made'
      BY <2>1 DEF useHandleStorage, Inv, TypeOK, Local
    <3>4. QED
      BY <3>2, <3>3 DEF Holds, Only, Using, Closed, AfterUse
  <2>2. CASE closeStorage(u)
    <3>1. open' = {}
      BY <1>2, <2>2 DEF closeStorage, closeDB, Holds, Using, Only
    <3>2. Closed(u)'
      BY <2>2 DEF closeStorage, Closed, Inv, TypeOK
    <3>3. QED
      BY <3>1, <3>2 DEF Holds, Only, Using, Closed
  <2>3. CASE destroyStorage(u) \/ uncache(u)
    <3>1. open' = {}
      BY <1>2, <2>3 DEF destroyStorage, uncache, Holds, Closed
    <3>2. pc'[u] \in {"uncache", "idle"}
      BY <2>3 DEF destroyStorage, uncache, Inv, TypeOK
    <3>3. QED
      BY <3>1, <3>2 DEF Holds, Only, Using, Closed
  <2>4. CASE matrixStoreDestroyed(u)
    <3>1. Using(u) /\ pc'[u] = "closeStorage"
      BY <2>4 DEF matrixStoreDestroyed, Using, Inv, TypeOK
    <3>2. UNCHANGED <<handleStorageCache, open, loc>>
      BY <2>4 DEF matrixStoreDestroyed
    <3>3. QED
      BY <1>2, <3>1, <3>2 DEF Holds, Only, Using, Closed
  <2>5. CASE useHandleStorageFails(u) \/ LetGo(u)
    <3>1. pc'[u] \in {"rejected", "idle"}
      BY <2>5 DEF useHandleStorageFails, LetGo, Inv, TypeOK
    <3>2. UNCHANGED <<handleStorageCache, open, loc>>
      BY <2>5 DEF useHandleStorageFails, LetGo
    <3>3. QED
      BY <1>2, <3>1, <3>2 DEF Holds, Only, Using, Closed
  <2>6. CASE DatabaseNotOpen(u)
    BY <1>2, <2>6 DEF DatabaseNotOpen, ensureDbOpen, Holds, Using
  <2>7. QED
    BY <2>1, <2>2, <2>3, <2>4, <2>5, <2>6 DEF Step
<1>7. QED
  BY <1>4, <1>5, <1>6

\* Alone holds as long as its name says.
THEOREM AloneInvariant == Spec => []Alone
<1>1. Init => Alone
  BY DEF Init, Alone, OneCall, Only, Holds, Working, Using, Closed, Done
<1>2. Inv /\ Alone /\ [Next]_vars => Alone'
  <2> SUFFICES ASSUME Inv, Alone, [Next]_vars PROVE Alone'
    OBVIOUS
  <2>1. CASE \/ \E u \in User, v \in Value : saveAccessToken(u, v)
             \/ \E u \in User : deleteAccessToken(u)
             \/ deleteDatabase \/ UNCHANGED vars
    <3>1. UNCHANGED <<handleStorageCache, open, pc, loc, overlapped>>
      BY <2>1 DEF saveAccessToken, deleteAccessToken, deleteDatabase, vars
    <3>2. QED
      BY <3>1 DEF Alone, OneCall, Only, Holds, Working, Using, Closed
  <2>2. QED
    BY <2>1, CallAlone, StepAlone DEF Next
<1>3. QED
  BY <1>1, <1>2, StorageInvariant, PTL DEF Spec

\* Until two calls overlap, useHandleStorage opens no connection that
\* closeHandleStorage and deleteHandleStorage do not close.
THEOREM ConnectionsClosed == Spec => []NoLeakedConnection
<1>1. Alone => NoLeakedConnection
  BY DEF Alone, Only, NoLeakedConnection
<1>2. QED
  BY <1>1, AloneInvariant, PTL

\* Until two calls overlap, the storage useHandleStorage hands out is open.
THEOREM HoldersOpen == Spec => []HolderNotClosed
<1>1. Alone => HolderNotClosed
  BY DEF Alone, Holds, HolderNotClosed
<1>2. QED
  BY <1>1, AloneInvariant, PTL
=============================================================================
