---------------------------- MODULE HandleStorage ----------------------------
(***************************************************************************)
(* DefaultStorageModule (public/modules/storageModule.ts) over the         *)
(* IndexedDB provider, for one handle: the cache of HandleStorage objects, *)
(* the connections of their providers and the persisted item.  The module  *)
(* is public, so besides SessionManager the application may call it too.   *)
(*                                                                         *)
(* IndexedDB itself is external: an open waits for a pending deletion that *)
(* was requested before it, and a deletion waits until every connection to *)
(* the database is closed.                                                 *)
(***************************************************************************)
EXTENDS Naturals

CONSTANTS
    User,         \* concurrent calls into the storage module
    Value,        \* values the item may have
    None,         \* the item is absent
    OpenFails,    \* useStorageProvider may reject
    MaxProviders

ASSUME StorageAssumption ==
    /\ None \notin Value
    /\ OpenFails \in BOOLEAN
    /\ MaxProviders \in Nat

VARIABLES
    handleStorageCache,  \* the cached HandleStorage, 0 = none
    made,                \* providers constructed so far
    open,                \* providers whose db field is set
    item,                \* the stored value
    purging,             \* a deleteDatabase request is pending
    overlapped,          \* history: a call began while another was under way
    pc,
    loc                  \* the call's op, its storage and whether its open
                         \* request came before the pending deletion

vars == <<handleStorageCache, made, open, item, purging, overlapped,
          pc, loc>>

Op    == {"use", "close", "delete"}
Local == [op : Op, mine : Nat, early : BOOLEAN]
Label == {"idle", "opening", "holding", "destroyMatrixStore", "closeStorage",
          "destroyStorage", "uncache", "rejected", "notOpen"}

TypeOK ==
    /\ handleStorageCache \in 0..made
    /\ made \in Nat
    /\ open \subseteq 1..made
    /\ item \in Value \cup {None}
    /\ purging \in BOOLEAN /\ overlapped \in BOOLEAN
    /\ pc \in [User -> Label]
    /\ loc \in [User -> Local]

Init ==
    /\ handleStorageCache = 0
    /\ made = 0
    /\ open = {}
    /\ item = None
    /\ purging = FALSE
    /\ overlapped = FALSE
    /\ pc = [u \in User |-> "idle"]
    /\ loc = [u \in User |-> [op |-> "use", mine |-> 0, early |-> FALSE]]

Done == {"idle", "rejected", "notOpen"}

\* What follows useHandleStorage in each of the three operations.
AfterUse(op) == IF op = "use" THEN "holding" ELSE "destroyMatrixStore"

-----------------------------------------------------------------------------
\* useHandleStorage finds the handle in the cache: no await.
UseCached(u, op) ==
    /\ handleStorageCache # 0
    /\ loc' = [loc EXCEPT ![u] = [op |-> op, mine |-> handleStorageCache,
                                  early |-> FALSE]]
    /\ pc' = [pc EXCEPT ![u] = AfterUse(op)]

\* It is not there: storageProviderFactory.useStorageProvider is awaited.
RequestOpen(u, op) ==
    /\ handleStorageCache = 0
    /\ loc' = [loc EXCEPT ![u] = [op |-> op, mine |-> 0, early |-> ~purging]]
    /\ pc' = [pc EXCEPT ![u] = "opening"]

Call(u, op) ==
    /\ pc[u] \in Done
    /\ UseCached(u, op) \/ RequestOpen(u, op)
    /\ overlapped' = (overlapped \/ \E v \in User : pc[v] \notin Done)
    /\ UNCHANGED <<handleStorageCache, made, open, item, purging>>

\* The connection is there: a new HandleStorage is cached, whatever the
\* cache holds by now.
useHandleStorage(u) ==
    /\ pc[u] = "opening"
    /\ ~purging \/ loc[u].early
    /\ made < MaxProviders
    /\ made' = made + 1
    /\ open' = open \cup {made'}
    /\ handleStorageCache' = made'
    /\ loc' = [loc EXCEPT ![u].mine = made']
    /\ pc' = [pc EXCEPT ![u] = AfterUse(loc[u].op)]
    /\ UNCHANGED <<item, purging, overlapped>>

useHandleStorageFails(u) ==
    /\ pc[u] = "opening" /\ OpenFails
    /\ pc' = [pc EXCEPT ![u] = "rejected"]
    /\ UNCHANGED <<handleStorageCache, made, open, item, purging, loc, overlapped>>

-----------------------------------------------------------------------------
(* A user of the storage reads and writes the item, then lets go of it.    *)

ensureDbOpen(u) == loc[u].mine \in open

saveAccessToken(u, v) ==
    /\ pc[u] = "holding" /\ ensureDbOpen(u)
    /\ item' = v
    /\ UNCHANGED <<handleStorageCache, made, open, purging, pc, loc, overlapped>>

deleteAccessToken(u) ==
    /\ pc[u] = "holding" /\ ensureDbOpen(u)
    /\ item' = None
    /\ UNCHANGED <<handleStorageCache, made, open, purging, pc, loc, overlapped>>

DatabaseNotOpen(u) ==
    /\ pc[u] = "holding" /\ ~ensureDbOpen(u)
    /\ pc' = [pc EXCEPT ![u] = "notOpen"]
    /\ UNCHANGED <<handleStorageCache, made, open, item, purging, loc, overlapped>>

LetGo(u) ==
    /\ pc[u] = "holding"
    /\ pc' = [pc EXCEPT ![u] = "idle"]
    /\ UNCHANGED <<handleStorageCache, made, open, item, purging, loc, overlapped>>

-----------------------------------------------------------------------------
(* closeHandleStorage and deleteHandleStorage.                             *)

matrixStoreDestroyed(u) ==
    /\ pc[u] = "destroyMatrixStore"
    /\ pc' = [pc EXCEPT ![u] = "closeStorage"]
    /\ UNCHANGED <<handleStorageCache, made, open, item, purging, loc, overlapped>>

\* Mutant: the connection stays open.
keepDB(p) == open' = open

closeDB(p) == open' = open \ {p}

closeStorage(u) ==
    /\ pc[u] = "closeStorage"
    /\ closeDB(loc[u].mine)
    /\ pc' = [pc EXCEPT ![u] = IF loc[u].op = "delete" THEN "destroyStorage"
                               ELSE "uncache"]
    /\ UNCHANGED <<handleStorageCache, made, item, purging, loc, overlapped>>

\* indexedDB.deleteDatabase is called and not awaited.
destroyStorage(u) ==
    /\ pc[u] = "destroyStorage"
    /\ purging' = TRUE
    /\ pc' = [pc EXCEPT ![u] = "uncache"]
    /\ UNCHANGED <<handleStorageCache, made, open, item, loc, overlapped>>

\* Mutant: the closed storage stays in the cache.
keepCached(u) ==
    /\ pc[u] = "uncache"
    /\ pc' = [pc EXCEPT ![u] = "idle"]
    /\ UNCHANGED <<handleStorageCache, made, open, item, purging, loc, overlapped>>

uncache(u) ==
    /\ pc[u] = "uncache"
    /\ handleStorageCache' = 0
    /\ pc' = [pc EXCEPT ![u] = "idle"]
    /\ UNCHANGED <<made, open, item, purging, loc, overlapped>>

\* IndexedDB deletes the database once nobody is connected to it and the
\* opens requested before the deletion have been served.
deleteDatabase ==
    /\ purging /\ open = {}
    /\ ~ \E u \in User : pc[u] = "opening" /\ loc[u].early
    /\ item' = None
    /\ purging' = FALSE
    /\ UNCHANGED <<handleStorageCache, made, open, pc, loc, overlapped>>

-----------------------------------------------------------------------------
Step(u) ==
    \/ useHandleStorage(u) \/ useHandleStorageFails(u)
    \/ matrixStoreDestroyed(u) \/ closeStorage(u) \/ destroyStorage(u)
    \/ uncache(u) \/ DatabaseNotOpen(u)

Next ==
    \/ \E u \in User, op \in Op : Call(u, op)
    \/ \E u \in User, v \in Value : saveAccessToken(u, v)
    \/ \E u \in User : deleteAccessToken(u) \/ LetGo(u) \/ Step(u)
    \/ deleteDatabase

Spec == Init /\ [][Next]_vars

\* IndexedDB answers, and the event loop runs every continuation.
FairSpec ==
    /\ Spec
    /\ \A u \in User : WF_vars(Step(u))
    /\ WF_vars(deleteDatabase)

-----------------------------------------------------------------------------
(* A property that holds whatever overlaps.                                *)

\* A storage whose database has been closed is not handed out for good: it is
\* in the cache only until the call that closed it has removed it, even when
\* several calls use, close and delete the storage of the handle at once.
ClosedIsUncached ==
    handleStorageCache # 0 /\ handleStorageCache \notin open
      => \E u \in User : /\ loc[u].mine = handleStorageCache
                         /\ pc[u] \in {"destroyStorage", "uncache"}

-----------------------------------------------------------------------------
(* Properties that hold as long as no two calls have overlapped.           *)

\* Nothing but the cached storage keeps a connection: what useHandleStorage
\* opened is what closeHandleStorage and deleteHandleStorage close.
NoLeakedConnection == ~overlapped => open \subseteq {handleStorageCache}

\* A storage handed out by useHandleStorage can be used: its database is not
\* closed ("database not open" of ensureDbOpen).
HolderNotClosed == ~overlapped => \A u \in User : pc[u] # "notOpen"

\* deleteHandleStorage: "any data is purged from storage".  The deletion it
\* requests without awaiting is carried out, since nothing blocks it.
PurgeCompletes == purging ~> (~purging \/ overlapped)

=============================================================================
