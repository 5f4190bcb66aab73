--------------------------- MODULE SessionManager ---------------------------
(***************************************************************************)
(* SessionManager (src/private/data/session/sessionManager.ts) for ONE     *)
(* handle.  Every field of the class is keyed by handleId.toString(), so   *)
(* handles do not share state and one slot is the whole story of a handle. *)
(*                                                                         *)
(* JavaScript runs to completion between two awaits: an action is the code *)
(* between two awaits of one call.  A task is one running call: a Caller   *)
(* runs ensureValidSession (alone or inside getMatrixClient, startSyncing, *)
(* stopSyncing), the Deleter runs deleteSession from outside the per-      *)
(* handle chain (reset, deprovisionHandle).                                *)
(***************************************************************************)
EXTENDS Naturals, Sequences

CONSTANTS
    Caller,            \* calls that go through the per-handle chain
    Deleter,           \* the call to deleteSession made outside the chain
    Ops,               \* what the callers ask for
    DeviceIds,         \* device ids the callers pass: 0 = none, 1 = the app's
    Lifetimes,         \* remaining lifetimes of a token when it arrives
    RefreshThreshold,  \* autoRefreshTokenMinutesBeforeExpiration; 0 = off
    StoreFails,        \* storage operations may reject
    Overlap,           \* what may run while deleteSession does: calls of the
                       \* application ("call"), refresh timeouts ("timer")
    MaxTime, MaxCalls, MaxRestarts

ASSUME SessionAssumption ==
    /\ Deleter \notin Caller
    /\ Ops \subseteq {"ensure", "get", "start", "stop"}
    /\ DeviceIds \subseteq {0, 1}
    /\ Lifetimes \subseteq Nat \ {0}
    /\ RefreshThreshold \in Nat
    /\ StoreFails \in BOOLEAN /\ Overlap \subseteq {"call", "timer"}
    /\ MaxTime \in Nat /\ MaxCalls \in Nat /\ MaxRestarts \in Nat

Task == Caller \cup {Deleter}

VARIABLES
    now,            \* Date.now() in the unit of token expiries
    session,        \* this.sessions[handleId]
    perHandleSessionChain,  \* calls queued behind one another; the head runs
    timerAt,        \* timeouts ever set: id |-> due time, 0 = not pending
    clientToken,    \* accessToken field of every MatrixClientManager made
    syncing,        \* clients between startClient and stopClient
    stored,         \* the persisted 'accessToken' item
    cachedStore,    \* the HandleStorage in the cache, 0 = none
    cryptoDevice,   \* device the rust crypto database belongs to, 0 = none
    provisioned,    \* the handle exists at the service
    pc,             \* where each task is
    loc,            \* local variables of each task
    made            \* how many calls, stores, devices and restarts so far

mem  == <<session, timerAt, clientToken, syncing>>
disk == <<stored, cryptoDevice>>
vars == <<now, mem, perHandleSessionChain, disk, cachedStore, provisioned,
          pc, loc, made>>

-----------------------------------------------------------------------------
(* Types.  Client, timer, store and device 0 stand for "undefined"; device *)
(* 1 is the stable id an application may pass, the others are UUIDs.       *)

Token   == [dev : Nat, exp : Nat]
NoToken == [dev |-> 0, exp |-> 0]

Session   == [accessToken : Token, matrixClient : Nat, refreshTimeout : Nat]
NoSession == [accessToken |-> NoToken, matrixClient |-> 0,
              refreshTimeout |-> 0]

Local == [op : {"ensure", "get", "start", "stop"}, device : Nat,
          cachedSession : Session, store : Nat, token : Token, client : Nat,
          granted : BOOLEAN, deleteStorage : BOOLEAN]
NoLocal == [op |-> "ensure", device |-> 0, cachedSession |-> NoSession,
            store |-> 0, token |-> NoToken, client |-> 0,
            granted |-> FALSE, deleteStorage |-> FALSE]

Settled    == {"idle", "rejected", "typeError"}
Deleting   == {"delOpen", "delToken", "delCrypto", "delClose"}
Creating   == {"open", "read", "fetch", "client"}
Refreshing == {"refresh", "saveOpen", "save"}
Working    == Deleting \cup Creating \cup Refreshing \cup {"persist"}
Label      == Settled \cup Working \cup {"queued", "starting", "delBegin"}

TypeOK ==
    /\ now \in Nat
    /\ session \in Session
    /\ perHandleSessionChain \in Seq(Caller)
    /\ timerAt \in Seq(Nat)
    /\ clientToken \in Seq(Token)
    /\ syncing \subseteq Nat
    /\ stored \in Token /\ cachedStore \in Nat /\ cryptoDevice \in Nat
    /\ provisioned \in BOOLEAN
    /\ pc \in [Task -> Label]
    /\ loc \in [Task -> Local]
    /\ made \in [calls : Nat, stores : Nat, devices : Nat, restarts : Nat]

Init ==
    /\ now = 0
    /\ session = NoSession
    /\ perHandleSessionChain = <<>>
    /\ timerAt = <<>>
    /\ clientToken = <<>>
    /\ syncing = {}
    /\ stored = NoToken /\ cachedStore = 0 /\ cryptoDevice = 0
    /\ provisioned = TRUE
    /\ pc = [t \in Task |-> "idle"]
    /\ loc = [t \in Task |-> NoLocal]
    /\ made = [calls |-> 0, stores |-> 0, devices |-> 1, restarts |-> 0]

-----------------------------------------------------------------------------
(* Token arithmetic and refresh timers.                                    *)

isTokenExpired(exp) == exp <= now

isTokenExpiringSoon(exp) == exp > now /\ exp <= now + RefreshThreshold

isTokenExpiredOrExpiringSoon(exp) ==
    isTokenExpired(exp) \/ isTokenExpiringSoon(exp)

\* Mutant: a timeout is set for a token that is already due.
SchedulesAlways(exp) == RefreshThreshold > 0

\* A timeout is set only if auto-refresh is on and its delay is positive.
SchedulesRefresh(exp) == RefreshThreshold > 0 /\ exp > now + RefreshThreshold

\* The id scheduleTokenRefresh returns; 0 when it returns undefined.
NewTimer(exp) == IF SchedulesRefresh(exp) THEN Len(timerAt) + 1 ELSE 0

\* Mutant: no timeout is set.
NoTimeoutSet(ts, exp) == ts

\* The timeouts after scheduleTokenRefresh(exp) on the timeouts ts.
scheduleTokenRefresh(ts, exp) ==
    IF SchedulesRefresh(exp) THEN Append(ts, exp - RefreshThreshold) ELSE ts

\* Mutant: the timeout stays pending.
TimeoutStays(i) == timerAt

\* The timeouts after clearTimeout(i).
clearTimeout(i) == [j \in DOMAIN timerAt |-> IF j = i THEN 0 ELSE timerAt[j]]

\* Mutant: this.sessions is not assigned.
keepSession(s) == session' = session

setSession(s) == session' = s

\* Mutant: the client goes on with the token it has.
TokenNotUpdated(k, tok) == clientToken

updateAccessToken(k, tok) == [clientToken EXCEPT ![k] = tok]

-----------------------------------------------------------------------------
(* The persisted item and the crypto database.                             *)

\* Mutant: nothing is written.
saveNothing(tok) == stored' = stored

saveAccessToken(tok) == stored' = tok

deleteAccessToken == stored' = NoToken

\* Mutant: the crypto database stays.
keepRustCrypto == cryptoDevice' = cryptoDevice

clearRustCrypto == cryptoDevice' = 0

-----------------------------------------------------------------------------
(* How a call enters and leaves the per-handle chain.                      *)

Goto(t, label) == pc' = [pc EXCEPT ![t] = label]

Enqueue(c, o, d) ==
    /\ pc[c] \in Settled
    /\ made.calls < MaxCalls
    /\ perHandleSessionChain' = Append(perHandleSessionChain, c)
    /\ Goto(c, "queued")
    /\ loc' = [loc EXCEPT ![c] = [NoLocal EXCEPT !.op = o, !.device = d]]
    /\ made' = [made EXCEPT !.calls = @ + 1]

\* Both handlers of run.then() let the next call of the chain begin.
LeaveChain(c, label) ==
    /\ perHandleSessionChain' = Tail(perHandleSessionChain)
    /\ Goto(c, label)
    /\ loc' = [loc EXCEPT ![c] = NoLocal]

\* Mutant: only the fulfilment handler frees the chain.
RejectKeepsChain(c) ==
    /\ Goto(c, "rejected")
    /\ loc' = [loc EXCEPT ![c] = NoLocal]
    /\ UNCHANGED <<syncing, perHandleSessionChain>>

Reject(c) == LeaveChain(c, "rejected") /\ UNCHANGED syncing

\* ensureValidSession fulfils; getMatrixClient then dereferences
\* this.sessions[handleId] and hands the client to its caller.
Resolve(c) ==
    \/ /\ loc[c].op = "ensure"
       /\ LeaveChain(c, "idle") /\ UNCHANGED syncing
    \/ /\ loc[c].op # "ensure" /\ session = NoSession
       /\ LeaveChain(c, "typeError") /\ UNCHANGED syncing
    \/ /\ loc[c].op = "get" /\ session # NoSession
       /\ LeaveChain(c, "idle") /\ UNCHANGED syncing
    \/ /\ loc[c].op = "stop" /\ session # NoSession
       /\ LeaveChain(c, "idle") /\ syncing' = syncing \ {session.matrixClient}
    \/ /\ loc[c].op = "start" /\ session # NoSession
       /\ perHandleSessionChain' = Tail(perHandleSessionChain)
       /\ Goto(c, "starting")
       /\ loc' = [loc EXCEPT ![c] = [NoLocal EXCEPT !.client = session.matrixClient]]
       /\ UNCHANGED syncing

\* A public operation of a module, isReady, startSyncing or stopSyncing.
Call(c, o, d) ==
    /\ "call" \in Overlap \/ pc[Deleter] \in Settled
    /\ Enqueue(c, o, d)
    /\ UNCHANGED <<now, mem, disk, cachedStore, provisioned>>

\* provisionHandle ends in ensureValidSession (what it awaits before, the
\* check of the name and the creation at the service, keeps no state here);
\* every other operation begins with getMatrixClient.
ProvisionHandle(c) == "ensure" \in Ops /\ \E d \in DeviceIds : Call(c, "ensure", d)
GetClient(c)       == \E o \in Ops \ {"ensure"}, d \in DeviceIds : Call(c, o, d)

\* A refresh timeout calls ensureValidSession without a device id.
FireTimer(c, i) ==
    /\ timerAt[i] # 0 /\ timerAt[i] <= now
    /\ "timer" \in Overlap \/ pc[Deleter] \in Settled
    /\ Enqueue(c, "ensure", 0)
    /\ timerAt' = clearTimeout(i)
    /\ UNCHANGED <<now, session, clientToken, syncing, disk, cachedStore,
                   provisioned>>

\* matrixClient.startSyncing() awaits isSlidingSyncSupported, then starts
\* the client; a failure is only logged.
StartSyncing(c) ==
    /\ pc[c] = "starting"
    /\ syncing' \in {syncing, syncing \cup {loc[c].client}}
    /\ Goto(c, "idle")
    /\ loc' = [loc EXCEPT ![c] = NoLocal]
    /\ UNCHANGED <<now, session, timerAt, clientToken, perHandleSessionChain,
                   disk, cachedStore, provisioned, made>>

-----------------------------------------------------------------------------
(* deleteSession.                                                          *)

\* With a session: clear its timeout, stop its client, go on to storage.
DeleteBegin(t) ==
    /\ session # NoSession
    /\ timerAt' = clearTimeout(session.refreshTimeout)
    /\ syncing' = syncing \ {session.matrixClient}
    /\ Goto(t, "delOpen")
    /\ UNCHANGED <<session, clientToken, perHandleSessionChain>>

\* deleteSession rejects: the session object stays where it is.
DeleteThrows(t) ==
    \/ t \in Caller /\ Reject(t)
    \/ /\ t = Deleter
       /\ Goto(t, "rejected")
       /\ loc' = [loc EXCEPT ![t] = NoLocal]
       /\ UNCHANGED <<perHandleSessionChain, syncing>>

\* reset() and deprovisionHandle(): the second removes the handle at the
\* service first and asks for the storage to be purged.
Delete(purge) ==
    /\ pc[Deleter] \in Settled
    /\ made.calls < MaxCalls
    /\ "call" \in Overlap \/ \A c \in Caller : pc[c] \in Settled
    /\ purge => provisioned
    /\ provisioned' = (provisioned /\ ~purge)
    /\ Goto(Deleter, "delBegin")
    /\ loc' = [loc EXCEPT ![Deleter] = [NoLocal EXCEPT !.deleteStorage = purge]]
    /\ made' = [made EXCEPT !.calls = @ + 1]
    /\ UNCHANGED <<now, mem, perHandleSessionChain, disk, cachedStore>>

Reset             == Delete(FALSE)
DeprovisionHandle == Delete(TRUE)

DeleterBegins ==
    /\ pc[Deleter] = "delBegin"
    /\ \/ DeleteBegin(Deleter) /\ UNCHANGED loc
       \/ /\ session = NoSession
          /\ Goto(Deleter, "idle")
          /\ loc' = [loc EXCEPT ![Deleter] = NoLocal]
          /\ UNCHANGED <<mem, perHandleSessionChain>>
    /\ UNCHANGED <<now, disk, cachedStore, provisioned, made>>

\* The object a task holds works while its database is open: closing the
\* storage of the handle closes it, and the next open makes another one.
StoreIsOpen(t) == loc[t].store = cachedStore

DeleteToken(t) ==
    /\ pc[t] = "delToken" /\ StoreIsOpen(t)
    /\ deleteAccessToken
    /\ Goto(t, IF loc[t].deleteStorage THEN "delCrypto" ELSE "delClose")
    /\ UNCHANGED <<now, mem, perHandleSessionChain, cryptoDevice, cachedStore,
                   provisioned, loc, made>>

ClearRustCrypto(t) ==
    /\ pc[t] = "delCrypto"
    /\ clearRustCrypto
    /\ Goto(t, "delClose")
    /\ UNCHANGED <<now, mem, perHandleSessionChain, stored, cachedStore,
                   provisioned, loc, made>>

\* closeHandleStorage or deleteHandleStorage, then the session is dropped:
\* whatever this.sessions holds by now, not the session read at the start.
CloseStorage(t) ==
    /\ pc[t] = "delClose"
    /\ stored' = IF loc[t].deleteStorage THEN NoToken ELSE stored
    /\ cachedStore' = 0
    /\ session' = NoSession
    /\ Goto(t, IF t = Deleter THEN "idle" ELSE "open")
    /\ loc' = [loc EXCEPT ![t] = IF t = Deleter THEN NoLocal ELSE @]
    /\ UNCHANGED <<now, timerAt, clientToken, syncing, perHandleSessionChain,
                   cryptoDevice, provisioned, made>>

DeleteFails(t) ==
    /\ \/ pc[t] = "delToken" /\ ~StoreIsOpen(t)
       \/ pc[t] \in {"delToken", "delCrypto", "delClose"} /\ StoreFails
    /\ DeleteThrows(t)
    /\ UNCHANGED <<now, session, timerAt, clientToken, disk, cachedStore,
                   provisioned, made>>

-----------------------------------------------------------------------------
(* storageModule.useHandleStorage: the cached object, or a new one.  It is *)
(* awaited by deleteSession, by the refresh of a token and by the creation *)
(* of a session.                                                           *)

Opening == {"delOpen", "saveOpen", "open"}

AfterOpen(label) == CASE label = "delOpen"  -> "delToken"
                      [] label = "saveOpen" -> "save"
                      [] label = "open"     -> "read"

UseHandleStorage(t) ==
    /\ pc[t] \in Opening
    /\ cachedStore' = IF cachedStore # 0 THEN cachedStore ELSE made.stores + 1
    /\ made' = [made EXCEPT !.stores = IF cachedStore # 0 THEN @ ELSE @ + 1]
    /\ loc' = [loc EXCEPT ![t].store = cachedStore']
    /\ Goto(t, AfterOpen(pc[t]))
    /\ UNCHANGED <<now, mem, perHandleSessionChain, disk, provisioned>>

-----------------------------------------------------------------------------
(* ensureValidSessionBody on a cached session.                             *)

\* Mutant: work starts without waiting for the calls queued before it.
Unserialized(c) == pc[c] = "queued"

AtHead(c) ==
    /\ pc[c] = "queued"
    /\ perHandleSessionChain # <<>>
    /\ c = Head(perHandleSessionChain)

UseCachedSession(c) ==
    /\ AtHead(c) /\ session # NoSession
    /\ ~isTokenExpiredOrExpiringSoon(session.accessToken.exp)
    /\ clientToken[session.matrixClient] = session.accessToken
    /\ Resolve(c)
    /\ UNCHANGED <<now, session, timerAt, clientToken, disk, cachedStore,
                   provisioned, made>>

handleExpiredToken(c) ==
    /\ AtHead(c) /\ session # NoSession
    /\ isTokenExpired(session.accessToken.exp)
    /\ DeleteBegin(c)
    /\ UNCHANGED <<now, disk, cachedStore, provisioned, loc, made>>

\* The service is asked for a new token for the device of the old one.
RequestRefresh(c) ==
    /\ AtHead(c) /\ session # NoSession
    /\ ~isTokenExpired(session.accessToken.exp)
    /\ \/ isTokenExpiringSoon(session.accessToken.exp)
       \/ clientToken[session.matrixClient] # session.accessToken
    /\ loc' = [loc EXCEPT ![c] = [@ EXCEPT !.cachedSession = session,
                                           !.granted = provisioned]]
    /\ Goto(c, "refresh")
    /\ UNCHANGED <<now, mem, perHandleSessionChain, disk, cachedStore,
                   provisioned, made>>

\* The new token arrives: everything up to useHandleStorage is one turn.
refreshCachedSessionToken(c, life) ==
    LET old == loc[c].cachedSession
        tok == [dev |-> old.accessToken.dev, exp |-> now + life] IN
    /\ pc[c] = "refresh" /\ loc[c].granted
    /\ timerAt' = scheduleTokenRefresh(clearTimeout(old.refreshTimeout), tok.exp)
    /\ clientToken' = updateAccessToken(old.matrixClient, tok)
    /\ setSession([old EXCEPT !.accessToken = tok,
                              !.refreshTimeout = NewTimer(tok.exp)])
    /\ loc' = [loc EXCEPT ![c].token = tok]
    /\ Goto(c, "saveOpen")
    /\ UNCHANGED <<now, syncing, perHandleSessionChain, disk, cachedStore,
                   provisioned, made>>

SaveRefreshed(c) ==
    /\ pc[c] = "save" /\ StoreIsOpen(c)
    /\ saveAccessToken(loc[c].token)
    /\ Resolve(c)
    /\ UNCHANGED <<now, session, timerAt, clientToken, cryptoDevice,
                   cachedStore, provisioned, made>>

\* The catch block: the service or the storage failed, the session goes and
\* a new one is created by the same call.
RefreshFails(c) ==
    /\ \/ pc[c] = "refresh"
       \/ pc[c] = "save" /\ (StoreFails \/ ~StoreIsOpen(c))
       \/ pc[c] = "saveOpen" /\ StoreFails /\ cachedStore = 0
    /\ \/ DeleteBegin(c)
       \/ /\ session = NoSession
          /\ Goto(c, "open")
          /\ UNCHANGED <<mem, perHandleSessionChain>>
    /\ UNCHANGED <<now, disk, cachedStore, provisioned, loc, made>>

-----------------------------------------------------------------------------
(* createNewSession.                                                       *)

BeginCreate(c) ==
    /\ AtHead(c) /\ session = NoSession
    /\ Goto(c, "open")
    /\ UNCHANGED <<now, mem, perHandleSessionChain, disk, cachedStore,
                   provisioned, loc, made>>

\* A stored token that is neither expired nor about to is used as it is.
UseStoredToken(c) ==
    /\ pc[c] = "read" /\ StoreIsOpen(c)
    /\ stored # NoToken /\ ~isTokenExpiredOrExpiringSoon(stored.exp)
    /\ loc' = [loc EXCEPT ![c].token = stored]
    /\ Goto(c, "client")
    /\ UNCHANGED <<now, mem, perHandleSessionChain, disk, cachedStore,
                   provisioned, made>>

\* storedToken?.deviceId ?? deviceIdIfNoStoredSession ?? v4()
DeviceForService(c) ==
    IF stored # NoToken THEN stored.dev
    ELSE IF loc[c].device # 0 THEN loc[c].device
    ELSE made.devices + 1

RequestToken(c) ==
    /\ pc[c] = "read" /\ StoreIsOpen(c)
    /\ stored = NoToken \/ isTokenExpiredOrExpiringSoon(stored.exp)
    /\ loc' = [loc EXCEPT ![c] = [@ EXCEPT !.device = DeviceForService(c),
                                           !.granted = provisioned]]
    /\ made' = [made EXCEPT !.devices = IF DeviceForService(c) > @ THEN @ + 1 ELSE @]
    /\ Goto(c, "fetch")
    /\ UNCHANGED <<now, mem, perHandleSessionChain, disk, cachedStore,
                   provisioned>>

ReceiveToken(c, life) ==
    /\ pc[c] = "fetch" /\ loc[c].granted
    /\ loc' = [loc EXCEPT ![c].token = [dev |-> loc[c].device, exp |-> now + life]]
    /\ Goto(c, "client")
    /\ UNCHANGED <<now, mem, perHandleSessionChain, disk, cachedStore,
                   provisioned, made>>

\* createMatrixClient (a crypto database of another device is deleted and
\* made anew), then the timeout and the session object.
CreateMatrixClient(c) ==
    /\ pc[c] = "client"
    /\ cryptoDevice' = loc[c].token.dev
    /\ clientToken' = Append(clientToken, loc[c].token)
    /\ timerAt' = scheduleTokenRefresh(timerAt, loc[c].token.exp)
    /\ setSession([accessToken |-> loc[c].token,
                   matrixClient |-> Len(clientToken) + 1,
                   refreshTimeout |-> NewTimer(loc[c].token.exp)])
    /\ Goto(c, "persist")
    /\ UNCHANGED <<now, syncing, perHandleSessionChain, stored, cachedStore,
                   provisioned, loc, made>>

PersistToken(c) ==
    /\ pc[c] = "persist" /\ StoreIsOpen(c)
    /\ saveAccessToken(loc[c].token)
    /\ Resolve(c)
    /\ UNCHANGED <<now, session, timerAt, clientToken, cryptoDevice,
                   cachedStore, provisioned, made>>

\* Any step of createNewSession rejects the call.  A failed second attempt
\* at initRustCrypto leaves the crypto database deleted.
CreateFails(c) ==
    /\ \/ pc[c] = "open" /\ StoreFails /\ cachedStore = 0
       \/ pc[c] \in {"read", "persist"} /\ (StoreFails \/ ~StoreIsOpen(c))
       \/ pc[c] = "fetch"
       \/ pc[c] = "client" /\ StoreFails
    /\ \/ cryptoDevice' = cryptoDevice
       \/ pc[c] = "client" /\ cryptoDevice' = 0
    /\ Reject(c)
    /\ UNCHANGED <<now, session, timerAt, clientToken, stored, cachedStore,
                   provisioned, made>>

\* deleteSession's own useHandleStorage rejects.
DeleteOpenFails(t) ==
    /\ pc[t] = "delOpen" /\ StoreFails /\ cachedStore = 0
    /\ DeleteThrows(t)
    /\ UNCHANGED <<now, session, timerAt, clientToken, disk, cachedStore,
                   provisioned, made>>

-----------------------------------------------------------------------------
Tick ==
    /\ now < MaxTime
    /\ now' = now + 1
    /\ UNCHANGED <<mem, perHandleSessionChain, disk, cachedStore, provisioned,
                   pc, loc, made>>

\* The process ends and starts again: only the two databases survive.
Restart ==
    /\ made.restarts < MaxRestarts
    /\ made' = [made EXCEPT !.restarts = @ + 1]
    /\ session' = NoSession
    /\ perHandleSessionChain' = <<>>
    /\ timerAt' = [i \in DOMAIN timerAt |-> 0]
    /\ syncing' = {}
    /\ cachedStore' = 0
    /\ pc' = [t \in Task |-> "idle"]
    /\ loc' = [t \in Task |-> NoLocal]
    /\ UNCHANGED <<now, clientToken, disk, provisioned>>

\* What the event loop does for a task once it has been called.
DeleteStep(t) ==
    \/ UseHandleStorage(t) \/ DeleteToken(t) \/ ClearRustCrypto(t)
    \/ CloseStorage(t) \/ DeleteFails(t) \/ DeleteOpenFails(t)

SessionStep(c) ==
    \/ UseCachedSession(c) \/ handleExpiredToken(c) \/ RequestRefresh(c)
    \/ \E life \in Lifetimes : refreshCachedSessionToken(c, life)
    \/ SaveRefreshed(c) \/ RefreshFails(c)
    \/ BeginCreate(c) \/ UseStoredToken(c) \/ RequestToken(c)
    \/ \E life \in Lifetimes : ReceiveToken(c, life)
    \/ CreateMatrixClient(c) \/ PersistToken(c) \/ CreateFails(c)
    \/ StartSyncing(c)

CallerStep(c) == SessionStep(c) \/ DeleteStep(c)
DeleterStep   == DeleterBegins \/ DeleteStep(Deleter)

Environment ==
    \/ \E c \in Caller : ProvisionHandle(c) \/ GetClient(c)
    \/ \E c \in Caller : \E i \in DOMAIN timerAt : FireTimer(c, i)
    \/ Reset \/ DeprovisionHandle
    \/ Tick
    \/ Restart

Next == Environment \/ DeleterStep \/ \E c \in Caller : CallerStep(c)

Spec == Init /\ [][Next]_vars

\* Every promise the code awaits is settled one day, with a result or an
\* error, and the event loop then runs the continuation.
FairSpec ==
    /\ Spec
    /\ \A c \in Caller : WF_vars(CallerStep(c))
    /\ WF_vars(DeleterStep)

-----------------------------------------------------------------------------
(* Properties that hold whatever overlaps and whatever fails.              *)

\* The comment on perHandleSessionChain: session work of a handle is
\* serialized.  A call waits in the chain exactly once until it settles, and
\* only the call at the head is anywhere past its start.
ChainSerialises ==
    LET chain == perHandleSessionChain IN
    /\ \A i, j \in DOMAIN chain : chain[i] = chain[j] => i = j
    /\ \A i \in DOMAIN chain : pc[chain[i]] \in Working \cup {"queued"}
    /\ \A i \in DOMAIN chain : i > 1 => pc[chain[i]] = "queued"
    /\ \A c \in Caller : pc[c] \in Working \cup {"queued"}
                            => \E i \in DOMAIN chain : chain[i] = c

\* "overlapping getMatrixClient / ensureValidSession cannot create duplicate
\* sessions" (runSessionWorkSerialized): no step puts another client in the
\* place of the client of a session that is still there, even while
\* deleteSession runs outside the chain.
NoDoubleCreate ==
    [][ session # NoSession /\ session' # NoSession
          => session'.matrixClient = session.matrixClient ]_vars

\* tryUseCachedSession's isUsingToken test: the client of the session never
\* sends another token than the one the session is judged valid by.
ClientUsesCachedToken ==
    session # NoSession =>
        /\ session.matrixClient \in DOMAIN clientToken
        /\ clientToken[session.matrixClient] = session.accessToken

\* What the two properties above rest on: a call creates a session only
\* while there is none, and a refresh in flight still finds the session it
\* started from, or none.
SessionOwned ==
    \A c \in Caller :
        /\ pc[c] \in Creating => session = NoSession
        /\ pc[c] = "refresh" =>
              /\ loc[c].cachedSession.matrixClient \in DOMAIN clientToken
              /\ session \in {NoSession, loc[c].cachedSession}

\* Every call on the chain is settled one day: a rejected call does not hold
\* up the ones behind it (the second handler of run.then).
CallsSettle == \A c \in Caller : pc[c] = "queued" ~> pc[c] \in Settled

-----------------------------------------------------------------------------
(* Properties of an application that awaits its calls before it calls      *)
(* reset or deprovisionHandle, when storage works and no refresh falls due *)
(* while the session is deleted.                                           *)

Quiescent == \A t \in Task : pc[t] \in Settled

\* No timeout outlives its session: every pending timeout is the one that
\* deleteSession or the next refresh will clear.
NoLeakedTimer ==
    \A i \in DOMAIN timerAt : timerAt[i] # 0 => i = session.refreshTimeout

\* A session whose token is not yet due for refresh has its timeout pending
\* at expiry minus the threshold, so that the token is renewed in time.
RefreshArmed ==
    LET exp == session.accessToken.exp
        i   == session.refreshTimeout IN
    ( /\ session # NoSession /\ RefreshThreshold > 0
      /\ ~isTokenExpiredOrExpiringSoon(exp)
      /\ \A t \in Task : pc[t] \notin Deleting )
    => i \in DOMAIN timerAt /\ timerAt[i] = exp - RefreshThreshold

\* Between calls, the persisted token is the token of the session, so a
\* restart resumes the same device ("Store session for future reloads").
PersistedWhenIdle ==
    Quiescent /\ session # NoSession => stored = session.accessToken

\* getMatrixClient's non-null assertion: a call that was told its session is
\* valid finds it.
GetMatrixClientFindsSession == \A c \in Caller : pc[c] # "typeError"

\* When deprovisionHandle has gone through deleteSession(id, true) without
\* a restart in between, neither a token nor a crypto database nor a session
\* or a timeout is left.
DeprovisionLeavesNothing ==
    [][ ( /\ pc[Deleter] \in Deleting /\ pc'[Deleter] = "idle"
          /\ loc[Deleter].deleteStorage /\ made'.restarts = made.restarts )
          => /\ stored' = NoToken /\ cryptoDevice' = 0
             /\ session' = NoSession
             /\ \A i \in DOMAIN timerAt' : timerAt'[i] = 0 ]_vars

-----------------------------------------------------------------------------
(* The abstract specification that the session manager implements.         *)

Slot == INSTANCE SessionSlot
    WITH client  <- session.matrixClient,
         token   <- session.accessToken,
         opened  <- Len(clientToken),
         Revives <- Overlap # {}

\* Whatever the chain, the timeouts, storage failures and restarts do, the
\* session of a handle behaves as one slot: a client enters it only when it
\* is empty, a client that left it does not come back (unless deleteSession
\* overlaps a refresh), and a renewed token is for the device of the client.
ImplementsSlot == Slot!Spec
=============================================================================
