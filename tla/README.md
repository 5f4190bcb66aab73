# A TLA+ model of the Secure Communications SDK

This directory specifies, model-checks and proves properties of
`sudo-secure-communications-js`, a TypeScript SDK that gives applications
end-to-end encrypted direct chats, groups and channels over a Matrix home
server. Source paths below are relative to the repository root (`src/...`).

## 1. Inventory

| Component | State it keeps | Operations | What makes it correct |
|---|---|---|---|
| Session manager (`src/private/data/session/sessionManager.ts`) | per handle: the session (access token, matrix client, refresh timeout), the chain of queued calls | `ensureValidSession`, `getMatrixClient`, `deleteSession`, `reset`, token refresh timeouts | one session and one client per handle, the client uses the session's token, tokens renewed in time, nothing left after deletion |
| Handle storage (`src/public/modules/storageModule.ts`, `src/private/data/storage/`) | cache of `HandleStorage` objects, IndexedDB connections, the stored token | `useHandleStorage`, `closeHandleStorage`, `deleteHandleStorage` | what is handed out is open, what is opened is closed, deletion happens |
| Direct chats (`src/private/data/directChats/`) | account data `m.direct` and `m.ignored_user_list`, at the server and in the client's cache; room memberships | create, accept, decline, list, block, unblock | no invitation or joined chat is hidden, one chat per peer, blocks last |
| Groups and channels (`src/private/data/rooms/`, `groups/`, `channels/`, their use cases) | memberships and power levels, at the server and cached by each handle | create, update, delete, invite, knock, join, leave, kick, ban, unban, role changes, lists | roles and permissions survive updates and are told as enforced, invitations reach everybody, deletion removes everybody |
| Sliding sync and room cache (`src/private/data/common/matrixClientManager.ts`) | list window, room subscriptions, listeners, rooms the client has | start and stop syncing, `getRoom`, `joinRoom`, `waitForRoomInLocalCache` | the window reaches every room, waiting ends, listeners are removed |
| Messaging (`src/private/data/messaging/`, `messagingModule.ts`) | timeline, pins, receipts, unread marks, reactions, polls, page tokens | send, reply, thread, media, edit, delete, react, pin, read, poll, list | read-modify-write on cached state keeps what was asked, pages are complete, tallies count last votes, readers agree |
| Message listeners (`messagingModule.ts`) | two maps of listeners, event listeners on the client | register, unregister | every registered listener hears an event exactly once |
| Notifications (`src/private/data/notifications/`) | push rules at the server | get and set defaults, events, recipients | a setting spread over several rules is read back and honoured |
| Security (`src/private/data/security/`) | key backup at the server, backup key on the device | create, rotate, reset, recover; verification, which keeps nothing here | the key that was handed out opens the backup |
| Media (`src/private/data/media/`) | credential cache | upload, download | credentials are asked for when needed |
| Handles (`src/public/modules/handlesModule.ts`) | none of its own | provision, deprovision, update, list | through the session manager |
| Service clients, error mapping, generated GraphQL code (`src/gen/`) | none | one request each | — |

Interaction: every public operation first awaits `getMatrixClient` of the
session manager, which awaits handle storage and the service; the component
then awaits requests of the matrix client and reads its cache, which a
background sync brings up to date. There is one thread; what makes the system
hard is that everything may happen between two awaits: other calls of the
application, other handles and devices, refresh timeouts, sync responses,
failing requests, and the end of the process. `PROJECT.json` lists the hazards
at their lines.

## 2. Modules

An action is the code of one call between two awaits; JavaScript runs to
completion between them, so this granularity is the program's own. Where a
call is a plain sequence of requests, the call holds the list of those still
to be made (`todo`, `rest`) and one action serves each kind of request.
Operators that only compute (roles, tallies, edits) are named after the method
they come from. Operators whose comment begins with `Mutant:` are wrong
variants of the definition below them, kept to show that the properties
notice; nothing refers to them.

### SessionManager and SessionSlot

One handle: all fields of the class are keyed by handle, so handles do not
share state. State: `session` (`this.sessions[handleId]`),
`perHandleSessionChain` (the calls chained by promises, the head runs),
`timerAt` (all timeouts set so far), `clientToken` (the token of each
`MatrixClientManager`), `syncing`, `stored` (persisted token), `cachedStore`,
`cryptoDevice` (the device of the rust crypto database), `provisioned`.

| Action | Code |
|---|---|
| `Call`, `FireTimer` | a public operation or a timeout enters `runSessionWorkSerialized` |
| `UseCachedSession`, `handleExpiredToken`, `RequestRefresh` | `tryUseCachedSession`'s three ways |
| `refreshCachedSessionToken`, `SaveRefreshed`, `RefreshFails` | the refresh and its catch block |
| `BeginCreate` .. `PersistToken`, `CreateFails` | `createNewSession`, `getAccessTokenFromStorageOrService`, `createMatrixClient` |
| `Delete`, `DeleterBegins`, `DeleteToken`, `ClearRustCrypto`, `CloseStorage`, `DeleteFails`, `DeleteOpenFails` | `reset`/`deprovisionHandle` and `deleteSession`; the same steps run inside the chain when a token expired or its refresh failed |
| `UseHandleStorage` | the three places that await `useHandleStorage` |
| `Resolve`, `StartSyncing` | what `getMatrixClient`, `startSyncing` and `stopSyncing` do with the client |
| `Restart` | the process ends; only the databases survive |

Simplified: opening the storage is one step here (its races are
HandleStorage's subject); crypto is enabled and a storage provider is
configured; the store passphrase is not modelled; a token request is granted
if the handle was provisioned when it was sent; the cached-hit path has no
await between its steps that another task could use to any effect.

`SessionSlot` is what the rest of the SDK may rely on: a slot that is empty or
holds one client with one token; `Open` only into an empty slot, `Renew` for
the same client and device, `Drop`, and (only if `deleteSession` overlaps
other calls) `Revive`. `ImplementsSlot` maps it to the fields of the session.

### HandleStorage

`DefaultStorageModule` over `IndexedDBStorageProvider` for one handle:
`handleStorageCache`, the providers whose `db` is `open`, the stored `item`, a
pending deletion (`purging`). IndexedDB is external: opens wait for deletions
requested before them, deletions wait for all connections. `overlapped` is a
history variable: it becomes TRUE when a call begins while another is under
way, and lets one run check what holds always and what holds until calls
overlap.

### DirectChats

`MatrixDirectChatsService` over `MatrixClientManager`, one action per method
that begins a call (`CreateChat`, `BlockHandle`, `UnblockHandle`,
`AcceptInvitation`, `DeclineInvitation`, `ListInvitations`, `ListJoined`). The
server's `rooms`, `direct` and `ignored` and the cache `view` are separate;
`Sync` copies the first to the second (account data only if it was written, as
`unsent` says). Every request is served in one step and answered in a later
one, so `Fails` covers requests lost before and after they took effect.
External: the home server, the matrix client, the other handles
(`PeerInvites`, `PeerMoves`). Simplified: a sync response is an atomic
snapshot; `is_direct` is on the member event of an invitation only; `m.direct`
is modelled by the list under the handle's own id, the only one the code adds
to; the member requests of `chatExists` are one step; a private room one has
left cannot be rejoined.

### PowerLevels and Rooms

`PowerLevels` has the roles, permissions and power levels of groups and
channels as operators: the transformers in both directions, the defaults, and
what `updateChannelUseCase` makes of a partial input (`PinnedUsers`,
`UpdatedChannelLevels`).

`Rooms` is one group or channel with the use cases of several handles. `room`
is the server's state, `seen[h]` the cache of the client of `h`, `requests`
what is on its way (each marked `awaited` or not), `call[h]` the call `h` has
under way with the levels and members it read. `ServeOk`, `ServeRefused`,
`LoseRequest`, `LoseResponse` are the fates of a request; the server refuses
by the authorization rules of Matrix (external). `Sync(h)` copies the room to
the cache. Of the power levels the server judges the entries a write changes:
an administrator rewrites the levels of a group although the level that
protects its redactions is above everybody's. The `GroupsModule...` and `ChannelsModule...` actions are the public
methods, grouped as the modules are; `ReadLevels`, `ReadMembers` and
`WriteLevels` are the steps of `updateChannel`, `KickAllAndLeave` the end of
`deleteGroup`. `ReadLevels` goes on without power levels (`NoLevels`) if the
room is not in the cache, as the code does; a write that follows once the room
has arrived forgets every role. `disturbed[h]` (history) says that the call of
`h` began on a stale cache or that something else changed the room during it,
`raced[h]` that the room was changed since `updateChannel` read the levels.
`GroupRoles` and `ChannelRoles` are the roles an update may give.

Simplified: one room, so that of the lists only those of its members and its
knocks are here; the `delay(3000)` of the use cases is dropped; name,
topic and avatar are requests that may fail, without values; a role update
sends the levels `setPowerLevel` of the SDK has or, if its cache has none,
asks the server for (`PowerLevelContent`), in one step.

### MatrixEvents, MessageListeners and Messaging

`MatrixEvents` is the vocabulary: the events `MatrixClientManager` sends and
what it computes from the part of a timeline it knows (`getReactions`,
`getReplacements`, `processMessage`, `getChatSummaries`, poll tallies). The
text of a message is the place of the event that carries it, which is enough
to tell which edit is shown. `MessageListeners` has the two maps of
`MessagingModule`, keyed by the identity of the `HandleId` object, and the
event listeners on the client. `Messaging` composes both: the server's
`timeline`, `pins`, `receipt` and `marked`, what each client knows (`view`,
`flag`, `failed` reactions), the calls and their requests, and the events its
`Sync` hands to the listeners of the creator. `Module...` actions begin the
public methods; `PutEvent`, `PutReceipt`, `PutMark`, `ReadPins`, `WritePins`,
`listMessages`, `ReadEnds`, `ReadResponses` and `Plain` serve
their requests; `RequestRefused` and `AnswerLost` are failures. History:
`toggled` and `wanted` (what the calls asked for), `spoiled` (a lost answer),
`raced` (two pin calls at once), `asked` (unread), `reader` (pages), `polled`
(the last tally told).

A toggle finds the handle's own reaction in the timeline also while it is
being sent (`Echoes`) and redacts that; the SDK (external) may refuse, or hold
the redaction until the reaction has its id, which is what the field `after`
of a request says. If the reaction cannot be sent, it stays as `failed`, and
the redaction that was held for it throws.

An event the client emits is `pending` with the event listeners that were on
the client, each of which awaits the user id and the room. Then it calls the
listeners of its object if the event is of a type that is told (`Told`:
messages, files, reactions and redactions), or returns early or swallows an error
and calls nobody (`EventSwallowed`: the room is not in the cache, the event
could not be decrypted or transformed). `due` and `heard` (history) are the
events emitted since the last call for an object and who was told of them;
`orderly` says that the calls for it were awaited and did not fail.

### Notifications

The push rules a setting is spread over, and the sequence of requests each
setter makes. `Pushes` is how a server evaluates them (external): the first
enabled rule that matches decides, in the order in which Matrix lists the
rules, a rule of the room before all. Among them are the two rules for rooms of
two, which every account has and `setDefaultChatRules` never writes; of an
encrypted message the server sees neither mentions nor names.
`asked[s]` (history) is the setting the last call left, if it succeeded alone.

### RoomCache

The server's `list` of rooms, what it has `sent` on this connection, the
window, the subscriptions, the listeners of `startSyncing` and the calls in
`waitForRoomInLocalCache` with their timeouts. `RoomArrives` stores a room and
calls every listener; `Bump` moves a room to the front. `joinRoom` is the
request of a join, `Joined` and `JoinFails` its answer: the room may arrive
between them. `startSyncingFails` is a `startClient` that throws, which leaves
the instance and the listener behind. With `supported` FALSE
the server has no sliding sync and sends every room.

### Security

Key backups of one handle on several devices. A backup is a version, its key
is named by the version it opens. `replaceKeyBackup` (create, rotate, reset)
has four awaits of its own: the versions are deleted, one is made, its key is
kept on the device (`SaveKey`), and the key is read back from there; if there
is none by then, `ReadKey` hands out the recovery key, which opens nothing.
`recoverFromBackup` stores the key it is given before it is known to be right.
Crypto itself is external. `clean` (history): no call failed half way, no
version was made while the key of another was on its way to a device, and no
key was tried on a device that was about to read a new one.

### MC modules and proof modules

`MCSession`, `MCStorage`, `MCChats`, `MCRooms`, `MCMessaging`,
`MCNotifications`, `MCRoomCache`, `MCSecurity` define the small sets and the
symmetry. The theorems are in `SessionManagerProofs`, `HandleStorageProofs`,
`DirectChatsProofs`, `RoomsProofs`, `MessagingProofs`, `NotificationsProofs`,
`RoomCacheProofs` and `SecurityProofs`, each with the inductive invariants it
needs.

## 3. Runs

`CHECK_DEADLOCK FALSE` everywhere: an idle system may stop, and calls, time
and rooms are bounded.

| Run | Shows |
|---|---|
| `SessionOverlap` | With `deleteSession` and timeouts overlapping everything and storage failing: calls of a handle are serialised (`ChainSerialises`), the client uses the session's token (`ClientUsesCachedToken`), a session is never replaced by another (`NoDoubleCreate`), every call settles (`CallsSettle`). |
| `SessionAwaited` | If the application awaits its calls before `reset`/`deprovisionHandle` and storage works: `NoLeakedTimer`, `RefreshArmed`, `PersistedWhenIdle`, `GetMatrixClientFindsSession`, `DeprovisionLeavesNothing`, with a restart at any point; and the manager implements `SessionSlot` (`ImplementsSlot`). |
| `Storage` | `ClosedIsUncached` always; `NoLeakedConnection`, `HolderNotClosed`, `PurgeCompletes` until two calls overlap. |
| `ChatsOverlap` | `InvitationsListed` with two overlapping calls, a lagging cache and failing requests. |
| `ChatsAwaited` | Awaited calls without failures: `JoinedListed`, `NoSecondChat`, `UnblockUnblocks`. |
| `Rooms` | Groups and channels with lagging caches, overlapping calls of two handles and failing requests. Calls that were not disturbed: everybody invited is reached (`InvitationsReach`), a role update changes no other role (`RoleTouchesTargetOnly`). `updateChannel`, if it found the room and nothing was served since: everybody's role survives the write (`UpdateKeepsRoles`). Always: only invitations and kicks outlive their call (`LateRequests`), and roles and permissions are told as they are enforced (`PermissionsTold`). |
| `Messaging` | `TogglesFlip`, `UnreadTold`, `PagesComplete`, `PollTally`, `ReadersAgree`, `DeliveredOnce`, with two calls at a time of two handles and lost answers. `DeliveredOnce` asks for exactly one delivery of each event to each listener, once no event listener is still waiting for its room. |
| `Notifications` | A setting is read back (`SettingReadBack`) and decides which messages notify, plain, encrypted, with mentions, in rooms of two and of more (`SettingHonoured`). |
| `RoomCache` | `WaitersResolved`, and `RoomsReached`: a client left running gets every room, one joined last included. |
| `Security` | `KeyOpensBackup` with three overlapping calls on two devices. |

Two runs end in a counterexample; each is a finding in `PROJECT.json`.

| Run | Counterexample |
|---|---|
| `ChatsBlock` | Blocking Bob after Alice replaces the list: Alice is no longer blocked. |
| `RoomsDelete` | `deleteGroup` starts its kicks without awaiting them and leaves; a kick served after the leave is refused, and members stay in a group that was deleted. |

### Bounds

* Session: two callers and one deleter (a third caller would only wait in the
  chain behind the second). Three calls allow create, refresh or expiry, and a
  deletion. Time 0..2 or 0..3 with lifetimes 1, 2 and 3 and thresholds 1 and 2
  gives tokens that arrive already due, due later, expiring and expired. One
  restart separates the two lives of a process.
* Storage: two users and four providers let both users open, close and open
  again.
* Chats: two rooms suffice for a list with one entry hiding or losing another;
  the awaited run has three rooms and two peers.
* Rooms: three handles; the creator makes one call after the room exists, a
  second member two, the third is acted on. That is one call overlapping
  another and one after it. One permission input, one default role, two roles
  of a group and three of a channel are enough for every branch of the
  transformers that a run can tell apart; more multiply the states.
* Messaging: operations that touch the same state are explored together, in
  nine groups (`MCMessaging`) of two to four calls (four for reactions and pins,
  so that a reaction, its redaction and another call overlap, and for
  listeners, so that events come before, between and after the calls for one
  object; a group of its own sends them events they are not told of); a page
  holds two events (`Limit`), so that two pages are needed; three times of day
  (`MaxTime` = 2) put votes before, at and after the end of a poll.
* Notifications: two calls at a time, three in all, one chat with a rule of
  its own; the rule for invitations may or may not be there at the start.
* RoomCache: three rooms and a fourth to be joined, a window of two that grows
  by one when it is within one of its end: it has to grow twice. Two starts,
  two calls, one bump.
* Security: two devices, three calls at a time, four in all: a key that was
  handed out, and three calls that overlap after it.

### Fairness

`FairSpec` of SessionManager: each call's next step is weakly fair, because
every awaited promise (request, IndexedDB, timer) is settled with a result or
an error and the event loop then runs the continuation; new calls, time and
restarts are not fair. HandleStorage: the same, and IndexedDB carries out a
deletion once it can; a user's letting go is not fair. RoomCache: joins are
answered or fail, timeouts fire, and a server that was asked for a room sends
it to a client that syncs; starting, stopping and bumping are not fair. The
other specifications state no fairness and no liveness property.

## 4. Proofs

For every value of the constants (assumptions `SessionAssumption`,
`StorageAssumption`, `ChatsAssumption`, `MessagingAssumption`,
`NotificationsAssumption` and those of Rooms, RoomCache and Security):

* **SessionManager**: `TypeCorrect`, `Serialised`, `ClientTokenAgrees`,
  `NoDuplicateSessions`. The invariant is `TypeOK /\ ChainSerialises /\
  ClientUsesCachedToken /\ SessionOwned`. `SessionOwned` is the strengthening:
  while a call creates, there is no session; while a call awaits a new token,
  the session is the one it read or none. It is inductive because
  `ChainSerialises` leaves a single working call, and the deleter outside the
  chain can only remove the session. `NoDuplicateSessions` is an action
  property that follows from the invariant step by step.
* **SessionSlot**: `SlotImplemented` is the refinement. It needs, besides the
  invariant above, `Awaited`: without overlap there is no deletion while a call
  awaits a refresh, so the session the refresh returns to is still the one it
  read. Every action of SessionManager is then a step of the slot or leaves it
  alone.
* **Awaited sessions**: if nothing overlaps
  `deleteSession` and storage does not fail (`Careful`), `TimersOwned`,
  `RefreshesArmed`, `TokensPersisted` and `ClientFound`. The invariant `Kept`
  says what a call may rely on while it runs: one task works at a time, no
  timeout is pending but the session's, a call that deletes has cleared it, a
  call that goes on to use its storage has it open, and the token being saved
  is the session's. `NothingLeft` (`DeprovisionLeavesNothing`) adds `Purged`:
  a purge reaches the closing of the storage through `clearRustCrypto`, and no
  call makes a crypto database before it is closed.
* **HandleStorage**: `StorageTypeCorrect`, `ClosedStorageUncached`;
  `ClosedIsUncached` is inductive with the types. `ConnectionsClosed` and
  `HoldersOpen` need `Alone`: until two calls overlap, one call is under way,
  the cached connection is the only open one, and each user holds what its
  place in the code implies.
* **DirectChats**: `ChatsTypeCorrect`, `NoHiddenInvitation`. The invariant
  adds three facts to the types: the cache is an earlier state of the server
  (`CacheLags`), only rooms the handle was in are on the list at the server or
  in the cache (`ListedWereJoined`), and the same holds of every list a call
  has read and may write (`CallsHoldJoined`). They are needed together: a list
  travels from the cache through a call to the server and back.
* **Awaited chats**: with `Awaited` and without
  `Faults`, `JoinedFound`, `OneChatEach` and `UnblockExact`, for any number of
  rooms and peers that invite, join and leave at any time. The invariant `Held`
  says that what a call read from the cache is still so when it writes: the
  list it holds is the cached one, no live chat with the peer appeared since
  `chatExists`, the block list it writes is the server's without the handle;
  and that every live chat is on the list the cache has, or will have after
  the next sync response, or is about to be added by the call under way.
* **Rooms**: all six properties of the run, from one invariant
  (`RoomsInvariant`), for any number of handles, calls, roles and permission
  inputs. `RoomOK`, `SeenOK`, `RequestOK`: the levels at the server, in a cache
  or in a request are ones a group or a channel can have, and a group is
  private; before there is a room nothing has happened (`NothingYet`). `Shape`:
  which operations reach which await, and that a call with a result is over.
  `Fit`: what a call has to do with the requests it awaits and with the room -
  while nothing disturbed it, everybody an invitation was meant for is invited
  or has a request on its way, and the content of a role update is the server's
  but for one user; while the room was not changed behind `updateChannel`, the
  levels and members it read are the server's, and what it writes is made of
  them. It is needed because requests are served in any order, and those of
  calls that are over too. `NobodyLeftOut`, `RoleUpdateLocal` and `RolesPinned`
  (action properties), `WorkLeftBehind`, `PermissionsReadBack` and `RoomsTyped`
  follow from it; `RolesPinned` also needs that pinning a member to the level
  they had undoes a new default, and `PermissionsReadBack` that reading roles
  and permissions inverts writing them, which are lemmas about PowerLevels.
* **Messaging** (with MatrixEvents and MessageListeners): all six properties
  of the run, from `MessagingInvariant`, for any handles, tasks, listeners,
  page size, number of calls and failures. `Base` is shared: the types, the
  times of the timeline in order (`Ordered`), and which requests a call of each
  operation may make (`Good`) and has left (`Exact`). On top of it each property
  has an invariant that only the steps of its own operations can disturb (the
  `...Frame` lemmas; `StepCases` and `Answers` say which steps those are).
  - `EveryMessageOnce`: `PagesKept` - what was given covers exactly the messages
    between the token and the place reading began, and so does what the call
    under way has got so far; new events come after that place, and a redaction
    takes nothing out of it.
  - `TallyExact`: `TallyKept` - the responses counted so far are the last valid
    ones of each handle between the one read last and the newest there was, and
    the end read first is still the last up to there if none came in between.
  - `UnreadCounts`: `MarksKept` - a call that is alone knows whether the room is
    marked; the receipt of a call past its first request covers what it read.
  - `TogglesHold`: `PinsKept` and `ReactionsKept` - until two calls overlap, the
    pins a call will write are the server's with its message flipped; a handle
    has one standing reaction to a message at most, redactions on their way take
    back different ones that stand, and a deletion never takes back a reaction.
    `EchoesKept` is for toggles while the handle's own reaction is being sent:
    a redaction that is held waits for a reaction of the same handle to the
    same message, and no two wait for one.
  - `ReadersSame` needs `Ordered`: the readers sort edits by time and must end
    at the last one in the timeline.
  - `ListenersHearOnce`: `ListenersAgree` - while the calls for an object are
    awaited at most one is under way, and the maps and the client agree but for
    it (`Listening`); each event emitted since the last of them is either with
    the event listener or was told to every name there is, once, and no event
    before them was (`Fate`). `Emitted`, that the client emits each event it
    has once, makes a new event different from those.
* **Notifications**: `SettingsReadBack` and `SettingsHonoured` from
  `NotificationsInvariant`, for any number of chats and overlapping calls. Each
  setting has push rules of its own (`Footprint`), and the requests a call has
  left are about those (`Owned`); so a call for another setting changes
  nothing (`Frame`). While the only call for a setting is under way, each rule
  has its final value or a request that gives it is among those left
  (`Underway`); when none is left, all have (`Reached`). That the twelve
  requests of `setDefaultChatRules` say what the level means is the lemma
  `ChatPlan`. `SettingsHonoured` then goes through the order of the rules, and
  needs that nothing ever writes the two for rooms of two.
* **RoomCache**: `WaitingResolved`. `WaitersResolved` is inductive with the
  types of `wait` and `cached`.
* **Security**: `BackupOpens`. `KeyOpensBackup` speaks of states in which no
  call is between the deletion of a backup and the handing out of the next
  key; the invariant follows such calls step by step, as long as no key was
  lost or crossed: one call at a time has a key to save, and those that have
  one to read are on its device (`OneSaving`); when no call is between deletion
  and making, the key to save is that of the backup (`SavesKey`); when none is
  between deletion and saving, the key on the device is (`ReadsKey`); and when
  none is past the deletion, the key handed out is (`Handed`).

Only model-checked: liveness (`CallsSettle`, `PurgeCompletes`,
`RoomsReached`), which is outside the prover's reach.

What the proofs found in the models: several `CASE`s had arms that overlapped,
where TLC takes the first and TLA+ leaves the choice open (`GoOn`,
`ReadLevels`, `ChannelRoleOf`, `DefaultLevel`, `RecipientLevel`,
`setInviteForMeEnabled`; their guards are disjoint now), `NotificationsAssumption`
did not keep the names of chats apart from those of the server's rules, and a
role update from a cache without power levels wrote a content that does not
exist (`PowerLevelContent`). `PollTally` used to judge responses by the end
that the call had read; it now takes the end from the events of the room.

## 5. Behaviour worth knowing

Met while modelling; the models have it, and the properties are stated so that
they hold with it.

* `deleteSession` runs outside the chain. It can remove the session before the
  non-null assertion of `getMatrixClient` (`sessionManager.ts:93`); a timeout
  that fires while it awaits arms another (`:47`); a refresh under way can put
  the session back. A client obtained before its session expired can be
  started afterwards.
* A token that expires within the process is deleted with its device id, so
  the next session is another device (`sessionManager.ts:387`).
* Overlapping `useHandleStorage` calls leak a connection, which blocks a later
  deletion (`storageModule.ts:234`).
* Two accepts at once drop one chat from `m.direct`; two `createChat` calls at
  once make two chats.
* `updateChannel` resets the permissions it is not given to their defaults and
  the default role to participant, and returns early, dropping the
  permissions, when the default role does not change
  (`updateChannelUseCase.ts:198`). For a room that is not in the cache it goes
  on as if nobody had a role, and if the room arrives before it writes, every
  role is lost (`:188`). Role changes of two members at once lose one. `updateGroup` and `updateChannel` that fail leave the prefix of their
  changes.
* A reaction that could not be sent stays in the cache and decides the next
  toggle. Two pin calls at once lose one. Poll events use the time of day as
  transaction id.
* Listener maps are keyed by object identity; overlapping registrations make
  two event listeners, and a registration during an unregistration is dropped.
  The event listener returns early for a room that is not in the cache yet,
  and swallows what it cannot decrypt or transform: nobody hears of it.
* A recipient's level "mentions" is kept as mute. A setter that fails leaves a
  mixture of old and new rules; a recipient's rule is deleted before it is
  added. The rules for rooms of two are never written: in such a room every
  message notifies, at mute too. At mentions, an encrypted message never does.
* A backup call that fails after the new version was made loses its key; two
  devices invalidate each other's keys, and of two calls on one device whose
  steps cross, the older key may be the one that is kept; `recover` stores a
  wrong key. If the device has no key when it is read back, the recovery key is
  returned as if it were the backup's (`matrixClientManager.ts:2135`).
* The second of two `startSyncing` calls loses the first extend listener and
  leaves the manager with an instance that does not run, and so does one whose
  `startClient` fails (`matrixClientManager.ts:283`).
* The media credential cache is keyed by a new object for each look-up, so it
  never answers.

## 6. Not modelled, and why

* The lists of invitations and of joined groups and channels: they sort many
  rooms by what the channel service answers, retry or ignore the ids it did not
  process, and keep nothing; a model of one room says nothing of them.
* The verification methods of `SecurityModule`: each hands a request to the SDK
  and keeps no state here.
* `searchMessages`, `searchPublicChannels`, the paged channel list,
  `listBlockedHandles`, `updateHandle`, `listHandles`: one request or one read,
  nothing kept.
* `getDecodedInfo` of notifications: pure decoding of a payload.
* API, S3 and GraphQL clients and error mapping: a request succeeds, fails or
  is lost; which error is thrown is not told apart.
* File transfer, encryption, the rust crypto and the home server's internals:
  external. Generated code and logging: left out.
* SessionManager and HandleStorage are not composed: SessionManager opens and
  closes the storage in one step. Several rooms at once, and several handles of
  one application, share no state in the code and are not modelled together.
