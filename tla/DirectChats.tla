---------------------------- MODULE DirectChats ----------------------------
(***************************************************************************)
(* The direct chats and the block list of one handle:                      *)
(* MatrixDirectChatsService over MatrixClientManager.                      *)
(*                                                                         *)
(* What the handle knows lives twice: at the home server and in the cache  *)
(* of its matrix client, which a sync response brings up to date.  A room  *)
(* is a direct chat of the handle when the account data m.direct lists it  *)
(* under the handle's own user id; the code reads that list from the cache *)
(* and writes the whole list back to the server.                           *)
(*                                                                         *)
(* External: the matrix client and the home server.  A sync response is a  *)
(* snapshot of the server and brings account data only if it was written   *)
(* since the last one.  The member event of somebody who is invited to a   *)
(* direct chat carries is_direct; a join or a leave replaces it.           *)
(***************************************************************************)
EXTENDS Naturals, Sequences

CONSTANTS
    Task,       \* calls of the application that may be under way
    Peer,       \* the other handles
    Ops,        \* what the application calls
    Faults,     \* requests may fail, before or after they took effect
    Awaited,    \* a call begins only when the last one is over and its
                \* delay(3000) was long enough for a sync response
    MaxRooms

ASSUME ChatsAssumption ==
    /\ Peer # {}
    /\ Ops \subseteq {"create", "accept", "decline", "listInvite", "listJoin",
                      "block", "unblock"}
    /\ Faults \in BOOLEAN /\ Awaited \in BOOLEAN
    /\ MaxRooms \in Nat

VARIABLES
    rooms,      \* server: the rooms made so far
    direct,     \* server: m.direct[userId]
    ignored,    \* server: m.ignored_user_list
    view,       \* cache: rooms, direct and ignored as last heard of
    unsent,     \* account data the next sync response brings
    pc,
    loc         \* local variables of the calls

vars == <<rooms, direct, ignored, view, unsent, pc, loc>>

Membership == {"invite", "join", "leave"}
Room  == [peer : Peer, me : Membership, other : Membership]
Op    == {"create", "accept", "decline", "listInvite", "listJoin",
          "block", "unblock"}
Local == [op : Op, peer : Peer, room : Nat, list : SUBSET Nat,
          stale : SUBSET Nat, handles : SUBSET Peer]
Label == {"idle", "rejected", "userExists", "chatExists", "members",
          "createRoom", "created", "getRoom", "joinRoom", "joined", "putDirect",
          "leaveRoom", "find", "cleanUp", "putIgnored"}
Done  == {"idle", "rejected"}

NewLocal(op, p, r) == [op |-> op, peer |-> p, room |-> r, list |-> {},
                       stale |-> {}, handles |-> {}]
NoLocal == NewLocal("create", CHOOSE p \in Peer : TRUE, 0)

TypeOK ==
    /\ rooms \in Seq(Room)
    /\ direct \subseteq DOMAIN rooms
    /\ ignored \subseteq Peer
    /\ view \in [rooms : Seq(Room), direct : SUBSET Nat, ignored : SUBSET Peer]
    /\ unsent \subseteq {"direct", "ignored"}
    /\ pc \in [Task -> Label]
    /\ loc \in [Task -> Local]

Init ==
    /\ rooms = <<>>
    /\ direct = {}
    /\ ignored = {}
    /\ view = [rooms |-> <<>>, direct |-> {}, ignored |-> {}]
    /\ unsent = {}
    /\ pc = [t \in Task |-> "idle"]
    /\ loc = [t \in Task |-> NoLocal]

-----------------------------------------------------------------------------
(* findDirectChatRooms, on the cache.                                      *)

\* getMembers() of a room of the cache has somebody who left.
SomebodyLeft(r) == "leave" \in {view.rooms[r].me, view.rooms[r].other}

IsDirect(r) == "invite" \in {view.rooms[r].me, view.rooms[r].other}

RoomsWith(membership) ==
    {r \in DOMAIN view.rooms : view.rooms[r].me = membership}

StaleRooms(membership) ==
    {r \in RoomsWith(membership) : r \in view.direct /\ SomebodyLeft(r)}

\* The rooms of the list, or, if there is none, those whose members say so.
findDirectChatRooms(membership) ==
    LET listed == {r \in RoomsWith(membership) :
                      r \in view.direct /\ ~SomebodyLeft(r)} IN
    IF listed # {} THEN listed ELSE {r \in RoomsWith(membership) : IsDirect(r)}

-----------------------------------------------------------------------------
(* How a call begins, moves on and ends.                                   *)

Synced == view.rooms = rooms /\ unsent = {}

Goto(t, label) == pc' = [pc EXCEPT ![t] = label]

Settle(t, label) ==
    /\ pc'  = [pc EXCEPT ![t] = label]
    /\ loc' = [loc EXCEPT ![t] = NoLocal]

server == <<rooms, direct, ignored, unsent>>

FirstLabel(op) ==
    CASE op \in {"create", "block", "unblock"} -> "userExists"
      [] op \in {"accept", "decline"}          -> "getRoom"
      [] op \in {"listInvite", "listJoin"}     -> "find"

Call(t, op, p, r) ==
    /\ pc[t] \in Done /\ op \in Ops
    /\ Awaited => Synced /\ \A u \in Task : pc[u] \in Done
    /\ loc' = [loc EXCEPT ![t] = NewLocal(op, p, r)]
    /\ Goto(t, FirstLabel(op))
    /\ UNCHANGED <<server, view>>

\* Whatever the call awaits rejects; a request may still have had its effect,
\* since every request is answered in a step after the one that serves it.
Fails(t) ==
    /\ Faults /\ pc[t] \notin Done
    /\ Settle(t, "rejected")
    /\ UNCHANGED <<server, view>>

\* userExists finds no profile.
HandleNotFound(t) ==
    /\ pc[t] = "userExists"
    /\ Settle(t, "rejected")
    /\ UNCHANGED <<server, view>>

-----------------------------------------------------------------------------
(* create: userExists, chatExists, createDirectChat.                       *)

CreateUserExists(t) ==
    /\ pc[t] = "userExists" /\ loc[t].op = "create"
    /\ Goto(t, "chatExists")
    /\ UNCHANGED <<server, view, loc>>

\* chatExists picks the direct chats of the cache ...
ReadDirectChats(t) ==
    /\ pc[t] = "chatExists"
    /\ loc' = [loc EXCEPT ![t].list = DOMAIN view.rooms \cap view.direct]
    /\ Goto(t, "members")
    /\ UNCHANGED <<server, view>>

\* Mutant: the members of the chats are not looked at.
NoneFound(t) == FALSE

\* ... and asks the server for their members.
chatExists(t) ==
    \E r \in loc[t].list : rooms[r].peer = loc[t].peer
                             /\ rooms[r].other \in {"join", "invite"}

CheckMembers(t) ==
    /\ pc[t] = "members"
    /\ \/ chatExists(t) /\ Settle(t, "rejected")
       \/ ~chatExists(t) /\ Goto(t, "createRoom") /\ UNCHANGED loc
    /\ UNCHANGED <<server, view>>

CreateRoom(t) ==
    /\ pc[t] = "createRoom" /\ Len(rooms) < MaxRooms
    /\ rooms' = Append(rooms, [peer |-> loc[t].peer, me |-> "join",
                               other |-> "invite"])
    /\ loc' = [loc EXCEPT ![t].room = Len(rooms) + 1]
    /\ Goto(t, "created")
    /\ UNCHANGED <<direct, ignored, unsent, view>>

\* The list is read from the cache when createRoom has been answered.
AddToOwnList(t) ==
    /\ pc[t] = "created"
    /\ \/ loc[t].room \in view.direct /\ Settle(t, "idle")
       \/ /\ loc[t].room \notin view.direct
          /\ loc' = [loc EXCEPT ![t].list = view.direct \cup {loc[t].room}]
          /\ Goto(t, "putDirect")
    /\ UNCHANGED <<server, view>>

\* Mutant: the list is not written.
forgetDirect(list) == UNCHANGED <<direct, unsent>>

setDirect(list) ==
    /\ direct' = list
    /\ unsent' = unsent \cup {"direct"}

PutDirect(t) ==
    /\ pc[t] = "putDirect"
    /\ setDirect(loc[t].list)
    /\ Settle(t, "idle")
    /\ UNCHANGED <<rooms, ignored, view>>

-----------------------------------------------------------------------------
(* acceptInvitation and declineInvitation.                                 *)

\* getRoom: the cache has no such room, or it did not come in time.
RoomNotFound(t) ==
    /\ pc[t] = "getRoom" /\ loc[t].room \notin DOMAIN view.rooms
    /\ Settle(t, "rejected")
    /\ UNCHANGED <<server, view>>

\* Mutant: the room is put on the list before it is joined.
listFirst(t) ==
    /\ pc[t] = "getRoom" /\ loc[t].op = "accept"
    /\ loc[t].room \in DOMAIN view.rooms
    /\ setDirect(view.direct \cup {loc[t].room})
    /\ loc' = [loc EXCEPT ![t].list = view.direct]
    /\ Goto(t, "joinRoom")
    /\ UNCHANGED <<rooms, ignored, view>>

\* joinDirectChat reads the list before it awaits joinRoom.
joinDirectChat(t) ==
    /\ pc[t] = "getRoom" /\ loc[t].op = "accept"
    /\ loc[t].room \in DOMAIN view.rooms
    /\ loc' = [loc EXCEPT ![t].list = view.direct]
    /\ Goto(t, "joinRoom")
    /\ UNCHANGED <<server, view>>

\* The room is private: one who has left it cannot join again.
JoinRoom(t) ==
    LET r == loc[t].room IN
    /\ pc[t] = "joinRoom"
    /\ \/ /\ rooms[r].me = "leave"
          /\ Settle(t, "rejected")
          /\ UNCHANGED rooms
       \/ /\ rooms[r].me # "leave"
          /\ Goto(t, "joined")
          /\ rooms' = [rooms EXCEPT ![r].me = "join"]
          /\ UNCHANGED loc
    /\ UNCHANGED <<direct, ignored, unsent, view>>

Joined(t) ==
    /\ pc[t] = "joined"
    /\ \/ loc[t].room \in loc[t].list /\ Settle(t, "idle")
       \/ /\ loc[t].room \notin loc[t].list
          /\ loc' = [loc EXCEPT ![t].list = @ \cup {loc[t].room}]
          /\ Goto(t, "putDirect")
    /\ UNCHANGED <<server, view>>

declineInvitation(t) ==
    /\ pc[t] = "getRoom" /\ loc[t].op = "decline"
    /\ loc[t].room \in DOMAIN view.rooms
    /\ Goto(t, "leaveRoom")
    /\ UNCHANGED <<server, view, loc>>

leave(r) == rooms' = [rooms EXCEPT ![r].me = "leave"]

LeaveRoom(t) ==
    /\ pc[t] = "leaveRoom"
    /\ leave(loc[t].room)
    /\ Settle(t, "idle")
    /\ UNCHANGED <<direct, ignored, unsent, view>>

-----------------------------------------------------------------------------
(* listInvitations and listJoined clean up before they list.               *)

FindRooms(t) ==
    /\ pc[t] = "find"
    /\ loc' = [loc EXCEPT ![t] = [@ EXCEPT
                  !.list  = view.direct,
                  !.stale = StaleRooms(IF loc[t].op = "listJoin"
                                       THEN "join" ELSE "invite")]]
    /\ Goto(t, "cleanUp")
    /\ UNCHANGED <<server, view>>

\* The room is taken off the cached list only (splice on the array in the
\* cached event, or in the event a sync response has replaced since), and
\* left.
LeaveStale(t, r) ==
    /\ pc[t] = "cleanUp" /\ r \in loc[t].stale
    /\ view' = [view EXCEPT !.direct = IF @ = loc[t].list THEN @ \ {r} ELSE @]
    /\ leave(r)
    /\ loc' = [loc EXCEPT ![t].list = @ \ {r}, ![t].stale = @ \ {r}]
    /\ UNCHANGED <<direct, ignored, unsent, pc>>

Listed(t) ==
    /\ pc[t] = "cleanUp" /\ loc[t].stale = {}
    /\ Settle(t, "idle")
    /\ UNCHANGED <<server, view>>

-----------------------------------------------------------------------------
(* blockHandle and unblockHandle.                                          *)

ignoreHandle(t) ==
    /\ pc[t] = "userExists" /\ loc[t].op = "block"
    /\ loc' = [loc EXCEPT ![t].handles = {loc[t].peer}]
    /\ Goto(t, "putIgnored")
    /\ UNCHANGED <<server, view>>

\* Mutant: the list is written without the test and with the handle on it.
unignoreNothing(t) ==
    /\ pc[t] = "userExists" /\ loc[t].op = "unblock"
    /\ loc' = [loc EXCEPT ![t].handles = view.ignored]
    /\ Goto(t, "putIgnored")
    /\ UNCHANGED <<server, view>>

unignoreHandle(t) ==
    /\ pc[t] = "userExists" /\ loc[t].op = "unblock"
    /\ \/ loc[t].peer \notin view.ignored /\ Settle(t, "idle")
       \/ /\ loc[t].peer \in view.ignored
          /\ loc' = [loc EXCEPT ![t].handles = view.ignored \ {loc[t].peer}]
          /\ Goto(t, "putIgnored")
    /\ UNCHANGED <<server, view>>

setIgnoredUsers(t) ==
    /\ pc[t] = "putIgnored"
    /\ ignored' = loc[t].handles
    /\ unsent' = unsent \cup {"ignored"}
    /\ Settle(t, "idle")
    /\ UNCHANGED <<rooms, direct, view>>

-----------------------------------------------------------------------------
(* The server and the other handles.                                       *)

Sync ==
    /\ ~Synced
    /\ view' = [rooms   |-> rooms,
                direct  |-> IF "direct" \in unsent THEN direct ELSE view.direct,
                ignored |-> IF "ignored" \in unsent THEN ignored ELSE view.ignored]
    /\ unsent' = {}
    /\ UNCHANGED <<rooms, direct, ignored, pc, loc>>

PeerInvites(p) ==
    /\ Len(rooms) < MaxRooms
    /\ rooms' = Append(rooms, [peer |-> p, me |-> "invite", other |-> "join"])
    /\ UNCHANGED <<direct, ignored, unsent, view, pc, loc>>

\* What happens in a room after the handle has left it is not told to it.
PeerMoves(r, membership) ==
    /\ rooms[r].me # "leave"
    /\ \/ rooms[r].other = "invite" /\ membership \in {"join", "leave"}
       \/ rooms[r].other = "join" /\ membership = "leave"
    /\ rooms' = [rooms EXCEPT ![r].other = membership]
    /\ UNCHANGED <<direct, ignored, unsent, view, pc, loc>>

-----------------------------------------------------------------------------
Step(t) ==
    \/ Fails(t) \/ HandleNotFound(t)
    \/ CreateUserExists(t) \/ ReadDirectChats(t) \/ CheckMembers(t)
    \/ CreateRoom(t) \/ AddToOwnList(t) \/ PutDirect(t)
    \/ RoomNotFound(t) \/ joinDirectChat(t) \/ JoinRoom(t) \/ Joined(t)
    \/ declineInvitation(t) \/ LeaveRoom(t)
    \/ FindRooms(t) \/ (\E r \in DOMAIN rooms : LeaveStale(t, r)) \/ Listed(t)
    \/ ignoreHandle(t) \/ unignoreHandle(t) \/ setIgnoredUsers(t)

Others ==
    \/ Sync
    \/ \E p \in Peer : PeerInvites(p)
    \/ \E r \in DOMAIN rooms, m \in Membership : PeerMoves(r, m)

\* The operations of DirectChatsModule, each through its use case; a room to
\* accept or decline is one the application was told of.
CreateChat(t, p)        == Call(t, "create", p, 0)
BlockHandle(t, p)       == Call(t, "block", p, 0)
UnblockHandle(t, p)     == Call(t, "unblock", p, 0)
AcceptInvitation(t, r)  == Call(t, "accept", rooms[r].peer, r)
DeclineInvitation(t, r) == Call(t, "decline", rooms[r].peer, r)
ListInvitations(t)      == Call(t, "listInvite", NoLocal.peer, 0)
ListJoined(t)           == Call(t, "listJoin", NoLocal.peer, 0)

Calls ==
    \E t \in Task :
        \/ \E p \in Peer : CreateChat(t, p) \/ BlockHandle(t, p) \/ UnblockHandle(t, p)
        \/ \E r \in DOMAIN rooms : AcceptInvitation(t, r) \/ DeclineInvitation(t, r)
        \/ ListInvitations(t) \/ ListJoined(t)

Next == Calls \/ Others \/ \E t \in Task : Step(t)

Spec == Init /\ [][Next]_vars
-----------------------------------------------------------------------------
(* Properties that hold whatever overlaps and whatever fails.              *)

\* findDirectChatRooms looks at m.direct before it looks at the members, and
\* listInvitations reports only rooms of the list if it finds one there.  It
\* hides no invitation, because no way of writing the list puts a room on it
\* that the handle has not joined, as the cache sees it.
InvitationsListed == RoomsWith("invite") \subseteq findDirectChatRooms("invite")

\* What it rests on: a room on the list of the server, of the cache or of a
\* call that will write it is one the handle was in.
ListedWereJoined ==
    /\ \A r \in direct : r \in DOMAIN rooms /\ rooms[r].me # "invite"
    /\ \A r \in view.direct : /\ r \in DOMAIN view.rooms
                              /\ view.rooms[r].me # "invite"

-----------------------------------------------------------------------------
(* Properties of calls that are awaited, when no request fails.            *)

AllDone == \A t \in Task : pc[t] \in Done

\* "a list of all direct chats that this handle has joined" (listJoined):
\* every chat the handle is in is found, though the list is rebuilt from the
\* cache each time and cleaned up in the cache only.
JoinedListed ==
    AllDone /\ Synced =>
        \A r \in RoomsWith("join") :
            ~SomebodyLeft(r) => r \in findDirectChatRooms("join")

\* create refuses a second chat with a handle it has one with
\* (DirectChatExistsError).
NoSecondChat ==
    [][ \A t \in Task :
          pc[t] = "createRoom" /\ pc'[t] = "created" =>
            ~ \E r \in DOMAIN rooms : /\ rooms[r].peer = loc[t].peer
                                     /\ rooms[r].me = "join"
                                     /\ rooms[r].other \in {"join", "invite"} ]_vars

\* unblockHandle leaves the other handles blocked, and what it unblocks is
\* no longer blocked when it has settled.
UnblockUnblocks ==
    [][ \A t \in Task :
          pc[t] # "idle" /\ pc'[t] = "idle" /\ loc[t].op = "unblock"
            => ignored' = ignored \ {loc[t].peer} ]_vars

-----------------------------------------------------------------------------
(* What the documentation says and the code does not do.                   *)

\* "Blocks a handle", "a list of all known blocked handles": a handle stays
\* blocked until it is unblocked.
BlockedStaysBlocked ==
    [][ \A p \in ignored \ ignored' :
          \E t \in Task : loc[t].op = "unblock" /\ loc[t].peer = p ]_vars
=============================================================================
