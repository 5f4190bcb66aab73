------------------------- MODULE DirectChatsProofs -------------------------
(***************************************************************************)
(* For every set of calls and peers, with overlapping calls and failing    *)
(* requests: DirectChats hides no invitation (from Inv).  For calls that   *)
(* are awaited and requests that succeed, what it lists, how many chats it *)
(* makes and what unblocking does (from Held).                             *)
(***************************************************************************)
EXTENDS DirectChats, TLAPS

WasIn(rs, r) == r \in DOMAIN rs /\ rs[r].me # "invite"

\* The cache is an earlier state of the server: rooms are only added, and
\* nobody becomes invited again.
CacheLags ==
    /\ DOMAIN view.rooms \subseteq DOMAIN rooms
    /\ \A r \in DOMAIN view.rooms : view.rooms[r].me # "invite" => WasIn(rooms, r)

\* A list that a call has read and may write holds rooms the handle was in.
CallsHoldJoined ==
    \A t \in Task :
        /\ pc[t] \in {"joinRoom", "joined", "putDirect"}
              => \A r \in loc[t].list : WasIn(rooms, r)
        /\ pc[t] \in {"created", "joined"} => WasIn(rooms, loc[t].room)
        /\ pc[t] \in {"joinRoom", "leaveRoom"} => loc[t].room \in DOMAIN rooms

Inv == TypeOK /\ CacheLags /\ ListedWereJoined /\ CallsHoldJoined

\* What every step does to the rooms of the server: a room stays, and one
\* the handle was in stays one it was in.
RoomsGrow ==
    /\ DOMAIN rooms \subseteq DOMAIN rooms'
    /\ \A r \in DOMAIN rooms : rooms[r].me # "invite" => rooms'[r].me # "invite"

-----------------------------------------------------------------------------
\* The default local record is well typed.
LEMMA NoLocalType == NoLocal \in Local
BY ChatsAssumption DEF NoLocal, NewLocal, Local, Op

\* A settled call keeps the types and holds nothing.
LEMMA SettleType ==
    ASSUME TypeOK, NEW t \in Task, NEW l \in Done, Settle(t, l)
    PROVE  /\ pc' \in [Task -> Label] /\ loc' \in [Task -> Local]
           /\ pc'[t] \in Done
           /\ \A u \in Task \ {t} : pc'[u] = pc[u] /\ loc'[u] = loc[u]
BY NoLocalType DEF TypeOK, Settle, Label, Done

\* A step that leaves the cache's list within what it was, the list of the
\* server alone and the other calls' places alone preserves the invariant,
\* if the rooms grow and the stepping call holds rooms the handle was in.
LEMMA Preserved ==
    ASSUME Inv, NEW t \in Task, TypeOK', RoomsGrow,
           view'.rooms = view.rooms, view'.direct \subseteq view.direct,
           \A r \in direct' : WasIn(rooms', r),
           \A u \in Task \ {t} : pc'[u] = pc[u] /\ loc'[u] = loc[u],
           pc'[t] \in {"joinRoom", "joined", "putDirect"}
              => \A r \in loc'[t].list : WasIn(rooms', r),
           pc'[t] \in {"created", "joined"} => WasIn(rooms', loc'[t].room),
           pc'[t] \in {"joinRoom", "leaveRoom"} => loc'[t].room \in DOMAIN rooms'
    PROVE  Inv'
<1>1. \A r : WasIn(rooms, r) => WasIn(rooms', r)
  BY DEF WasIn, RoomsGrow
<1>2. CacheLags'
  BY <1>1 DEF Inv, CacheLags, RoomsGrow
<1>3. ListedWereJoined'
  BY DEF Inv, ListedWereJoined, WasIn
<1>4. CallsHoldJoined'
  <2> SUFFICES ASSUME NEW u \in Task
               PROVE  /\ pc'[u] \in {"joinRoom", "joined", "putDirect"}
                            => \A r \in loc'[u].list : WasIn(rooms', r)
                      /\ pc'[u] \in {"created", "joined"} => WasIn(rooms', loc'[u].room)
                      /\ pc'[u] \in {"joinRoom", "leaveRoom"}
                            => loc'[u].room \in DOMAIN rooms'
    BY DEF CallsHoldJoined, WasIn
  <2>1. CASE u = t
    BY <2>1
  <2>2. CASE u # t
    BY <2>2, <1>1 DEF Inv, CallsHoldJoined, RoomsGrow
  <2> QED BY <2>1, <2>2
<1> QED BY <1>2, <1>3, <1>4 DEF Inv

-----------------------------------------------------------------------------
\* The initial states satisfy the invariant.
LEMMA InitInv == Init => Inv
<1> SUFFICES ASSUME Init PROVE Inv
  OBVIOUS
<1>1. TypeOK
  BY NoLocalType DEF Init, TypeOK, Label
<1>2. CacheLags /\ ListedWereJoined /\ CallsHoldJoined
  BY DEF Init, CacheLags, ListedWereJoined, CallsHoldJoined
<1> QED BY <1>1, <1>2 DEF Inv

\* A step of a call that only settles.
LEMMA SettlesInv ==
    ASSUME Inv, NEW t \in Task, NEW l \in Done, Settle(t, l),
           UNCHANGED <<rooms, direct, ignored, unsent, view>>
    PROVE  Inv'
<1>1. TypeOK'
  BY SettleType DEF Inv, TypeOK
<1>2. RoomsGrow
  BY DEF RoomsGrow
<1>3. \A r \in direct' : WasIn(rooms', r)
  BY DEF Inv, ListedWereJoined, WasIn
<1>4. /\ pc'[t] \notin {"joinRoom", "joined", "putDirect", "created", "leaveRoom"}
      /\ \A u \in Task \ {t} : pc'[u] = pc[u] /\ loc'[u] = loc[u]
  BY SettleType DEF Inv, Done
<1> QED BY <1>1, <1>2, <1>3, <1>4, Preserved

\* A step of a call that only moves on and keeps what it holds.
LEMMA MovesInv ==
    ASSUME Inv, NEW t \in Task, NEW l \in Label, Goto(t, l),
           l \notin {"joinRoom", "joined", "putDirect", "created", "leaveRoom"},
           loc' \in [Task -> Local],
           \A u \in Task \ {t} : loc'[u] = loc[u],
           UNCHANGED <<rooms, direct, ignored, unsent, view>>
    PROVE  Inv'
<1>1. TypeOK' /\ pc'[t] = l /\ \A u \in Task \ {t} : pc'[u] = pc[u]
  BY DEF Inv, TypeOK, Goto
<1>2. RoomsGrow
  BY DEF RoomsGrow
<1>3. \A r \in direct' : WasIn(rooms', r)
  BY DEF Inv, ListedWereJoined, WasIn
<1> QED BY <1>1, <1>2, <1>3, Preserved

-----------------------------------------------------------------------------
\* Creating a chat.
LEMMA CreateInv ==
    ASSUME Inv, NEW t \in Task,
           \/ CreateUserExists(t) \/ ReadDirectChats(t) \/ CheckMembers(t)
           \/ CreateRoom(t) \/ AddToOwnList(t) \/ PutDirect(t)
    PROVE  Inv'
<1>1. CASE CreateUserExists(t)
  <2>1. loc' \in [Task -> Local] /\ \A u \in Task \ {t} : loc'[u] = loc[u]
    BY <1>1 DEF CreateUserExists, Inv, TypeOK
  <2> QED BY <1>1, <2>1, MovesInv DEF CreateUserExists, server, Label
<1>2. CASE ReadDirectChats(t)
  <2>1. DOMAIN view.rooms \cap view.direct \in SUBSET Nat
    BY DEF Inv, TypeOK
  <2>2. loc' \in [Task -> Local] /\ \A u \in Task \ {t} : loc'[u] = loc[u]
    BY <1>2, <2>1 DEF ReadDirectChats, Inv, TypeOK, Local
  <2> QED BY <1>2, <2>2, MovesInv DEF ReadDirectChats, server, Label
<1>3. CASE CheckMembers(t)
  <2>1. CASE Settle(t, "rejected")
    BY <1>3, <2>1, SettlesInv DEF CheckMembers, server, Done
  <2>2. CASE Goto(t, "createRoom") /\ UNCHANGED loc
    <3>1. loc' \in [Task -> Local] /\ \A u \in Task \ {t} : loc'[u] = loc[u]
      BY <2>2 DEF Inv, TypeOK
    <3> QED BY <1>3, <2>2, <3>1, MovesInv DEF CheckMembers, server, Label
  <2> QED BY <1>3, <2>1, <2>2 DEF CheckMembers
<1>4. CASE CreateRoom(t)
  <2> DEFINE new == [peer |-> loc[t].peer, me |-> "join", other |-> "invite"]
  <2>1. new \in Room
    BY DEF Inv, TypeOK, Room, Local, Membership
  <2>2. /\ rooms' \in Seq(Room) /\ Len(rooms') = Len(rooms) + 1
        /\ rooms'[Len(rooms) + 1].me # "invite"
        /\ \A r \in DOMAIN rooms : rooms'[r] = rooms[r]
    BY <1>4, <2>1 DEF CreateRoom, Inv, TypeOK
  <2>3. DOMAIN rooms = 1..Len(rooms) /\ DOMAIN rooms' = 1..(Len(rooms) + 1)
        /\ Len(rooms) \in Nat
    BY <2>2 DEF Inv, TypeOK
  <2>4. RoomsGrow
    BY <2>2, <2>3 DEF RoomsGrow
  <2>5. /\ loc' \in [Task -> Local] /\ loc'[t].room = Len(rooms) + 1
        /\ \A u \in Task \ {t} : loc'[u] = loc[u]
    <3>1. Len(rooms) + 1 \in Nat /\ loc \in [Task -> Local]
      BY <2>3 DEF Inv, TypeOK
    <3>2. loc' = [loc EXCEPT ![t].room = Len(rooms) + 1]
      BY <1>4 DEF CreateRoom
    <3> HIDE <1>4
    <3> QED BY <3>1, <3>2 DEF Local
  <2>6. pc' \in [Task -> Label] /\ pc'[t] = "created"
        /\ \A u \in Task \ {t} : pc'[u] = pc[u]
    BY <1>4 DEF CreateRoom, Goto, Inv, TypeOK, Label
  <2>7. TypeOK'
    BY <1>4, <2>2, <2>3, <2>5, <2>6 DEF CreateRoom, Inv, TypeOK
  <2>8. \A r \in direct' : WasIn(rooms', r)
    BY <1>4, <2>2, <2>4 DEF CreateRoom, Inv, ListedWereJoined, WasIn, RoomsGrow
  <2>9. WasIn(rooms', loc'[t].room)
    BY <2>2, <2>3, <2>5 DEF WasIn
  <2> QED BY <1>4, <2>4, <2>5, <2>6, <2>7, <2>8, <2>9, Preserved DEF CreateRoom
<1>5. CASE AddToOwnList(t)
  <2>1. CASE Settle(t, "idle")
    BY <1>5, <2>1, SettlesInv DEF AddToOwnList, server, Done
  <2>2. CASE /\ loc' = [loc EXCEPT ![t].list = view.direct \cup {loc[t].room}]
             /\ Goto(t, "putDirect")
    <3>1. view.direct \cup {loc[t].room} \in SUBSET Nat
      BY DEF Inv, TypeOK, Local
    <3>2. /\ loc' \in [Task -> Local]
          /\ loc'[t].list = view.direct \cup {loc[t].room}
          /\ \A u \in Task \ {t} : loc'[u] = loc[u]
      BY <2>2, <3>1 DEF Inv, TypeOK, Local
    <3>3. pc' \in [Task -> Label] /\ pc'[t] = "putDirect"
          /\ \A u \in Task \ {t} : pc'[u] = pc[u]
      BY <2>2 DEF Goto, Inv, TypeOK, Label
    <3>4. TypeOK' /\ RoomsGrow
      BY <1>5, <3>2, <3>3 DEF AddToOwnList, server, Inv, TypeOK, RoomsGrow
    <3>5. \A r \in direct' : WasIn(rooms', r)
      BY <1>5 DEF AddToOwnList, server, Inv, ListedWereJoined, WasIn
    <3>6. \A r \in view.direct \cup {loc[t].room} : WasIn(rooms, r)
      BY <1>5 DEF AddToOwnList, Inv, ListedWereJoined, CacheLags, CallsHoldJoined
    <3>7. \A r \in loc'[t].list : WasIn(rooms', r)
      BY <1>5, <3>2, <3>6 DEF AddToOwnList, server, WasIn
    <3> QED BY <1>5, <3>2, <3>3, <3>4, <3>5, <3>7, Preserved
            DEF AddToOwnList, server
  <2> QED BY <1>5, <2>1, <2>2 DEF AddToOwnList
<1>6. CASE PutDirect(t)
  <2>1. \A r \in direct' : WasIn(rooms', r)
    BY <1>6 DEF PutDirect, setDirect, Inv, CallsHoldJoined, WasIn
  <2>2. /\ pc' \in [Task -> Label] /\ loc' \in [Task -> Local]
        /\ pc'[t] \in Done
        /\ \A u \in Task \ {t} : pc'[u] = pc[u] /\ loc'[u] = loc[u]
    BY <1>6, SettleType DEF PutDirect, Inv, Done
  <2>3. TypeOK' /\ RoomsGrow
    BY <1>6, <2>1, <2>2 DEF PutDirect, setDirect, Inv, TypeOK, RoomsGrow, WasIn
  <2> QED BY <1>6, <2>1, <2>2, <2>3, Preserved DEF PutDirect, Done
<1> QED BY <1>1, <1>2, <1>3, <1>4, <1>5, <1>6

-----------------------------------------------------------------------------
\* Changing the handle's own membership to something other than an
\* invitation keeps the types of the rooms and lets them grow.
LEMMA OwnMembership ==
    ASSUME Inv, NEW r \in DOMAIN rooms, NEW m \in {"join", "leave"},
           rooms' = [rooms EXCEPT ![r].me = m]
    PROVE  /\ rooms' \in Seq(Room) /\ DOMAIN rooms' = DOMAIN rooms
           /\ RoomsGrow /\ rooms'[r].me # "invite"
<1>1. rooms \in Seq(Room) /\ rooms[r] \in Room
  BY DEF Inv, TypeOK
<1>2. [rooms[r] EXCEPT !.me = m] \in Room
  BY <1>1 DEF Room, Membership
<1>3. rooms' = [rooms EXCEPT ![r] = [rooms[r] EXCEPT !.me = m]]
  OBVIOUS
<1>4. rooms' \in Seq(Room) /\ DOMAIN rooms' = DOMAIN rooms
  BY <1>1, <1>2, <1>3
<1>5. rooms'[r].me = m /\ \A s \in DOMAIN rooms \ {r} : rooms'[s] = rooms[s]
  BY <1>1, <1>3 DEF Room
<1> QED BY <1>4, <1>5 DEF RoomsGrow

\* Accepting and declining.
LEMMA AcceptInv ==
    ASSUME Inv, NEW t \in Task,
           \/ RoomNotFound(t) \/ joinDirectChat(t) \/ JoinRoom(t) \/ Joined(t)
           \/ declineInvitation(t)
    PROVE  Inv'
<1>1. CASE RoomNotFound(t)
  BY <1>1, SettlesInv DEF RoomNotFound, server, Done
<1>2. CASE joinDirectChat(t)
  <2>1. /\ loc' \in [Task -> Local]
        /\ loc'[t].list = view.direct /\ loc'[t].room = loc[t].room
        /\ \A u \in Task \ {t} : loc'[u] = loc[u]
    BY <1>2 DEF joinDirectChat, Inv, TypeOK, Local
  <2>2. pc' \in [Task -> Label] /\ pc'[t] = "joinRoom"
        /\ \A u \in Task \ {t} : pc'[u] = pc[u]
    BY <1>2 DEF joinDirectChat, Goto, Inv, TypeOK, Label
  <2>3. TypeOK' /\ RoomsGrow
    BY <1>2, <2>1, <2>2 DEF joinDirectChat, server, Inv, TypeOK, RoomsGrow
  <2>4. \A r \in direct' : WasIn(rooms', r)
    BY <1>2 DEF joinDirectChat, server, Inv, ListedWereJoined, WasIn
  <2>5. \A r \in loc'[t].list : WasIn(rooms', r)
    BY <1>2, <2>1 DEF joinDirectChat, server, Inv, ListedWereJoined, CacheLags,
                      WasIn
  <2>6. loc'[t].room \in DOMAIN rooms'
    BY <1>2, <2>1 DEF joinDirectChat, server, Inv, CacheLags
  <2> QED BY <1>2, <2>1, <2>2, <2>3, <2>4, <2>5, <2>6, Preserved
          DEF joinDirectChat, server
<1>3. CASE JoinRoom(t)
  <2>1. CASE Settle(t, "rejected") /\ UNCHANGED rooms
    BY <1>3, <2>1, SettlesInv DEF JoinRoom, Done
  <2>2. CASE /\ Goto(t, "joined")
             /\ rooms' = [rooms EXCEPT ![loc[t].room].me = "join"]
             /\ UNCHANGED loc
    <3>1. loc[t].room \in DOMAIN rooms /\ \A r \in loc[t].list : WasIn(rooms, r)
      BY <1>3 DEF JoinRoom, Inv, CallsHoldJoined
    <3>2. /\ rooms' \in Seq(Room) /\ DOMAIN rooms' = DOMAIN rooms
          /\ RoomsGrow /\ rooms'[loc[t].room].me # "invite"
      BY <2>2, <3>1, OwnMembership
    <3>3. pc' \in [Task -> Label] /\ pc'[t] = "joined"
          /\ \A u \in Task \ {t} : pc'[u] = pc[u]
      BY <2>2 DEF Goto, Inv, TypeOK, Label
    <3>4. TypeOK'
      BY <1>3, <2>2, <3>2, <3>3 DEF JoinRoom, Inv, TypeOK
    <3>5. \A r : WasIn(rooms, r) => WasIn(rooms', r)
      BY <3>2 DEF WasIn, RoomsGrow
    <3>6. \A r \in direct' : WasIn(rooms', r)
      BY <1>3, <3>5 DEF JoinRoom, Inv, ListedWereJoined, WasIn
    <3>7. WasIn(rooms', loc'[t].room) /\ \A r \in loc'[t].list : WasIn(rooms', r)
      BY <2>2, <3>1, <3>2, <3>5 DEF WasIn
    <3> QED BY <1>3, <2>2, <3>2, <3>3, <3>4, <3>6, <3>7, Preserved DEF JoinRoom
  <2> QED BY <1>3, <2>1, <2>2 DEF JoinRoom
<1>4. CASE Joined(t)
  <2>1. CASE Settle(t, "idle")
    BY <1>4, <2>1, SettlesInv DEF Joined, server, Done
  <2>2. CASE /\ loc' = [loc EXCEPT ![t].list = @ \cup {loc[t].room}]
             /\ Goto(t, "putDirect")
    <3>1. loc[t].list \cup {loc[t].room} \in SUBSET Nat
      BY DEF Inv, TypeOK, Local
    <3>2. /\ loc' \in [Task -> Local]
          /\ loc'[t].list = loc[t].list \cup {loc[t].room}
          /\ \A u \in Task \ {t} : loc'[u] = loc[u]
      BY <2>2, <3>1 DEF Inv, TypeOK, Local
    <3>3. pc' \in [Task -> Label] /\ pc'[t] = "putDirect"
          /\ \A u \in Task \ {t} : pc'[u] = pc[u]
      BY <2>2 DEF Goto, Inv, TypeOK, Label
    <3>4. TypeOK' /\ RoomsGrow
      BY <1>4, <3>2, <3>3 DEF Joined, server, Inv, TypeOK, RoomsGrow
    <3>5. \A r \in direct' : WasIn(rooms', r)
      BY <1>4 DEF Joined, server, Inv, ListedWereJoined, WasIn
    <3>6. \A r \in loc[t].list \cup {loc[t].room} : WasIn(rooms, r)
      BY <1>4 DEF Joined, Inv, CallsHoldJoined
    <3>7. \A r \in loc'[t].list : WasIn(rooms', r)
      BY <1>4, <3>2, <3>6 DEF Joined, server, WasIn
    <3> QED BY <1>4, <3>2, <3>3, <3>4, <3>5, <3>7, Preserved DEF Joined, server
  <2> QED BY <1>4, <2>1, <2>2 DEF Joined
<1>5. CASE declineInvitation(t)
  <2>1. loc' \in [Task -> Local] /\ \A u \in Task \ {t} : loc'[u] = loc[u]
    BY <1>5 DEF declineInvitation, Inv, TypeOK
  <2>2. pc' \in [Task -> Label] /\ pc'[t] = "leaveRoom"
        /\ \A u \in Task \ {t} : pc'[u] = pc[u]
    BY <1>5 DEF declineInvitation, Goto, Inv, TypeOK, Label
  <2>3. TypeOK' /\ RoomsGrow
    BY <1>5, <2>1, <2>2 DEF declineInvitation, server, Inv, TypeOK, RoomsGrow
  <2>4. \A r \in direct' : WasIn(rooms', r)
    BY <1>5 DEF declineInvitation, server, Inv, ListedWereJoined, WasIn
  <2>5. loc'[t].room \in DOMAIN rooms'
    BY <1>5 DEF declineInvitation, server, Inv, CacheLags
  <2> QED BY <1>5, <2>1, <2>2, <2>3, <2>4, <2>5, Preserved
          DEF declineInvitation, server
<1> QED BY <1>1, <1>2, <1>3, <1>4, <1>5

-----------------------------------------------------------------------------
\* Leaving: by declineInvitation or when a list is cleaned up.
LEMMA LeaveInv ==
    ASSUME Inv, NEW t \in Task, NEW r \in DOMAIN rooms, leave(r),
           UNCHANGED <<direct, ignored, unsent>>,
           pc' \in [Task -> Label], loc' \in [Task -> Local],
           pc'[t] \notin {"joinRoom", "joined", "putDirect", "created", "leaveRoom"},
           \A u \in Task \ {t} : pc'[u] = pc[u] /\ loc'[u] = loc[u],
           \/ view' = view
           \/ view' = [view EXCEPT !.direct = @ \ {r}]
    PROVE  Inv'
<1>1. rooms' \in Seq(Room) /\ DOMAIN rooms' = DOMAIN rooms /\ RoomsGrow
  BY OwnMembership DEF leave
<1>2. /\ view' \in [rooms : Seq(Room), direct : SUBSET Nat, ignored : SUBSET Peer]
      /\ view'.rooms = view.rooms /\ view'.direct \subseteq view.direct
  BY DEF Inv, TypeOK
<1>3. TypeOK'
  BY <1>1, <1>2 DEF Inv, TypeOK
<1>4. \A s \in direct' : WasIn(rooms', s)
  BY <1>1 DEF Inv, ListedWereJoined, WasIn, RoomsGrow
<1> QED BY <1>1, <1>2, <1>3, <1>4, Preserved

\* Listing cleans up; declining leaves.
LEMMA ListInv ==
    ASSUME Inv, NEW t \in Task,
           \/ LeaveRoom(t) \/ FindRooms(t) \/ Listed(t)
           \/ \E r \in DOMAIN rooms : LeaveStale(t, r)
    PROVE  Inv'
<1>1. CASE FindRooms(t)
  <2> DEFINE stale == StaleRooms(IF loc[t].op = "listJoin" THEN "join" ELSE "invite")
  <2>1. view.direct \in SUBSET Nat /\ stale \in SUBSET Nat
    BY DEF Inv, TypeOK, StaleRooms, RoomsWith
  <2>2. loc' = [loc EXCEPT ![t] = [@ EXCEPT !.list = view.direct, !.stale = stale]]
    BY <1>1 DEF FindRooms
  <2>3. loc' \in [Task -> Local] /\ \A u \in Task \ {t} : loc'[u] = loc[u]
    <3> HIDE DEF stale
    <3> QED BY <2>1, <2>2 DEF Inv, TypeOK, Local
  <2> QED BY <1>1, <2>3, MovesInv DEF FindRooms, server, Label
<1>2. CASE Listed(t)
  BY <1>2, SettlesInv DEF Listed, server, Done
<1>3. ASSUME NEW r \in DOMAIN rooms, LeaveStale(t, r)
      PROVE  Inv'
  <2>1. loc' \in [Task -> Local] /\ \A u \in Task \ {t} : loc'[u] = loc[u]
    <3>1. loc' = [loc EXCEPT ![t].list = @ \ {r}, ![t].stale = @ \ {r}]
      BY <1>3 DEF LeaveStale
    <3>2. loc \in [Task -> Local]
      BY DEF Inv, TypeOK
    <3> QED BY <3>1, <3>2 DEF Local
  <2>2. pc' \in [Task -> Label] /\ pc' = pc /\ pc[t] = "cleanUp"
    BY <1>3 DEF LeaveStale, Inv, TypeOK
  <2>3. view' = view \/ view' = [view EXCEPT !.direct = @ \ {r}]
    BY <1>3 DEF LeaveStale, Inv, TypeOK
  <2> QED BY <1>3, <2>1, <2>2, <2>3, LeaveInv DEF LeaveStale
<1>4. CASE LeaveRoom(t)
  <2>1. loc[t].room \in DOMAIN rooms
    BY <1>4 DEF LeaveRoom, Inv, CallsHoldJoined
  <2>2. /\ pc' \in [Task -> Label] /\ loc' \in [Task -> Local]
        /\ pc'[t] \in Done
        /\ \A u \in Task \ {t} : pc'[u] = pc[u] /\ loc'[u] = loc[u]
    BY <1>4, SettleType DEF LeaveRoom, Inv, Done
  <2> QED BY <1>4, <2>1, <2>2, LeaveInv DEF LeaveRoom, Done
<1> QED BY <1>1, <1>2, <1>3, <1>4

\* Blocking and unblocking.
LEMMA BlockInv ==
    ASSUME Inv, NEW t \in Task,
           ignoreHandle(t) \/ unignoreHandle(t) \/ setIgnoredUsers(t)
    PROVE  Inv'
<1>1. CASE ignoreHandle(t)
  <2>1. loc' \in [Task -> Local] /\ \A u \in Task \ {t} : loc'[u] = loc[u]
    BY <1>1 DEF ignoreHandle, Inv, TypeOK, Local
  <2> QED BY <1>1, <2>1, MovesInv DEF ignoreHandle, server, Label
<1>2. CASE unignoreHandle(t)
  <2>1. CASE Settle(t, "idle")
    BY <1>2, <2>1, SettlesInv DEF unignoreHandle, server, Done
  <2>2. CASE /\ loc' = [loc EXCEPT ![t].handles = view.ignored \ {loc[t].peer}]
             /\ Goto(t, "putIgnored")
    <3>1. loc' \in [Task -> Local] /\ \A u \in Task \ {t} : loc'[u] = loc[u]
      BY <2>2 DEF Inv, TypeOK, Local
    <3> QED BY <1>2, <2>2, <3>1, MovesInv DEF unignoreHandle, server, Label
  <2> QED BY <1>2, <2>1, <2>2 DEF unignoreHandle
<1>3. CASE setIgnoredUsers(t)
  <2>1. /\ pc' \in [Task -> Label] /\ loc' \in [Task -> Local]
        /\ pc'[t] \in Done
        /\ \A u \in Task \ {t} : pc'[u] = pc[u] /\ loc'[u] = loc[u]
    BY <1>3, SettleType DEF setIgnoredUsers, Inv, Done
  <2>2. TypeOK' /\ RoomsGrow
    BY <1>3, <2>1 DEF setIgnoredUsers, Inv, TypeOK, RoomsGrow, Local
  <2>3. \A r \in direct' : WasIn(rooms', r)
    BY <1>3 DEF setIgnoredUsers, Inv, ListedWereJoined, WasIn
  <2> QED BY <1>3, <2>1, <2>2, <2>3, Preserved DEF setIgnoredUsers, Done
<1> QED BY <1>1, <1>2, <1>3

-----------------------------------------------------------------------------
\* A sync response makes the cache equal to the server, except for a list
\* that has not been written since: its rooms are still rooms the handle was
\* in, because the cache lags.
LEMMA SyncInv ==
    ASSUME Inv, Sync
    PROVE  Inv'
<1>1. \A r \in direct \cup view.direct : WasIn(rooms, r)
  BY DEF Inv, ListedWereJoined, CacheLags, WasIn
<1>2. /\ view' \in [rooms : Seq(Room), direct : SUBSET Nat, ignored : SUBSET Peer]
      /\ view'.rooms = rooms /\ view'.direct \subseteq direct \cup view.direct
  BY DEF Sync, Inv, TypeOK
<1>3. TypeOK'
  BY <1>2 DEF Sync, Inv, TypeOK
<1>4. CacheLags'
  BY <1>2 DEF Sync, CacheLags, WasIn
<1>5. ListedWereJoined'
  BY <1>1, <1>2 DEF Sync, ListedWereJoined, WasIn
<1>6. CallsHoldJoined'
  BY DEF Sync, Inv, CallsHoldJoined, WasIn
<1> QED BY <1>3, <1>4, <1>5, <1>6 DEF Inv

\* The other handles only add rooms and move themselves.
LEMMA PeersInv ==
    ASSUME Inv,
           \/ \E p \in Peer : PeerInvites(p)
           \/ \E r \in DOMAIN rooms, m \in Membership : PeerMoves(r, m)
    PROVE  Inv'
<1> DEFINE Grows == /\ rooms' \in Seq(Room) /\ RoomsGrow
                    /\ UNCHANGED <<direct, ignored, unsent, view, pc, loc>>
<1>1. Grows
  <2>1. ASSUME NEW p \in Peer, PeerInvites(p)
        PROVE  Grows
    <3>1. [peer |-> p, me |-> "invite", other |-> "join"] \in Room
      BY DEF Room, Membership
    <3> QED BY <2>1, <3>1 DEF PeerInvites, Inv, TypeOK, RoomsGrow
  <2>2. ASSUME NEW r \in DOMAIN rooms, NEW m \in Membership, PeerMoves(r, m)
        PROVE  Grows
    <3>1. rooms \in Seq(Room) /\ rooms[r] \in Room
      BY DEF Inv, TypeOK
    <3>2. /\ [rooms[r] EXCEPT !.other = m] \in Room
          /\ [rooms[r] EXCEPT !.other = m].me = rooms[r].me
      BY <3>1 DEF Room
    <3>3. rooms' = [rooms EXCEPT ![r] = [rooms[r] EXCEPT !.other = m]]
      BY <2>2 DEF PeerMoves
    <3>4. rooms' \in Seq(Room) /\ DOMAIN rooms' = DOMAIN rooms
      BY <3>1, <3>2, <3>3
    <3>5. \A s \in DOMAIN rooms : rooms'[s].me = rooms[s].me
      BY <3>1, <3>2, <3>3
    <3> QED BY <2>2, <3>4, <3>5 DEF PeerMoves, RoomsGrow
  <2> QED BY <2>1, <2>2
<1>2. \A r : WasIn(rooms, r) => WasIn(rooms', r)
  BY <1>1 DEF WasIn, RoomsGrow
<1>3. TypeOK'
  BY <1>1 DEF Inv, TypeOK, RoomsGrow
<1>4. CacheLags' /\ ListedWereJoined'
  BY <1>1, <1>2 DEF Inv, CacheLags, ListedWereJoined, RoomsGrow, WasIn
<1>5. CallsHoldJoined'
  BY <1>1, <1>2 DEF Inv, CallsHoldJoined, RoomsGrow
<1> QED BY <1>3, <1>4, <1>5 DEF Inv

\* A call begins.
LEMMA CallsInv ==
    ASSUME Inv, Calls
    PROVE  Inv'
<1>1. PICK t \in Task, op \in Op, p \in Peer, r \in Nat : Call(t, op, p, r)
  <2>1. \A s \in DOMAIN rooms : s \in Nat /\ rooms[s].peer \in Peer
    <3>1. rooms \in Seq(Room)
      BY DEF Inv, TypeOK
    <3>2. \A s \in DOMAIN rooms : s \in Nat /\ rooms[s] \in Room
      BY <3>1
    <3> QED BY <3>2 DEF Room
  <2>2. NoLocal.peer \in Peer
    BY NoLocalType DEF Local
  <2> QED BY <2>1, <2>2 DEF Calls, Op, CreateChat, BlockHandle, UnblockHandle,
       AcceptInvitation, DeclineInvitation, ListInvitations, ListJoined
<1>2. loc' \in [Task -> Local] /\ \A u \in Task \ {t} : loc'[u] = loc[u]
  BY <1>1 DEF Call, NewLocal, Inv, TypeOK, Local
<1>3. FirstLabel(op) \in {"userExists", "getRoom", "find"}
  BY DEF FirstLabel, Op
<1>4. FirstLabel(op) \in Label
  BY <1>3 DEF Label
<1> QED BY <1>1, <1>2, <1>3, <1>4, MovesInv DEF Call, server

\* Every step preserves the invariant.
LEMMA NextInv == Inv /\ [Next]_vars => Inv'
<1> SUFFICES ASSUME Inv, [Next]_vars PROVE Inv'
  OBVIOUS
<1>1. CASE UNCHANGED vars
  BY <1>1 DEF vars, Inv, TypeOK, CacheLags, ListedWereJoined, CallsHoldJoined, WasIn
<1>2. CASE Calls
  BY <1>2, CallsInv
<1>3. CASE Others
  BY <1>3, SyncInv, PeersInv DEF Others
<1>4. ASSUME NEW t \in Task, Step(t) PROVE Inv'
  <2>1. CASE Fails(t) \/ HandleNotFound(t)
    BY <2>1, SettlesInv DEF Fails, HandleNotFound, server, Done
  <2> QED BY <1>4, <2>1, CreateInv, AcceptInv, ListInv, BlockInv DEF Step
<1> QED BY <1>1, <1>2, <1>3, <1>4 DEF Next

\* The inductive invariant holds in every reachable state.
THEOREM ChatsInvariant == Spec => []Inv
BY InitInv, NextInv, PTL DEF Spec

\* Type correctness, for every set of calls and peers.
THEOREM ChatsTypeCorrect == Spec => []TypeOK
BY ChatsInvariant, PTL DEF Inv

\* An invitation in the cache never appears on the cached list, so that
\* findDirectChatRooms finds nothing there and falls back to the members.
LEMMA InvitationsFallBack == Inv => InvitationsListed
<1> SUFFICES ASSUME Inv, NEW i \in RoomsWith("invite")
             PROVE  i \in findDirectChatRooms("invite")
  BY DEF InvitationsListed
<1>1. {r \in RoomsWith("invite") : r \in view.direct /\ ~SomebodyLeft(r)} = {}
  BY DEF Inv, ListedWereJoined, RoomsWith
<1>2. IsDirect(i)
  BY DEF RoomsWith, IsDirect
<1> QED BY <1>1, <1>2 DEF findDirectChatRooms

\* listInvitations hides no invitation (findDirectChatRooms), whatever calls
\* overlap and whatever requests fail.
THEOREM NoHiddenInvitation == Spec => []InvitationsListed
BY ChatsInvariant, InvitationsFallBack, PTL

-----------------------------------------------------------------------------
(***************************************************************************)
(* What DirectChats gives an application that awaits its calls, when no    *)
(* request fails: for every set of peers and every number of rooms, and    *)
(* whatever the other handles do meanwhile.                                *)
(***************************************************************************)

\* A call begins when the last one is over and synced; requests succeed.
Careful == Awaited = TRUE /\ Faults = FALSE

\* A chat that both are in or that the peer may still join.
Live(r) == r \in DOMAIN rooms /\ rooms[r].me = "join" /\ rooms[r].other # "leave"

\* The list the cache has, or will have after the next sync response.
Best == IF "direct" \in unsent THEN direct ELSE view.direct

Adding == {"created", "joined", "putDirect"}

Single == \A t, u \in Task : pc[t] \notin Done /\ pc[u] \notin Done => t = u

\* Every live chat is on the list or about to be put there by a call.
Found == \A r : Live(r) => \/ r \in Best
                           \/ \E t \in Task : pc[t] \in Adding /\ loc[t].room = r

Told == "ignored" \notin unsent => view.ignored = ignored

\* What a call has read is still so.
Holds(t) ==
    /\ pc[t] \notin Done => unsent = {}
    /\ pc[t] \in {"joinRoom", "joined", "members"} => loc[t].list = view.direct
    /\ pc[t] = "putDirect" => loc[t].list = view.direct \cup {loc[t].room}
    /\ pc[t] = "createRoom" => \A r : Live(r) => rooms[r].peer # loc[t].peer
    /\ loc[t].op = "unblock" => pc[t] \in {"userExists", "putIgnored"}
    /\ loc[t].op = "unblock" /\ pc[t] = "putIgnored"
          => loc[t].handles = ignored \ {loc[t].peer}

Held == Careful => Single /\ Found /\ Told /\ \A t \in Task : Holds(t)

-----------------------------------------------------------------------------
\* While a call runs, the others are over: only the call that moves matters.
LEMMA OneMoves ==
    ASSUME Inv, Held, Careful, NEW t \in Task, pc[t] \notin Done,
           \A u \in Task \ {t} : pc'[u] = pc[u] /\ loc'[u] = loc[u],
           Found', Told', Holds(t)'
    PROVE  Held'
<1>1. \A u \in Task \ {t} : pc[u] \in Done /\ loc[u].op # "unblock"
  BY DEF Held, Single, Holds, Done
<1>2. Single'
  BY <1>1 DEF Single
<1>3. \A u \in Task : Holds(u)'
  BY <1>1 DEF Holds, Done
<1> QED BY <1>2, <1>3 DEF Held

\* A step that changes neither the server nor the cache.
LEMMA QuietHeld ==
    ASSUME Inv, Held, Careful, NEW t \in Task, pc[t] \notin Done,
           \A u \in Task \ {t} : pc'[u] = pc[u] /\ loc'[u] = loc[u],
           UNCHANGED <<rooms, direct, ignored, unsent, view>>,
           pc[t] \in Adding => \/ loc[t].room \in view.direct
                               \/ pc'[t] \in Adding /\ loc'[t].room = loc[t].room,
           Holds(t)'
    PROVE  Held'
<1>1. unsent = {} /\ Found /\ Told
  BY DEF Held, Holds
<1>2. Told'
  BY <1>1 DEF Told
<1>3. Found'
  <2> SUFFICES ASSUME NEW r, Live(r)'
               PROVE  r \in Best' \/ \E u \in Task : pc'[u] \in Adding /\ loc'[u].room = r
    BY DEF Found
  <2>1. Live(r) /\ Best = view.direct /\ Best' = view.direct
    BY <1>1 DEF Live, Best
  <2>2. CASE r \in view.direct
    BY <2>1, <2>2
  <2>3. CASE \E u \in Task : pc[u] \in Adding /\ loc[u].room = r
    <3>1. PICK u \in Task : pc[u] \in Adding /\ loc[u].room = r
      BY <2>3
    <3>2. CASE u = t
      BY <2>1, <3>1, <3>2
    <3>3. CASE u # t
      BY <3>1, <3>3
    <3> QED BY <3>2, <3>3
  <2> QED BY <1>1, <2>1, <2>2, <2>3 DEF Found
<1> QED BY <1>2, <1>3, OneMoves

\* A call that ends without a change.
LEMMA SettlesHeld ==
    ASSUME Inv, Held, Careful, NEW t \in Task, NEW l \in Done, pc[t] \notin Done,
           Settle(t, l), UNCHANGED <<rooms, direct, ignored, unsent, view>>,
           pc[t] \in Adding => loc[t].room \in view.direct
    PROVE  Held'
<1>1. /\ pc'[t] \in Done /\ loc'[t].op = "create"
      /\ \A u \in Task \ {t} : pc'[u] = pc[u] /\ loc'[u] = loc[u]
  BY SettleType DEF Inv, TypeOK, Settle, NoLocal, NewLocal
<1>2. Holds(t)'
  BY <1>1 DEF Holds, Done
<1> QED BY <1>1, <1>2, QuietHeld

\* What is left of a call, and of the others, after it moved on.
LEMMA MovedOn ==
    ASSUME Inv, NEW t \in Task, NEW l \in Label, Goto(t, l)
    PROVE  pc'[t] = l /\ \A u \in Task \ {t} : pc'[u] = pc[u]
BY DEF Inv, TypeOK, Goto

-----------------------------------------------------------------------------
\* Creating a chat up to the request.
LEMMA CheckHeld ==
    ASSUME Inv, Held, Careful, NEW t \in Task,
           CreateUserExists(t) \/ ReadDirectChats(t) \/ CheckMembers(t)
    PROVE  Held'
<1>0. /\ pc[t] \notin Done /\ pc[t] \notin Adding /\ loc \in [Task -> Local]
      /\ loc[t].op # "unblock" /\ UNCHANGED <<rooms, direct, ignored, unsent, view>>
  BY DEF CreateUserExists, ReadDirectChats, CheckMembers, Done, Adding, Inv, TypeOK, Held,
     Holds, server
<1>1. unsent = {}
  BY <1>0 DEF Held, Holds
<1>2. CASE CreateUserExists(t)
  <2>1. pc'[t] = "chatExists" /\ loc' = loc /\ \A u \in Task \ {t} : pc'[u] = pc[u]
    BY <1>2, MovedOn DEF CreateUserExists, Label
  <2>2. Holds(t)'
    BY <1>0, <1>1, <2>1 DEF Holds
  <2> QED BY <1>0, <2>1, <2>2, QuietHeld
<1>3. CASE ReadDirectChats(t)
  <2>1. pc'[t] = "members" /\ \A u \in Task \ {t} : pc'[u] = pc[u]
    BY <1>3, MovedOn DEF ReadDirectChats, Label
  <2>2. DOMAIN view.rooms \cap view.direct = view.direct
    BY DEF Inv, ListedWereJoined
  <2>3. loc' = [loc EXCEPT ![t].list = view.direct]
    BY <1>3, <2>2 DEF ReadDirectChats
  <2>4. /\ loc'[t].list = view.direct /\ loc'[t].op = loc[t].op
        /\ \A u \in Task \ {t} : loc'[u] = loc[u]
    BY <1>0, <2>3 DEF Local
  <2>5. Holds(t)'
    BY <1>0, <1>1, <2>1, <2>4 DEF Holds
  <2> QED BY <1>0, <2>1, <2>4, <2>5, QuietHeld
<1>4. CASE CheckMembers(t)
  <2>1. CASE Settle(t, "rejected")
    BY <1>0, <2>1, SettlesHeld DEF Done
  <2>2. CASE ~chatExists(t) /\ Goto(t, "createRoom") /\ UNCHANGED loc
    <3>1. pc'[t] = "createRoom" /\ \A u \in Task \ {t} : pc'[u] = pc[u]
      BY <2>2, MovedOn DEF Label
    <3>2. loc[t].list = view.direct /\ Best = view.direct
      BY <1>1, <1>4 DEF CheckMembers, Held, Holds, Best
    <3>3. \A u \in Task : pc[u] \notin Adding
      <4>1. \A u \in Task \ {t} : pc[u] \in Done
        BY <1>0 DEF Held, Single
      <4> QED BY <1>0, <4>1 DEF Done, Adding
    <3>4. ASSUME NEW r, Live(r) PROVE rooms[r].peer # loc[t].peer
      <4>1. r \in loc[t].list
        BY <3>2, <3>3, <3>4 DEF Held, Found
      <4>2. rooms[r] \in Room
        BY <3>4 DEF Live, Inv, TypeOK
      <4>3. rooms[r].other \in {"join", "invite"}
        BY <3>4, <4>2 DEF Live, Room, Membership
      <4> QED BY <2>2, <4>1, <4>3 DEF chatExists
    <3>5. Holds(t)'
      BY <1>0, <1>1, <2>2, <3>1, <3>4 DEF Holds, Live
    <3> QED BY <1>0, <2>2, <3>1, <3>5, QuietHeld
  <2> QED BY <1>4, <2>1, <2>2 DEF CheckMembers
<1> QED BY <1>2, <1>3, <1>4

\* The room is made and put on the list.
LEMMA MakeHeld ==
    ASSUME Inv, Held, Careful, NEW t \in Task,
           CreateRoom(t) \/ AddToOwnList(t) \/ PutDirect(t)
    PROVE  Held'
<1>0. pc[t] \notin Done /\ loc \in [Task -> Local] /\ rooms \in Seq(Room)
  BY DEF CreateRoom, AddToOwnList, PutDirect, Done, Inv, TypeOK
<1>1. unsent = {} /\ Best = view.direct /\ Told /\ Found
  BY <1>0 DEF Held, Holds, Best
<1>a. loc[t].op # "unblock"
  BY DEF CreateRoom, AddToOwnList, PutDirect, Held, Holds
<1>b. \A u \in Task \ {t} : pc[u] \notin Adding
  <2>1. \A u \in Task \ {t} : pc[u] \in Done
    BY <1>0 DEF Held, Single
  <2> QED BY <2>1 DEF Done, Adding
<1>2. CASE CreateRoom(t)
  <2> DEFINE n == Len(rooms) + 1
  <2>1. pc'[t] = "created" /\ \A u \in Task \ {t} : pc'[u] = pc[u]
    BY <1>2, MovedOn DEF CreateRoom, Label
  <2>2. /\ DOMAIN rooms' = 1..n /\ DOMAIN rooms = 1..Len(rooms) /\ Len(rooms) \in Nat
        /\ \A r \in DOMAIN rooms : rooms'[r] = rooms[r]
    BY <1>0, <1>2 DEF CreateRoom
  <2>3. /\ loc'[t].room = n /\ loc'[t].op = loc[t].op
        /\ \A u \in Task \ {t} : loc'[u] = loc[u]
    <3>1. n \in Nat /\ loc' = [loc EXCEPT ![t].room = n]
      BY <1>2, <2>2 DEF CreateRoom
    <3> HIDE DEF n
    <3> QED BY <1>0, <3>1 DEF Local
  <2>4. UNCHANGED <<direct, ignored, unsent, view>>
    BY <1>2 DEF CreateRoom
  <2>5. Found'
    <3> SUFFICES ASSUME NEW r, Live(r)'
                 PROVE  r \in Best' \/ \E u \in Task : pc'[u] \in Adding /\ loc'[u].room = r
      BY DEF Found
    <3>1. CASE r = n
      BY <2>1, <2>3, <3>1 DEF Adding
    <3>2. CASE r # n
      <4>1. Live(r)
        BY <2>2, <3>2 DEF Live
      <4>2. pc[t] \notin Adding
        BY <1>2 DEF CreateRoom, Adding
      <4>3. r \in view.direct
        BY <1>1, <1>b, <4>1, <4>2 DEF Found
      <4> QED BY <1>1, <2>4, <4>3 DEF Best
    <3> QED BY <3>1, <3>2
  <2>6. Told'
    BY <1>1, <2>4 DEF Told
  <2>7. Holds(t)'
    BY <1>1, <1>a, <2>1, <2>3, <2>4 DEF Holds
  <2> QED BY <1>0, <2>1, <2>3, <2>5, <2>6, <2>7, OneMoves
<1>3. CASE AddToOwnList(t)
  <2>1. UNCHANGED <<rooms, direct, ignored, unsent, view>> /\ pc[t] = "created"
    BY <1>3 DEF AddToOwnList, server
  <2>2. CASE loc[t].room \in view.direct /\ Settle(t, "idle")
    BY <1>0, <2>1, <2>2, SettlesHeld DEF Done
  <2>3. CASE /\ loc' = [loc EXCEPT ![t].list = view.direct \cup {loc[t].room}]
             /\ Goto(t, "putDirect")
    <3>1. pc'[t] = "putDirect" /\ \A u \in Task \ {t} : pc'[u] = pc[u]
      BY <2>3, MovedOn DEF Label
    <3>2. /\ loc'[t].list = view.direct \cup {loc[t].room} /\ loc'[t].room = loc[t].room
          /\ loc'[t].op = loc[t].op /\ \A u \in Task \ {t} : loc'[u] = loc[u]
      BY <1>0, <2>3 DEF Local
    <3>3. Holds(t)'
      BY <1>1, <1>a, <2>1, <3>1, <3>2 DEF Holds
    <3> QED BY <1>0, <2>1, <3>1, <3>2, <3>3, QuietHeld DEF Adding
  <2> QED BY <1>3, <2>2, <2>3 DEF AddToOwnList
<1>4. CASE PutDirect(t)
  <2>1. /\ pc'[t] = "idle" /\ loc'[t].op = "create"
        /\ \A u \in Task \ {t} : pc'[u] = pc[u] /\ loc'[u] = loc[u]
    BY <1>0, <1>4 DEF PutDirect, Settle, NoLocal, NewLocal, Inv, TypeOK
  <2>2. /\ direct' = view.direct \cup {loc[t].room} /\ "direct" \in unsent'
        /\ rooms' = rooms /\ ignored' = ignored /\ view' = view
    BY <1>4 DEF PutDirect, setDirect, Held, Holds
  <2>3. "ignored" \notin unsent'
    BY <1>1, <1>4 DEF PutDirect, setDirect
  <2>4. Found'
    BY <1>1, <1>b, <2>2 DEF Found, Live, Best
  <2>5. Told'
    BY <1>1, <2>2 DEF Told
  <2>6. Holds(t)'
    BY <2>1 DEF Holds, Done
  <2> QED BY <1>0, <2>1, <2>4, <2>5, <2>6, OneMoves
<1> QED BY <1>2, <1>3, <1>4
-----------------------------------------------------------------------------
\* Only the handle's own membership of one room changes.
LEMMA OneRoom ==
    ASSUME Inv, NEW r \in DOMAIN rooms, NEW m \in {"join", "leave"},
           rooms' = [rooms EXCEPT ![r].me = m]
    PROVE  /\ DOMAIN rooms' = DOMAIN rooms /\ rooms'[r].me = m
           /\ \A s \in DOMAIN rooms \ {r} : rooms'[s] = rooms[s]
<1>1. rooms \in Seq(Room) /\ rooms[r] \in Room
  BY DEF Inv, TypeOK
<1>2. rooms' = [rooms EXCEPT ![r] = [rooms[r] EXCEPT !.me = m]]
  OBVIOUS
<1> QED BY <1>1, <1>2 DEF Room

\* A room that is left is no longer live, and the others stay on the list.
LEMMA LeaveHeld ==
    ASSUME Inv, Held, Careful, NEW t \in Task, NEW r \in DOMAIN rooms,
           pc[t] \notin Done, pc[t] \notin Adding, leave(r),
           UNCHANGED <<direct, ignored, unsent>>,
           \A u \in Task \ {t} : pc'[u] = pc[u] /\ loc'[u] = loc[u],
           view.direct \ {r} \subseteq view'.direct, view'.ignored = view.ignored,
           Holds(t)'
    PROVE  Held'
<1>1. unsent = {} /\ Found /\ Told /\ \A u \in Task : pc[u] \notin Adding
  BY DEF Held, Holds, Single, Done, Adding
<1>2. /\ DOMAIN rooms' = DOMAIN rooms /\ rooms'[r].me = "leave"
      /\ \A s \in DOMAIN rooms \ {r} : rooms'[s] = rooms[s]
  BY OneRoom DEF leave
<1>3. \A s : Live(s)' => Live(s) /\ s # r
  BY <1>2 DEF Live
<1>4. Found'
  BY <1>1, <1>3 DEF Found, Best
<1>5. Told'
  BY <1>1 DEF Told
<1> QED BY <1>4, <1>5, OneMoves

\* Accepting and declining.
LEMMA AcceptHeld ==
    ASSUME Inv, Held, Careful, NEW t \in Task,
           \/ RoomNotFound(t) \/ joinDirectChat(t) \/ JoinRoom(t) \/ Joined(t)
           \/ declineInvitation(t) \/ LeaveRoom(t)
    PROVE  Held'
<1>0. /\ pc[t] \notin Done /\ loc \in [Task -> Local] /\ loc[t].op # "unblock"
      /\ UNCHANGED <<direct, ignored, unsent, view>>
  BY DEF RoomNotFound, joinDirectChat, JoinRoom, Joined, declineInvitation, LeaveRoom, Done,
     Inv, TypeOK, Held, Holds, server
<1>1. unsent = {} /\ Found /\ Told /\ Best = view.direct
  BY <1>0 DEF Held, Holds, Best
<1>b. \A u \in Task \ {t} : pc[u] \notin Adding
  BY <1>0 DEF Held, Single, Done, Adding
<1>2. CASE RoomNotFound(t)
  BY <1>0, <1>2, SettlesHeld DEF RoomNotFound, server, Done, Adding
<1>3. CASE joinDirectChat(t)
  <2>1. pc'[t] = "joinRoom" /\ \A u \in Task \ {t} : pc'[u] = pc[u]
    BY <1>3, MovedOn DEF joinDirectChat, Label
  <2>2. /\ loc'[t].list = view.direct /\ loc'[t].op = loc[t].op
        /\ \A u \in Task \ {t} : loc'[u] = loc[u]
    BY <1>0, <1>3 DEF joinDirectChat, Local
  <2>3. Holds(t)'
    BY <1>0, <1>1, <2>1, <2>2 DEF Holds
  <2> QED BY <1>0, <1>3, <2>1, <2>2, <2>3, QuietHeld DEF joinDirectChat, server, Adding
<1>4. CASE JoinRoom(t)
  <2> DEFINE r == loc[t].room
  <2>1. CASE Settle(t, "rejected") /\ UNCHANGED rooms
    BY <1>0, <1>4, <2>1, SettlesHeld DEF JoinRoom, Done, Adding
  <2>2. CASE /\ Goto(t, "joined") /\ UNCHANGED loc
             /\ rooms' = [rooms EXCEPT ![r].me = "join"]
    <3>1. pc'[t] = "joined" /\ \A u \in Task \ {t} : pc'[u] = pc[u]
      BY <2>2, MovedOn DEF Label
    <3>2. r \in DOMAIN rooms /\ pc[t] = "joinRoom" /\ loc[t].list = view.direct
      BY <1>4 DEF JoinRoom, Inv, CallsHoldJoined, Held, Holds
    <3>3. DOMAIN rooms' = DOMAIN rooms /\ \A s \in DOMAIN rooms \ {r} : rooms'[s] = rooms[s]
      BY <2>2, <3>2, OneRoom
    <3>4. Found'
      <4> SUFFICES ASSUME NEW s, Live(s)'
                   PROVE  s \in Best' \/ \E u \in Task : pc'[u] \in Adding /\ loc'[u].room = s
        BY DEF Found
      <4>1. CASE s = r
        BY <2>2, <3>1, <4>1 DEF Adding
      <4>2. CASE s # r
        <5>1. Live(s)
          BY <3>3, <4>2 DEF Live
        <5>2. s \in view.direct
          BY <1>1, <1>b, <3>2, <5>1 DEF Found, Adding
        <5> QED BY <1>0, <1>1, <5>2 DEF Best
      <4> QED BY <4>1, <4>2
    <3>5. Told'
      BY <1>0, <1>1 DEF Told
    <3>6. Holds(t)'
      BY <1>0, <1>1, <2>2, <3>1, <3>2 DEF Holds
    <3> QED BY <1>0, <2>2, <3>1, <3>4, <3>5, <3>6, OneMoves
  <2> QED BY <1>4, <2>1, <2>2 DEF JoinRoom
<1>5. CASE Joined(t)
  <2>1. pc[t] = "joined" /\ loc[t].list = view.direct /\ UNCHANGED rooms
    BY <1>5 DEF Joined, Held, Holds, server
  <2>2. CASE loc[t].room \in loc[t].list /\ Settle(t, "idle")
    BY <1>0, <2>1, <2>2, SettlesHeld DEF Done
  <2>3. CASE /\ loc' = [loc EXCEPT ![t].list = @ \cup {loc[t].room}]
             /\ Goto(t, "putDirect")
    <3>1. pc'[t] = "putDirect" /\ \A u \in Task \ {t} : pc'[u] = pc[u]
      BY <2>3, MovedOn DEF Label
    <3>2. /\ loc'[t].list = view.direct \cup {loc[t].room} /\ loc'[t].room = loc[t].room
          /\ loc'[t].op = loc[t].op /\ \A u \in Task \ {t} : loc'[u] = loc[u]
      BY <1>0, <2>1, <2>3 DEF Local
    <3>3. Holds(t)'
      BY <1>0, <1>1, <2>1, <3>1, <3>2 DEF Holds
    <3> QED BY <1>0, <2>1, <3>1, <3>2, <3>3, QuietHeld DEF Adding
  <2> QED BY <1>5, <2>2, <2>3 DEF Joined
<1>6. CASE declineInvitation(t)
  <2>1. pc'[t] = "leaveRoom" /\ loc' = loc /\ \A u \in Task \ {t} : pc'[u] = pc[u]
    BY <1>6, MovedOn DEF declineInvitation, Label
  <2>2. Holds(t)'
    BY <1>0, <1>1, <2>1 DEF Holds
  <2> QED BY <1>0, <1>6, <2>1, <2>2, QuietHeld DEF declineInvitation, server, Adding
<1>7. CASE LeaveRoom(t)
  <2>1. /\ pc'[t] = "idle" /\ loc'[t].op = "create"
        /\ \A u \in Task \ {t} : pc'[u] = pc[u] /\ loc'[u] = loc[u]
    BY <1>0, <1>7 DEF LeaveRoom, Settle, NoLocal, NewLocal, Inv, TypeOK
  <2>2. pc[t] = "leaveRoom" /\ leave(loc[t].room) /\ loc[t].room \in DOMAIN rooms
    BY <1>7 DEF LeaveRoom, Inv, CallsHoldJoined
  <2>3. Holds(t)'
    BY <2>1 DEF Holds, Done
  <2> QED BY <1>0, <2>1, <2>2, <2>3, LeaveHeld DEF Adding
<1> QED BY <1>2, <1>3, <1>4, <1>5, <1>6, <1>7

-----------------------------------------------------------------------------
\* Listing takes off the cached list what it leaves.
LEMMA ListHeld ==
    ASSUME Inv, Held, Careful, NEW t \in Task,
           \/ FindRooms(t) \/ Listed(t)
           \/ \E r \in DOMAIN rooms : LeaveStale(t, r)
    PROVE  Held'
<1>0. pc[t] \in {"find", "cleanUp"} /\ loc \in [Task -> Local] /\ loc[t].op # "unblock"
  BY DEF FindRooms, Listed, LeaveStale, Inv, TypeOK, Held, Holds
<1>1. pc[t] \notin Done /\ pc[t] \notin Adding /\ unsent = {}
  BY <1>0 DEF Done, Adding, Held, Holds
<1>2. CASE FindRooms(t)
  <2> DEFINE stale == StaleRooms(IF loc[t].op = "listJoin" THEN "join" ELSE "invite")
  <2>1. pc'[t] = "cleanUp" /\ \A u \in Task \ {t} : pc'[u] = pc[u]
    BY <1>2, MovedOn DEF FindRooms, Label
  <2>2. loc' = [loc EXCEPT ![t] = [@ EXCEPT !.list = view.direct, !.stale = stale]]
    BY <1>2 DEF FindRooms
  <2>3. loc'[t].op = loc[t].op /\ \A u \in Task \ {t} : loc'[u] = loc[u]
    <3> HIDE DEF stale
    <3> QED BY <1>0, <2>2 DEF Local
  <2>4. UNCHANGED <<rooms, direct, ignored, unsent, view>>
    BY <1>2 DEF FindRooms, server
  <2>5. Holds(t)'
    BY <1>0, <1>1, <2>1, <2>3, <2>4 DEF Holds
  <2> QED BY <1>1, <2>1, <2>3, <2>4, <2>5, QuietHeld
<1>3. CASE Listed(t)
  BY <1>1, <1>3, SettlesHeld DEF Listed, server, Done
<1>4. ASSUME NEW r \in DOMAIN rooms, LeaveStale(t, r)
      PROVE  Held'
  <2>1. loc'[t].op = loc[t].op /\ \A u \in Task \ {t} : loc'[u] = loc[u]
    <3>1. loc' = [loc EXCEPT ![t].list = @ \ {r}, ![t].stale = @ \ {r}]
      BY <1>4 DEF LeaveStale
    <3> QED BY <1>0, <3>1 DEF Local
  <2>2. pc[t] = "cleanUp" /\ pc' = pc /\ leave(r) /\ UNCHANGED <<direct, ignored, unsent>>
    BY <1>4 DEF LeaveStale
  <2>3. view.direct \ {r} \subseteq view'.direct /\ view'.ignored = view.ignored
    BY <1>4 DEF LeaveStale, Inv, TypeOK
  <2>4. Holds(t)'
    BY <1>0, <1>1, <2>1, <2>2 DEF Holds
  <2> QED BY <1>1, <2>1, <2>2, <2>3, <2>4, LeaveHeld
<1> QED BY <1>2, <1>3, <1>4

\* Blocking and unblocking, and an unknown handle.
LEMMA BlockHeld ==
    ASSUME Inv, Held, Careful, NEW t \in Task,
           HandleNotFound(t) \/ ignoreHandle(t) \/ unignoreHandle(t) \/ setIgnoredUsers(t)
    PROVE  Held'
<1>0. pc[t] \in {"userExists", "putIgnored"} /\ loc \in [Task -> Local]
  BY DEF HandleNotFound, ignoreHandle, unignoreHandle, setIgnoredUsers, Inv, TypeOK
<1>1. /\ pc[t] \notin Done /\ pc[t] \notin Adding /\ unsent = {} /\ Found
      /\ view.ignored = ignored
  BY <1>0 DEF Done, Adding, Held, Holds, Told
<1>2. CASE HandleNotFound(t)
  BY <1>1, <1>2, SettlesHeld DEF HandleNotFound, server, Done
<1>3. CASE ignoreHandle(t)
  <2>1. pc'[t] = "putIgnored" /\ \A u \in Task \ {t} : pc'[u] = pc[u]
    BY <1>3, MovedOn DEF ignoreHandle, Label
  <2>2. loc'[t].op = "block" /\ \A u \in Task \ {t} : loc'[u] = loc[u]
    BY <1>0, <1>3 DEF ignoreHandle, Local
  <2>3. UNCHANGED <<rooms, direct, ignored, unsent, view>>
    BY <1>3 DEF ignoreHandle, server
  <2>4. Holds(t)'
    BY <1>1, <2>1, <2>2, <2>3 DEF Holds
  <2> QED BY <1>1, <2>1, <2>2, <2>3, <2>4, QuietHeld
<1>4. CASE unignoreHandle(t)
  <2>1. UNCHANGED <<rooms, direct, ignored, unsent, view>>
    BY <1>4 DEF unignoreHandle, server
  <2>2. CASE Settle(t, "idle")
    BY <1>1, <2>1, <2>2, SettlesHeld DEF Done
  <2>3. CASE /\ loc' = [loc EXCEPT ![t].handles = view.ignored \ {loc[t].peer}]
             /\ Goto(t, "putIgnored")
    <3>1. pc'[t] = "putIgnored" /\ \A u \in Task \ {t} : pc'[u] = pc[u]
      BY <2>3, MovedOn DEF Label
    <3>2. /\ loc'[t].handles = ignored \ {loc[t].peer} /\ loc'[t].peer = loc[t].peer
          /\ \A u \in Task \ {t} : loc'[u] = loc[u]
      BY <1>0, <1>1, <2>3 DEF Local
    <3>3. Holds(t)'
      BY <1>1, <2>1, <3>1, <3>2 DEF Holds
    <3> QED BY <1>1, <2>1, <3>1, <3>2, <3>3, QuietHeld
  <2> QED BY <1>4, <2>2, <2>3 DEF unignoreHandle
<1>5. CASE setIgnoredUsers(t)
  <2>1. /\ pc'[t] = "idle" /\ loc'[t].op = "create"
        /\ \A u \in Task \ {t} : pc'[u] = pc[u] /\ loc'[u] = loc[u]
    BY <1>0, <1>5 DEF setIgnoredUsers, Settle, NoLocal, NewLocal, Inv, TypeOK
  <2>2. unsent' = {"ignored"} /\ rooms' = rooms /\ direct' = direct /\ view' = view
    BY <1>1, <1>5 DEF setIgnoredUsers
  <2>3. \A u \in Task : pc[u] \notin Adding
    BY <1>1 DEF Held, Single, Done, Adding
  <2>4. Found'
    BY <1>1, <2>2, <2>3 DEF Found, Live, Best
  <2>5. Told'
    BY <2>2 DEF Told
  <2>6. Holds(t)'
    BY <2>1 DEF Holds, Done
  <2> QED BY <1>1, <2>1, <2>4, <2>5, <2>6, OneMoves
<1> QED BY <1>2, <1>3, <1>4, <1>5

-----------------------------------------------------------------------------
\* A sync response tells what was written; no call is under way then.
LEMMA SyncHeld ==
    ASSUME Inv, Held, Careful, Sync
    PROVE  Held'
<1>1. /\ view'.direct = Best /\ unsent' = {} /\ UNCHANGED <<rooms, direct, ignored, pc, loc>>
      /\ view'.ignored = IF "ignored" \in unsent THEN ignored ELSE view.ignored
  BY DEF Sync, Best
<1>2. Found' /\ Single'
  BY <1>1 DEF Held, Found, Live, Best, Single
<1>3. Told'
  BY <1>1 DEF Held, Told
<1>4. ASSUME NEW t \in Task PROVE Holds(t)'
  <2>1. unsent = {} => view'.direct = view.direct
    BY <1>1 DEF Best
  <2>2. Holds(t)
    BY DEF Held
  <2>3. CASE pc[t] \in Done
    BY <1>1, <2>2, <2>3 DEF Holds, Done, Live
  <2>4. CASE pc[t] \notin Done
    <3>1. view'.direct = view.direct
      BY <2>1, <2>2, <2>4 DEF Holds
    <3> QED BY <1>1, <2>2, <3>1 DEF Holds, Live
  <2> QED BY <2>3, <2>4
<1> QED BY <1>2, <1>3, <1>4 DEF Held

\* The other handles make no chat live, and none changes its peer.
LEMMA PeersHeld ==
    ASSUME Inv, Held, Careful,
           \/ \E p \in Peer : PeerInvites(p)
           \/ \E r \in DOMAIN rooms, m \in Membership : PeerMoves(r, m)
    PROVE  Held'
<1>1. UNCHANGED <<direct, ignored, unsent, view, pc, loc>> /\ rooms \in Seq(Room)
  BY DEF PeerInvites, PeerMoves, Inv, TypeOK
<1>2. \A s : Live(s)' => Live(s) /\ rooms'[s].peer = rooms[s].peer
  <2>1. ASSUME NEW p \in Peer, PeerInvites(p), NEW s, Live(s)'
        PROVE  Live(s) /\ rooms'[s].peer = rooms[s].peer
    <3> DEFINE new == [peer |-> p, me |-> "invite", other |-> "join"]
    <3>1. rooms' = Append(rooms, new) /\ new.me = "invite"
      BY <2>1 DEF PeerInvites
    <3>2. s \in DOMAIN rooms' /\ rooms'[s].me = "join" /\ rooms'[s].other # "leave"
      BY <2>1 DEF Live
    <3> HIDE DEF new
    <3>3. s \in DOMAIN rooms /\ rooms'[s] = rooms[s]
      BY <1>1, <3>1, <3>2
    <3> QED BY <3>2, <3>3 DEF Live
  <2>2. ASSUME NEW r \in DOMAIN rooms, NEW m \in Membership, PeerMoves(r, m), NEW s, Live(s)'
        PROVE  Live(s) /\ rooms'[s].peer = rooms[s].peer
    <3>1. rooms[r] \in Room /\ rooms[r].other # "leave"
      BY <1>1, <2>2 DEF PeerMoves
    <3>2. rooms' = [rooms EXCEPT ![r] = [rooms[r] EXCEPT !.other = m]]
      BY <2>2 DEF PeerMoves
    <3>3. /\ DOMAIN rooms' = DOMAIN rooms /\ rooms'[r].me = rooms[r].me
          /\ rooms'[r].peer = rooms[r].peer
          /\ \A q \in DOMAIN rooms \ {r} : rooms'[q] = rooms[q]
      BY <1>1, <3>1, <3>2 DEF Room
    <3> QED BY <2>2, <3>1, <3>3 DEF Live
  <2> QED BY <2>1, <2>2
<1>3. Found' /\ Single' /\ Told'
  BY <1>1, <1>2 DEF Held, Found, Best, Single, Told
<1>4. \A t \in Task : Holds(t)'
  BY <1>1, <1>2 DEF Held, Holds
<1> QED BY <1>3, <1>4 DEF Held

\* A call begins when the last one is over and its writes have come back.
LEMMA CallsHeld ==
    ASSUME Inv, Held, Careful, Calls
    PROVE  Held'
<1>1. PICK t \in Task, op \in Op, p \in Peer, r \in Nat : Call(t, op, p, r)
  <2>1. \A s \in DOMAIN rooms : s \in Nat /\ rooms[s].peer \in Peer
    <3>1. rooms \in Seq(Room)
      BY DEF Inv, TypeOK
    <3>2. \A s \in DOMAIN rooms : s \in Nat /\ rooms[s] \in Room
      BY <3>1
    <3> QED BY <3>2 DEF Room
  <2>2. NoLocal.peer \in Peer
    BY NoLocalType DEF Local
  <2> QED BY <2>1, <2>2 DEF Calls, Op, CreateChat, BlockHandle, UnblockHandle,
       AcceptInvitation, DeclineInvitation, ListInvitations, ListJoined
<1>2. unsent = {} /\ \A u \in Task : pc[u] \in Done
  BY <1>1 DEF Call, Careful, Synced
<1>3. UNCHANGED <<rooms, direct, ignored, unsent, view>>
  BY <1>1 DEF Call, server
<1>4. loc'[t].op = op /\ \A u \in Task \ {t} : loc'[u] = loc[u]
  BY <1>1 DEF Call, NewLocal, Inv, TypeOK
<1>5. /\ FirstLabel(op) \in {"userExists", "getRoom", "find"}
      /\ op = "unblock" => FirstLabel(op) = "userExists"
  BY DEF FirstLabel, Op
<1>6. pc'[t] = FirstLabel(op) /\ \A u \in Task \ {t} : pc'[u] = pc[u]
  <2>1. FirstLabel(op) \in Label /\ Goto(t, FirstLabel(op))
    BY <1>1, <1>5 DEF Label, Call
  <2> QED BY <2>1, MovedOn
<1>7. Single'
  BY <1>2, <1>6 DEF Single
<1>8. Found' /\ Told'
  <2>1. \A u \in Task : pc[u] \notin Adding
    BY <1>2 DEF Done, Adding
  <2> QED BY <1>3, <2>1 DEF Held, Found, Live, Best, Told
<1>9. ASSUME NEW u \in Task PROVE Holds(u)'
  <2>1. CASE u = t
    BY <1>2, <1>3, <1>4, <1>5, <1>6, <2>1 DEF Holds
  <2>2. CASE u # t
    <3>1. pc'[u] \in Done /\ pc'[u] = pc[u] /\ loc'[u] = loc[u] /\ Holds(u)
      BY <1>2, <1>4, <1>6, <2>2 DEF Held
    <3> QED BY <1>3, <3>1 DEF Holds, Done
  <2> QED BY <2>1, <2>2
<1> QED BY <1>7, <1>8, <1>9 DEF Held

-----------------------------------------------------------------------------
\* The initial states.
LEMMA InitHeld == Init => Held
<1> SUFFICES ASSUME Init PROVE Held
  OBVIOUS
<1>1. /\ rooms = <<>> /\ unsent = {} /\ view.ignored = ignored
      /\ \A t \in Task : pc[t] = "idle" /\ loc[t].op = "create"
  BY DEF Init, NoLocal, NewLocal
<1>2. Single /\ Found /\ Told
  BY <1>1 DEF Single, Found, Told, Live, Done
<1>3. \A t \in Task : Holds(t)
  BY <1>1 DEF Holds, Done
<1> QED BY <1>2, <1>3 DEF Held

\* Every step preserves it.
LEMMA NextHeld == Inv /\ Held /\ [Next]_vars => Held'
<1> SUFFICES ASSUME Inv, Held, [Next]_vars, Careful PROVE Held'
  BY DEF Held, Careful
<1>1. CASE UNCHANGED vars
  <2>1. Single' /\ Found' /\ Told' /\ \A t \in Task : Holds(t)'
    BY <1>1 DEF vars, Held, Single, Found, Told, Holds, Live, Best
  <2> QED BY <2>1 DEF Held
<1>2. CASE Calls
  BY <1>2, CallsHeld
<1>3. CASE Others
  BY <1>3, SyncHeld, PeersHeld DEF Others
<1>4. ASSUME NEW t \in Task, Step(t) PROVE Held'
  <2>1. ~Fails(t)
    BY DEF Fails, Careful
  <2> QED BY <1>4, <2>1, CheckHeld, MakeHeld, AcceptHeld, ListHeld, BlockHeld DEF Step
<1> QED BY <1>1, <1>2, <1>3, <1>4 DEF Next

\* What a call has read stays true until it writes, if calls are awaited and
\* no request fails.
THEOREM HeldHolds == Spec => [](Inv /\ Held)
<1>1. Init => Inv /\ Held
  BY InitInv, InitHeld
<1>2. Inv /\ Held /\ [Next]_vars => (Inv /\ Held)'
  BY NextInv, NextHeld
<1> QED BY <1>1, <1>2, PTL DEF Spec

\* When all is done and synced, the cached list has every live chat.
LEMMA LiveListed == Inv /\ Held => (Careful => JoinedListed)
<1> SUFFICES ASSUME Inv, Held, Careful, AllDone, Synced,
                    NEW r \in RoomsWith("join"), ~SomebodyLeft(r)
             PROVE  r \in findDirectChatRooms("join")
  BY DEF JoinedListed
<1>1. Live(r)
  BY DEF RoomsWith, SomebodyLeft, Synced, Live
<1>2. \A t \in Task : pc[t] \notin Adding
  BY DEF AllDone, Done, Adding
<1>3. r \in view.direct
  BY <1>1, <1>2 DEF Held, Found, Best, Synced
<1> QED BY <1>3 DEF findDirectChatRooms

\* listJoined finds every chat the handle is in: awaited calls lose no chat
\* from m.direct, however often findDirectChatRooms has cleaned up the cache.
THEOREM JoinedFound == Spec => [](Careful => JoinedListed)
BY HeldHolds, LiveListed, PTL

\* create makes no second chat: chatExists is still right when createRoom is
\* served, whatever the other handles did in between.
THEOREM OneChatEach ==
    ASSUME Careful
    PROVE  Spec => NoSecondChat
<1> DEFINE A == \A t \in Task :
                  pc[t] = "createRoom" /\ pc'[t] = "created" =>
                    ~ \E r \in DOMAIN rooms : /\ rooms[r].peer = loc[t].peer
                                             /\ rooms[r].me = "join"
                                             /\ rooms[r].other \in {"join", "invite"}
<1>1. Inv /\ Held => A
  BY DEF Held, Holds, Live
<1>2. Inv /\ Held /\ [Next]_vars => [A]_vars
  BY <1>1
<1> QED BY <1>2, HeldHolds, PTL DEF Spec, NoSecondChat

\* unblockHandle writes the list the server has without the handle: the
\* cached list it takes is current.
THEOREM UnblockExact ==
    ASSUME Careful
    PROVE  Spec => UnblockUnblocks
<1> DEFINE A == \A t \in Task :
                  pc[t] # "idle" /\ pc'[t] = "idle" /\ loc[t].op = "unblock"
                    => ignored' = ignored \ {loc[t].peer}
<1>1. ASSUME Inv, Held, Next PROVE A
  <2> SUFFICES ASSUME NEW t \in Task, pc[t] # "idle", pc'[t] = "idle", loc[t].op = "unblock"
               PROVE  ignored' = ignored \ {loc[t].peer}
    OBVIOUS
  <2>1. /\ pc[t] \in {"userExists", "putIgnored"} /\ unsent = {} /\ view.ignored = ignored
        /\ pc[t] = "putIgnored" => loc[t].handles = ignored \ {loc[t].peer}
        /\ \A u \in Task \ {t} : pc[u] \in Done
    BY <1>1 DEF Held, Holds, Told, Single, Done
  <2>2. Step(t)
    <3>1. ~Others
      BY DEF Others, Sync, PeerInvites, PeerMoves
    <3>2. ~Calls
      <4>1. \A u \in Task : \A op, p, r : ~Call(u, op, p, r)
        BY <2>1 DEF Call, Careful, Done
      <4> QED BY <4>1 DEF Calls, CreateChat, BlockHandle, UnblockHandle,
             AcceptInvitation, DeclineInvitation, ListInvitations, ListJoined
    <3>3. PICK u \in Task : Step(u)
      BY <1>1, <3>1, <3>2 DEF Next
    <3>4. pc[u] \notin Done
      BY <3>3 DEF Step, Fails, HandleNotFound, CreateUserExists, ReadDirectChats, CheckMembers,
         CreateRoom, AddToOwnList, PutDirect, RoomNotFound, joinDirectChat, JoinRoom, Joined,
         declineInvitation, LeaveRoom, FindRooms, LeaveStale, Listed, ignoreHandle,
         unignoreHandle, setIgnoredUsers, Done
    <3> QED BY <2>1, <3>3, <3>4
  <2>3. unignoreHandle(t) \/ setIgnoredUsers(t)
    <3>1. ~HandleNotFound(t) /\ ~Fails(t)
      BY <1>1 DEF HandleNotFound, Settle, Fails, Careful, Inv, TypeOK
    <3> QED BY <2>1, <2>2, <3>1 DEF Step, CreateUserExists, ReadDirectChats, CheckMembers,
         CreateRoom, AddToOwnList, PutDirect, RoomNotFound, joinDirectChat, JoinRoom, Joined,
         declineInvitation, LeaveRoom, FindRooms, LeaveStale, Listed, ignoreHandle
  <2>4. CASE unignoreHandle(t)
    <3>1. ignored' = ignored /\ pc'[t] # "putIgnored"
      BY <2>4 DEF unignoreHandle, server
    <3>2. loc[t].peer \notin view.ignored
      BY <1>1, <2>4, <3>1 DEF unignoreHandle, Goto, Inv, TypeOK
    <3> QED BY <2>1, <3>1, <3>2
  <2>5. CASE setIgnoredUsers(t)
    BY <2>1, <2>5 DEF setIgnoredUsers
  <2> QED BY <2>3, <2>4, <2>5
<1>2. Inv /\ Held /\ [Next]_vars => [A]_vars
  BY <1>1
<1> QED BY <1>2, HeldHolds, PTL DEF Spec, UnblockUnblocks
=============================================================================
