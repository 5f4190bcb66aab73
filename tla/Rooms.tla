------------------------------- MODULE Rooms -------------------------------
(***************************************************************************)
(* One group or channel and the handles that use it: the use cases of      *)
(* groups and of channels over MatrixRoomsService and MatrixClientManager. *)
(*                                                                         *)
(* Every handle has a matrix client of its own with a cached copy of the   *)
(* room.  A use case checks roles on that copy and then sends requests;    *)
(* the home server serves the requests of all handles in any order.        *)
(*                                                                         *)
(* External: the home server, its authorization rules, the sync responses  *)
(* (a snapshot of the room for a member, the own membership for others)    *)
(* and the channel service.  The delay(3000) that ends most use cases      *)
(* changes no state and is left out: a sync response may or may not come   *)
(* before the next call.                                                   *)
(***************************************************************************)
EXTENDS PowerLevels, Sequences, FiniteSets

CONSTANTS
    Creator,            \* the handle that creates the room
    Kinds,              \* what it creates
    Ops,                \* what the application calls afterwards
    PermissionInputs,   \* permissions given to createChannel and updateChannel
    GroupRoles,         \* roles given to members of a group
    ChannelRoles,       \* roles given to members of a channel
    DefaultRoles,       \* default roles given to channels
    Rules,              \* join rules given to channels
    Invited,            \* sets of handles a room is created with
    FieldInputs,        \* what updateGroup is asked to change
    Faults,             \* requests may fail, before or after they took effect
    MaxCalls            \* how many calls each handle makes

AllOps == {"kick", "ban", "unban", "role", "invite", "join", "leave", "knock",
           "updateGroup", "updateChannel", "deleteGroup", "deleteChannel"}

ASSUME RoomsAssumption ==
    /\ Creator \in Handle
    /\ Kinds \subseteq {"group", "channel"} /\ Kinds # {}
    /\ Ops \subseteq AllOps
    /\ PermissionInputs \subseteq PermissionInput
    /\ GroupRoles \subseteq GroupRole
    /\ ChannelRoles \subseteq ChannelRole
    /\ DefaultRoles \subseteq ChannelRole
    /\ Rules \subseteq {"PRIVATE", "PUBLIC", "PUBLIC_WITH_INVITE"}
    /\ Invited \subseteq SUBSET (Handle \ {Creator})
    /\ FieldInputs \subseteq SUBSET {"name", "topic", "avatar"}
    /\ Faults \in BOOLEAN
    /\ MaxCalls \in [Handle -> Nat]

VARIABLES
    room,       \* server: the room
    seen,       \* what the client of each handle knows of it
    requests,   \* requests on their way to the server
    call,       \* the call each handle has under way, or the last one
    calls,      \* calls each has made so far
    disturbed,  \* history: the call's cache was stale, or the room was
                \* changed by something else during the call
    raced       \* history: it was changed by something else since the
                \* updateChannel under way read the levels

vars == <<room, seen, requests, call, calls, disturbed, raced>>

----------------------------------------------------------------------------
(* Data.                                                                   *)

Membership == {"none", "invite", "join", "knock", "leave", "ban"}
JoinRule   == {"PRIVATE", "PUBLIC", "PUBLIC_WITH_INVITE"}
Field      == {"name", "topic", "avatar"}

\* profile: the fields that carry the value of the last update.
Room == [kind : {"none", "group", "channel", "deleted"}, joinRule : JoinRule,
         member : [Handle -> Membership], levels : Content,
         profile : SUBSET Field]

NoRoom   == [kind |-> "none", joinRule |-> "PRIVATE",
             member |-> [h \in Handle |-> "none"], levels |-> NoLevels,
             profile |-> {}]

What    == {"kick", "ban", "unban", "invite", "join", "leave", "knock",
            "levels", "name", "topic", "avatar", "scs", "delete"}
Request == [by : Handle, what : What, to : Handle, content : Content,
            rule : JoinRule \cup {"keep"}, awaited : BOOLEAN]

\* rest: requests still to send; base, members: what updateChannel and
\* deleteGroup have read; input, role, rule: what updateChannel was given;
\* levels: it has power levels to write.
Call == [op : AllOps \cup {"none", "create"},
         pc : {"idle", "requests", "waitRoom", "readLevels", "readMembers",
               "readRoles", "avatar"},
         rest : Seq(What), base : Content, members : [Handle -> Membership],
         input : PermissionInput, role : ChannelRole,
         rule : JoinRule \cup {"keep"}, levels : BOOLEAN, to : SUBSET Handle, result : {"none", "ok", "error"}]

NewCall(op) == [op |-> op, pc |-> "idle", rest |-> <<>>, base |-> NoLevels,
                members |-> NoRoom.member, input |-> [p \in Permission |-> "undefined"],
                role |-> "PARTICIPANT", rule |-> "keep", levels |-> FALSE,
                to |-> {}, result |-> "none"]

NewRequest(h, what, t) == [by |-> h, what |-> what, to |-> t,
                           content |-> NoLevels, rule |-> "keep",
                           awaited |-> TRUE]

\* MembershipStateTransformer.
MembershipState(m) ==
    CASE m = "ban" -> "BANNED" [] m = "invite" -> "INVITED" [] m = "join" -> "JOINED"
      [] m = "knock" -> "REQUESTED" [] m = "leave" -> "LEFT" [] OTHER -> "JOINED"

\* ChannelJoinRuleTransformer and, external, what the channel service makes
\* of it in the room.
joinRuleAtServer(rule) ==
    CASE rule = "PRIVATE" -> "invite" [] rule = "PUBLIC" -> "public"
      [] rule = "PUBLIC_WITH_INVITE" -> "knock"

Init == /\ room = NoRoom
        /\ seen = [h \in Handle |-> NoRoom]
        /\ requests = {}
        /\ call = [h \in Handle |-> NewCall("none")]
        /\ calls = [h \in Handle |-> 0]
        /\ disturbed = [h \in Handle |-> FALSE]
        /\ raced = [h \in Handle |-> FALSE]

----------------------------------------------------------------------------
(* The home server (external).                                             *)

Joined(h) == room.member[h] = "join"
RoleLevel(h) == LevelOf(room.levels, h)

StateDefault == 50      \* asked for to write the power levels

\* What does not change may be above the sender, as the level 101 is that a
\* group asks for to delete the messages of others.
MayWriteLevels(h, c) ==
    LET within(old, new) == old # new => old <= RoleLevel(h) /\ new <= RoleLevel(h) IN
    /\ RoleLevel(h) >= StateDefault
    /\ within(room.levels.users_default, c.users_default)
    /\ \A p \in Permission \cup ReactionEvent : within(room.levels.required[p], c.required[p])
    /\ \A u \in Handle : c.users[u] # room.levels.users[u] =>
          c.users[u] <= RoleLevel(h) /\ (u # h => room.levels.users[u] < RoleLevel(h))

Allowed(r) ==
    LET h == r.by
        over == r.to = h \/ RoleLevel(h) > RoleLevel(r.to)
        may(p) == Joined(h) /\ May(room.levels, h, p) IN
    /\ room.kind \in {"group", "channel"}
    /\ CASE r.what = "kick"   -> /\ room.member[r.to] \in {"join", "invite", "knock"}
                                 /\ r.to = h \/ (over /\ may("kickHandles"))
         [] r.what = "ban"    -> may("banHandles") /\ RoleLevel(h) > RoleLevel(r.to)
         [] r.what = "unban"  -> /\ may("banHandles") /\ may("kickHandles")
                                 /\ RoleLevel(h) > RoleLevel(r.to) /\ room.member[r.to] = "ban"
         [] r.what = "invite" -> /\ may("inviteHandles")
                                 /\ room.member[r.to] \notin {"join", "ban"}
         [] r.what = "join"   -> \/ room.member[h] \in {"join", "invite"}
                                 \/ /\ room.member[h] # "ban"
                                    /\ joinRuleAtServer(room.joinRule) = "public"
         [] r.what = "leave"  -> room.member[h] \in {"join", "invite", "knock"}
         [] r.what = "knock"  -> /\ room.member[h] \notin {"join", "invite", "ban"}
                                 /\ joinRuleAtServer(room.joinRule) = "knock"
         [] r.what = "levels" -> Joined(h) /\ MayWriteLevels(h, r.content)
         [] r.what = "name"   -> may("changeName")
         [] r.what = "topic"  -> may("changeDescription")
         [] r.what = "avatar" -> may("changeAvatar")
         [] OTHER             -> room.kind = "channel" /\ Joined(h) /\ RoleLevel(h) >= 100

\* What the room is once the request is served.
Served(r) ==
    CASE r.what \in {"kick", "unban"} -> [room EXCEPT !.member[r.to] = "leave"]
      [] r.what = "ban"    -> [room EXCEPT !.member[r.to] = "ban"]
      [] r.what = "invite" -> [room EXCEPT !.member[r.to] = "invite"]
      [] r.what = "join"   -> [room EXCEPT !.member[r.by] = "join"]
      [] r.what = "leave"  -> [room EXCEPT !.member[r.by] = "leave"]
      [] r.what = "knock"  -> [room EXCEPT !.member[r.by] = "knock"]
      [] r.what = "levels" -> [room EXCEPT !.levels = r.content]
      [] r.what = "scs"    -> [room EXCEPT !.joinRule = IF r.rule = "keep" THEN @ ELSE r.rule]
      [] r.what = "delete" -> [room EXCEPT !.kind = "deleted",
                                  !.member = [h \in Handle |-> "leave"]]
      [] OTHER             -> [room EXCEPT !.profile = @ \cup {r.what}]

\* A member hears of the whole room, others of their own membership only.
Snapshot(h) ==
    CASE room.member[h] = "none" -> seen[h]
      [] room.member[h] = "join" -> room
      [] OTHER -> [seen[h] EXCEPT !.kind = room.kind,
                                  !.member[h] = room.member[h]]

\* A handle that makes no calls has no client.
Sync(h) == /\ MaxCalls[h] > 0 /\ seen[h] # Snapshot(h)
           /\ seen' = [seen EXCEPT ![h] = Snapshot(h)]
           /\ UNCHANGED <<room, requests, call, calls, disturbed, raced>>

----------------------------------------------------------------------------
(* MatrixClientManager: getRoom, listRooms, listJoinedRooms, getMembers.   *)

getRoom(h) == seen[h].kind # "none"
getMyMembership(h) == seen[h].member[h]
CachedLevel(h, t)  == LevelOf(seen[h].levels, t)

\* getMembers and getRoomPowerLevels ask the server, which answers members.
MayRead(h) == room.kind \in {"group", "channel"} /\ Joined(h)

----------------------------------------------------------------------------
(* How a call begins, goes on and ends.                                    *)

Begin(h, c, reqs) ==
    /\ call' = [call EXCEPT ![h] = c]
    /\ requests' = requests \cup reqs
    /\ calls' = [calls EXCEPT ![h] = @ + 1]
    /\ disturbed' = [disturbed EXCEPT ![h] = seen[h] # room]
    /\ raced' = [raced EXCEPT ![h] = FALSE]
    /\ UNCHANGED <<room, seen>>

Step(h, c, reqs) ==
    /\ call' = [call EXCEPT ![h] = c]
    /\ requests' = requests \cup reqs
    /\ UNCHANGED <<room, seen, calls, disturbed, raced>>

Ready(h, op) == /\ call[h].pc = "idle" /\ calls[h] < MaxCalls[h]
                /\ room.kind # "none" /\ op \in Ops

\* One request, or none because the use case refuses.
Send(h, op, what, t)  == Begin(h, [NewCall(op) EXCEPT !.pc = "requests", !.to = {t}],
                               {NewRequest(h, what, t)})
Refuse(h, op) == Begin(h, [NewCall(op) EXCEPT !.result = "error"], {})

SendIf(cond, h, op, what, t) ==
    \/ cond /\ Send(h, op, what, t)
    \/ ~cond /\ Refuse(h, op)

----------------------------------------------------------------------------
(* MatrixRoomsService.                                                     *)

kickHandle(h, t, op) ==
    SendIf(getRoom(h) /\ (h = t \/ CachedLevel(h, h) > CachedLevel(h, t)), h, op, "kick", t)

banHandle(h, t) ==
    SendIf(getRoom(h) /\ CachedLevel(h, h) > CachedLevel(h, t), h, "ban", "ban", t)

unbanHandle(h, t) ==
    SendIf(getRoom(h) /\ CachedLevel(h, h) > CachedLevel(h, t), h, "unban", "unban", t)

\* External, setPowerLevel: the client takes the content from its cache and
\* asks the server for it if there is none, changes one user and sends it.
PowerLevelContent(h) == IF seen[h].levels # NoLevels THEN seen[h].levels ELSE room.levels

updateRoomMemberPowerLevel(h, t, level) ==
    LET mayChange == /\ getRoom(h) /\ (h = t \/ CachedLevel(h, h) > CachedLevel(h, t))
                     /\ seen[h].levels # NoLevels \/ MayRead(h)
        content   == PowerLevelContent(h) IN
    \/ /\ mayChange
       /\ Begin(h, [NewCall("role") EXCEPT !.pc = "requests", !.to = {t}],
                {[NewRequest(h, "levels", t) EXCEPT !.content = WithUser(content, t, level)]})
    \/ ~mayChange /\ Refuse(h, "role")

\* Mutant: somebody who has asked to join is left out too.
SkipKnocking(h, T) ==
    /\ getRoom(h)
    /\ LET toInvite == {t \in T : seen[h].member[t] \in {"none", "leave"}} IN
       Begin(h, [NewCall("invite") EXCEPT
                   !.pc = IF toInvite = {} THEN "idle" ELSE "requests",
                   !.result = IF toInvite = {} THEN "ok" ELSE "none", !.to = T],
             {NewRequest(h, "invite", t) : t \in toInvite})

\* Those the cache shows as joined, invited or banned are left out; with
\* nobody left the call is over.
sendInvitations(h, T) ==
    LET toInvite == {t \in T : seen[h].member[t] \notin {"join", "invite", "ban"}} IN
    \/ /\ ~getRoom(h) /\ Refuse(h, "invite")
    \/ /\ getRoom(h)
       /\ Begin(h, [NewCall("invite") EXCEPT
                      !.pc = IF toInvite = {} THEN "idle" ELSE "requests",
                      !.result = IF toInvite = {} THEN "ok" ELSE "none",
                      !.to = T],
                {NewRequest(h, "invite", t) : t \in toInvite})

join(h)      == Send(h, "join", "join", h)
knockRoom(h) == Send(h, "knock", "knock", h)
leave(h)     == Send(h, "leave", "leave", h)

\* The fields are written in this order.
FieldOrder(fields) == (IF "name" \in fields THEN <<"name">> ELSE <<>>)
                      \o (IF "topic" \in fields THEN <<"topic">> ELSE <<>>)
                      \o (IF "avatar" \in fields THEN <<"avatar">> ELSE <<>>)

\* update: the room is read first, then the fields are written in turn.
update(h, c, fields) ==
    LET order == FieldOrder(fields) \o c.rest IN
    \/ /\ getRoom(h) /\ MayRead(h) /\ order # <<>>
       /\ Begin(h, [c EXCEPT !.pc = "requests", !.rest = Tail(order)],
                {[NewRequest(h, Head(order), h) EXCEPT !.rule = c.rule]})
    \/ ~(getRoom(h) /\ MayRead(h)) /\ Refuse(h, c.op)

\* getMembers: everybody with a membership, whatever it is.
Listed(members) == {t \in Handle : members[t] # "none"}

listKnockRequests(h) == {t \in Handle : getRoom(h) /\ seen[h].member[t] = "knock"}

\* The members and their roles as the two modules report them.
groupMembers(h)   == [t \in Listed(room.member) |->
    [membership |-> MembershipState(room.member[t]), role |-> GroupRoleOf(RoleLevel(t))]]
channelMembers(h) == [t \in Listed(room.member) |->
    [membership |-> MembershipState(room.member[t]), role |-> ChannelRoleOf(RoleLevel(t))]]
getChannelMembership(h) == MembershipState(room.member[h])

\* get, for a room that is in the cache: the members are counted there, the
\* power levels are asked for.
get(h) == [memberCount |-> Cardinality({t \in Handle : seen[h].member[t] = "join"}),
           powerLevels |-> room.levels]

\* getGroup and getChannel; getGroups is one getGroup for each group.
getGroup(h)   == [permissions |-> GroupPermissions(get(h).powerLevels),
                  memberCount |-> get(h).memberCount]
getGroups(h)  == {getGroup(h)}
getChannel(h) == [permissions |-> ChannelPermissions(get(h).powerLevels),
                  defaultMemberRole |-> ChannelRoleOf(get(h).powerLevels.users_default),
                  memberCount |-> get(h).memberCount]

----------------------------------------------------------------------------
(* Going on with a call once its requests are served.                      *)

Finish(c, result) == [NewCall(c.op) EXCEPT !.to = c.to, !.result = result]

\* Mutant: a failed call is not settled.
Unsettled(c) == [c EXCEPT !.pc = "failed"]

\* The avatar of a new room is set by a second use case whose error is only
\* logged.
Failed(c) == Finish(c, IF c.op = "create" THEN "ok" ELSE "error")

GoOn(h) ==
    LET c == call[h]
        sent == c.rest = <<>> IN
    CASE ~sent                             -> [c EXCEPT !.rest = Tail(@)]
      [] sent /\ c.op \in {"join", "knock"} -> [c EXCEPT !.pc = "waitRoom"]
      [] sent /\ c.levels                  -> [c EXCEPT !.pc = "readLevels"]
      [] OTHER                             -> Finish(c, "ok")

NextRequest(h) == {[NewRequest(h, w, h) EXCEPT !.rule = call[h].rule] :
                      w \in {call[h].rest[i] : i \in DOMAIN call[h].rest \cap {1}}}

\* Everybody's call but the one that waits for r.
Disturb(r) ==
    LET other(x) == x # r.by \/ ~r.awaited IN
    /\ disturbed' = [x \in Handle |-> disturbed[x] \/ other(x)]
    /\ raced' = [x \in Handle |-> raced[x] \/ (call[x].base # NoLevels /\ other(x))]

\* A request was served and the client hears of it; a call with several
\* requests under way waits for all of them.
Answered(r) ==
    LET others == {q \in requests \ {r} : q.by = r.by /\ q.awaited}
        last   == r.awaited /\ others = {} IN
    /\ call' = IF last THEN [call EXCEPT ![r.by] = GoOn(r.by)] ELSE call
    /\ requests' = (requests \ {r}) \cup (IF last THEN NextRequest(r.by) ELSE {})

\* It failed: the call fails, and nobody waits for its other requests.
Rejected(r) ==
    /\ call' = IF r.awaited THEN [call EXCEPT ![r.by] = Failed(@)] ELSE call
    /\ requests' = {IF r.awaited /\ q.by = r.by THEN [q EXCEPT !.awaited = FALSE] ELSE q :
                       q \in requests \ {r}}

ServeOk(r) ==
    /\ Allowed(r)
    /\ room' = Served(r) /\ Disturb(r) /\ Answered(r)
    /\ UNCHANGED <<seen, calls>>

ServeRefused(r) ==
    /\ ~Allowed(r) /\ Rejected(r)
    /\ UNCHANGED <<room, seen, calls, disturbed, raced>>

LoseRequest(r) ==
    /\ Faults /\ Rejected(r)
    /\ UNCHANGED <<room, seen, calls, disturbed, raced>>

LoseResponse(r) ==
    /\ Faults /\ Allowed(r)
    /\ room' = Served(r) /\ Disturb(r) /\ Rejected(r)
    /\ UNCHANGED <<seen, calls>>

\* waitForRoomInLocalCache: the room is there, or the time is up.
RoomArrived(h) ==
    /\ call[h].pc = "waitRoom" /\ getRoom(h)
    /\ call' = [call EXCEPT ![h] = Finish(@, "ok")]
    /\ UNCHANGED <<room, seen, requests, calls, disturbed, raced>>

WaitTimeout(h) ==
    /\ call[h].pc = "waitRoom" /\ ~getRoom(h)
    /\ call' = [call EXCEPT ![h] = Finish(@, "error")]
    /\ UNCHANGED <<room, seen, requests, calls, disturbed, raced>>

----------------------------------------------------------------------------
(* CreateGroupUseCase, CreateChannelUseCase and what the modules add.      *)

CreateRoom(h, kind, rule, levels, T, avatar) ==
    /\ room.kind = "none" /\ kind \in Kinds /\ h = Creator
    /\ room' = [kind |-> kind, joinRule |-> rule, levels |-> levels, profile |-> {},
                member |-> [x \in Handle |-> CASE x = h -> "join" [] x \in T -> "invite"
                                               [] OTHER -> "none"]]
    /\ call' = [call EXCEPT ![h] =
                   [NewCall("create") EXCEPT !.pc = IF avatar THEN "avatar" ELSE "idle",
                                             !.result = IF avatar THEN "none" ELSE "ok"]]
    /\ UNCHANGED <<seen, requests, calls, disturbed, raced>>

\* The avatar needs the room in the cache; without it the error is swallowed.
SetAvatar(h) ==
    /\ call[h].pc = "avatar"
    /\ IF getRoom(h) /\ MayRead(h)
       THEN Step(h, [call[h] EXCEPT !.pc = "requests",
                       !.rest = IF room.kind = "channel" THEN <<"scs">> ELSE <<>>],
                 {NewRequest(h, "avatar", h)})
       ELSE Step(h, Failed(call[h]), {})

createGroup(h, T, avatar) ==
    CreateRoom(h, "group", "PRIVATE", InitialGroupLevels(h), T, avatar)

createChannel(h, rule, input, role, T, avatar) ==
    CreateRoom(h, "channel", rule, InitialChannelLevels(h, input, role), T, avatar)

----------------------------------------------------------------------------
(* UpdateChannelUseCase and DeleteGroupUseCase read before they write.     *)

\* Nothing is written if the default role does not change.  A room that is
\* not in the cache is no error: the call goes on without power levels.
ReadLevels(h) ==
    LET base == IF getRoom(h) THEN room.levels ELSE NoLevels
        c    == [call[h] EXCEPT !.base = base, !.levels = FALSE]
        same == getRoom(h) /\ ChannelLevel(c.role) = base.users_default IN
    /\ call[h].pc = "readLevels"
    /\ call' = [call EXCEPT ![h] =
                  CASE getRoom(h) /\ ~MayRead(h) -> Failed(c)
                    [] same /\ MayRead(h)        -> Finish(c, "ok")
                    [] OTHER                     -> [c EXCEPT !.pc = "readMembers"]]
    /\ raced' = [raced EXCEPT ![h] = FALSE]
    /\ UNCHANGED <<room, seen, requests, calls, disturbed>>

\* The content is made from the levels and the members as they were read;
\* now the room has to be in the cache.
WriteLevels(h) ==
    LET c == [call[h] EXCEPT !.members = room.member, !.pc = "requests"] IN
    /\ call[h].pc = "readMembers" /\ call[h].op = "updateChannel"
    /\ IF MayRead(h) /\ getRoom(h)
       THEN Step(h, c, {[NewRequest(h, "levels", h) EXCEPT
                !.content = UpdatedChannelLevels(c.base, Listed(c.members), c.input, c.role)]})
       ELSE Step(h, Failed(c), {})

ReadMembers(h) ==
    /\ call[h].pc = "readMembers" /\ call[h].op = "deleteGroup"
    /\ IF MayRead(h)
       THEN Step(h, [call[h] EXCEPT !.members = room.member, !.pc = "readRoles"], {})
       ELSE Step(h, Failed(call[h]), {})

\* An admin above everybody who is joined or invited may delete the group.
MayDeleteGroup(h, members, levels) ==
    /\ MembershipState(members[h]) = "JOINED" /\ h \in Listed(members)
    /\ GroupRoleOf(LevelOf(levels, h)) = "ADMIN"
    /\ \A t \in Listed(members) \ {h} :
          MembershipState(members[t]) \in {"JOINED", "INVITED"} =>
             LevelOf(levels, t) < LevelOf(levels, h)

\* Mutant: nor is the leave awaited.
LeaveNotAwaited(h) ==
    /\ call[h].pc = "readRoles" /\ MayRead(h)
    /\ Step(h, [call[h] EXCEPT !.pc = "requests"],
            {[NewRequest(h, "leave", h) EXCEPT !.awaited = FALSE]})

\* The kicks are started but not awaited, and the handle leaves.
KickAllAndLeave(h) ==
    LET c == call[h]
        kicked == {t \in Listed(c.members) \ {h} :
                      getRoom(h) /\ CachedLevel(h, h) > CachedLevel(h, t)} IN
    /\ c.pc = "readRoles"
    /\ IF MayRead(h) /\ MayDeleteGroup(h, c.members, room.levels)
       THEN Step(h, [c EXCEPT !.pc = "requests"],
                 {NewRequest(h, "leave", h)} \cup
                 {[NewRequest(h, "kick", t) EXCEPT !.awaited = FALSE] : t \in kicked})
       ELSE Step(h, Failed(c), {})

----------------------------------------------------------------------------
(* The use cases of groups, and GroupsModule.                              *)

Group   == room.kind = "group"
Channel == room.kind \in {"channel", "deleted"}

GroupKickHandle(h, t)   == Group /\ Ready(h, "kick") /\ kickHandle(h, t, "kick")
GroupBanHandle(h, t)    == Group /\ Ready(h, "ban") /\ banHandle(h, t)
GroupUnbanHandle(h, t)  == Group /\ Ready(h, "unban") /\ unbanHandle(h, t)
GroupWithdrawInvitation(h, t)  == Group /\ Ready(h, "kick") /\ kickHandle(h, t, "kick")
GroupSendInvitations(h, T)     == Group /\ Ready(h, "invite") /\ sendInvitations(h, T)
GroupAcceptInvitation(h)       == Group /\ Ready(h, "join") /\ join(h)
GroupDeclineInvitation(h)      == Group /\ Ready(h, "leave") /\ leave(h)
LeaveGroup(h)                  == Group /\ Ready(h, "leave") /\ leave(h)
UpdateGroupMemberRole(h, t, role) ==
    /\ Group /\ Ready(h, "role")
    /\ updateRoomMemberPowerLevel(h, t, GroupLevel(role))

\* The words of a new name or description may be refused.
UpdateGroup(h, fields) ==
    /\ Group /\ Ready(h, "updateGroup")
    /\ \/ update(h, NewCall("updateGroup"), fields)
       \/ fields \cap {"name", "topic"} # {} /\ Refuse(h, "updateGroup")

DeleteGroup(h) ==
    /\ Group /\ Ready(h, "deleteGroup")
    /\ Begin(h, [NewCall("deleteGroup") EXCEPT !.pc = "readMembers"], {})

GroupsModuleRoom(h) ==
    \/ \E T \in Invited, a \in BOOLEAN : createGroup(h, T, a)
    \/ SetAvatar(h)
    \/ \E f \in FieldInputs : UpdateGroup(h, f)
    \/ DeleteGroup(h) \/ ReadMembers(h) \/ KickAllAndLeave(h)

GroupsModuleInvitations(h) ==
    \/ \E T \in SUBSET (Handle \ {h}) \ {{}} : GroupSendInvitations(h, T)
    \/ \E t \in Handle \ {h} : GroupWithdrawInvitation(h, t)
    \/ GroupAcceptInvitation(h) \/ GroupDeclineInvitation(h) \/ LeaveGroup(h)

GroupsModuleMembers(h) ==
    \/ \E t \in Handle, role \in GroupRoles : UpdateGroupMemberRole(h, t, role)
    \/ \E t \in Handle : \/ GroupKickHandle(h, t) \/ GroupBanHandle(h, t)
                         \/ GroupUnbanHandle(h, t)

----------------------------------------------------------------------------
(* The use cases of channels, and ChannelsModule.                          *)

ChannelKickHandle(h, t)   == Channel /\ Ready(h, "kick") /\ kickHandle(h, t, "kick")
ChannelBanHandle(h, t)    == Channel /\ Ready(h, "ban") /\ banHandle(h, t)
ChannelUnbanHandle(h, t)  == Channel /\ Ready(h, "unban") /\ unbanHandle(h, t)
ChannelWithdrawInvitation(h, t) == Channel /\ Ready(h, "kick") /\ kickHandle(h, t, "kick")
ChannelSendInvitations(h, T)    == Channel /\ Ready(h, "invite") /\ sendInvitations(h, T)
ChannelAcceptInvitation(h)      == Channel /\ Ready(h, "join") /\ join(h)
ChannelDeclineInvitation(h)     == Channel /\ Ready(h, "leave") /\ leave(h)
JoinChannel(h)                  == Channel /\ Ready(h, "join") /\ join(h)
LeaveChannel(h)                 == Channel /\ Ready(h, "leave") /\ leave(h)
SendInvitationRequest(h)        == Channel /\ Ready(h, "knock") /\ knockRoom(h)
UpdateChannelMemberRole(h, t, role) ==
    /\ Channel /\ Ready(h, "role")
    /\ updateRoomMemberPowerLevel(h, t, ChannelLevel(role))

\* The avatar goes to the room, then the channel service is told of the
\* rest, then the power levels are written.  A role that is not given is
\* taken to be PARTICIPANT.
UpdateChannel(h, avatar, rule, input, role, levels) ==
    LET c == [NewCall("updateChannel") EXCEPT !.pc = "requests", !.rule = rule,
                 !.input = IF levels THEN input ELSE @,
                 !.role = IF levels /\ role # "undefined" THEN role ELSE "PARTICIPANT",
                 !.levels = levels] IN
    /\ Channel /\ Ready(h, "updateChannel")
    /\ \/ avatar /\ update(h, [c EXCEPT !.rest = <<"scs">>], {"avatar"})
       \/ ~avatar /\ Begin(h, c, {[NewRequest(h, "scs", h) EXCEPT !.rule = rule]})
       \/ Refuse(h, "updateChannel")       \* unacceptable words

DeleteChannel(h) == Channel /\ Ready(h, "deleteChannel")
                            /\ Send(h, "deleteChannel", "delete", h)

ChannelsModuleRoom(h) ==
    \/ \E rule \in Rules, T \in Invited, a \in BOOLEAN,
          input \in PermissionInputs, role \in DefaultRoles :
          createChannel(h, rule, input, role, T, a)
    \/ \E a \in BOOLEAN, rule \in Rules, input \in PermissionInputs,
          role \in DefaultRoles \cup {"undefined"}, levels \in BOOLEAN :
          UpdateChannel(h, a, rule, input, role, levels)
    \/ ReadLevels(h) \/ WriteLevels(h) \/ DeleteChannel(h)
    \/ JoinChannel(h) \/ LeaveChannel(h)

ChannelsModuleInvitations(h) ==
    \/ \E T \in SUBSET (Handle \ {h}) \ {{}} : ChannelSendInvitations(h, T)
    \/ \E t \in Handle \ {h} : ChannelWithdrawInvitation(h, t)
    \/ ChannelAcceptInvitation(h) \/ ChannelDeclineInvitation(h)

\* A request is withdrawn by leaving, accepted by an invitation, declined
\* by a kick.
ChannelsModuleRequests(h) ==
    \/ SendInvitationRequest(h) \/ LeaveChannel(h)
    \/ \E t \in listKnockRequests(h) : \/ ChannelSendInvitations(h, {t})
                                      \/ ChannelKickHandle(h, t)

ChannelsModuleMembers(h) ==
    \/ \E t \in Handle, role \in ChannelRoles : UpdateChannelMemberRole(h, t, role)
    \/ \E t \in Handle : \/ ChannelKickHandle(h, t) \/ ChannelBanHandle(h, t)
                         \/ ChannelUnbanHandle(h, t)

----------------------------------------------------------------------------
Next ==
    \/ \E r \in requests : \/ ServeOk(r) \/ ServeRefused(r)
                           \/ LoseRequest(r) \/ LoseResponse(r)
    \/ \E h \in Handle :
          \/ Sync(h) \/ RoomArrived(h) \/ WaitTimeout(h)
          \/ GroupsModuleRoom(h) \/ GroupsModuleInvitations(h) \/ GroupsModuleMembers(h)
          \/ ChannelsModuleRoom(h) \/ ChannelsModuleInvitations(h)
          \/ ChannelsModuleRequests(h) \/ ChannelsModuleMembers(h)

Spec == Init /\ [][Next]_vars
----------------------------------------------------------------------------
(* Properties.                                                             *)

(* The state is well formed: the room, its cached copies, the requests and *)
(* the local variables of the calls of MatrixRoomsService.                 *)
TypeOK == /\ room \in Room
          /\ seen \in [Handle -> Room]
          /\ requests \subseteq Request
          /\ call \in [Handle -> Call]
          /\ calls \in [Handle -> Nat]
          /\ disturbed \in [Handle -> BOOLEAN]
          /\ raced \in [Handle -> BOOLEAN]

(* sendInvitations skips the handles its cache shows as members, and sends *)
(* the rest together.  A call that succeeded, on a cache that was up to    *)
(* date and with nothing else going on, leaves nobody out.                 *)
InvitationsReach ==
    \A h \in Handle :
        /\ call[h].op = "invite" /\ call[h].result = "ok" /\ ~disturbed[h]
        => \A t \in call[h].to : room.member[t] \in {"invite", "join", "ban"}

(* updateMemberRole sends the whole content of the power levels.  Sent     *)
(* from a current cache, it changes the role of its target only.           *)
RoleTouchesTargetOnly ==
    [][\A r \in requests :
          /\ r \notin requests' /\ r.what = "levels" /\ room'.levels = r.content
          /\ call[r.by].op = "role" /\ r.awaited /\ ~disturbed[r.by]
          => \A t \in Handle \ {r.to} :
                LevelOf(room'.levels, t) = LevelOf(room.levels, t)]_vars

(* "Keep custom power levels": updateChannel writes a whole new content in *)
(* three awaited steps, and pins the members it found to the level they    *)
(* had.  If it found the room in the cache, and nothing else was served    *)
(* since it read the levels, then everybody with a membership has the role *)
(* after the write that they had before it.                                *)
UpdateKeepsRoles ==
    [][\A r \in requests :
          /\ r \notin requests' /\ r.what = "levels" /\ room'.levels = r.content
          /\ call[r.by].op = "updateChannel" /\ r.awaited
          /\ call[r.by].base # NoLevels /\ ~raced[r.by]
          => \A t \in Listed(room.member) :
                LevelOf(room'.levels, t) = LevelOf(room.levels, t)]_vars

(* A request that takes effect after its call is over is an invitation of  *)
(* a sendInvitations that failed or a kick of a deleteGroup: no other use  *)
(* case leaves work behind.                                                *)
LateRequests == \A r \in requests : ~r.awaited => r.what \in {"invite", "kick"}

(* What getGroup, getGroups, getChannel and the lists of members tell a    *)
(* member is what the home server enforces: reading permissions and roles  *)
(* back inverts writing them, through every update, and with an up-to-date *)
(* cache the members are counted as the list of members has them.          *)
PermissionsTold ==
    \A h \in Handle : MayRead(h) /\ getRoom(h) =>
        /\ room.kind = "group" =>
              /\ \A g \in getGroups(h), p \in Permission :
                    GroupLevel(g.permissions[p]) = room.levels.required[p]
              /\ \A t \in Listed(room.member) :
                    GroupLevel(groupMembers(h)[t].role) = RoleLevel(t)
              /\ seen[h] = room => getGroup(h).memberCount = Cardinality(
                    {t \in Listed(room.member) : groupMembers(h)[t].membership = "JOINED"})
        /\ room.kind = "channel" =>
              /\ \A p \in Permission :
                    ChannelLevel(getChannel(h).permissions[p]) = room.levels.required[p]
              /\ ChannelLevel(getChannel(h).defaultMemberRole) = room.levels.users_default
              /\ \A t \in Listed(room.member) :
                    ChannelLevel(channelMembers(h)[t].role) = RoleLevel(t)
              /\ getChannelMembership(h) = channelMembers(h)[h].membership
              /\ seen[h] = room => getChannel(h).memberCount = Cardinality(
                    {t \in Listed(room.member) : channelMembers(h)[t].membership = "JOINED"})

(* "Delete group by kicking all members": once deleteGroup has succeeded   *)
(* and its kicks are served, the group has no members.                     *)
DeleteEmptiesGroup ==
    \A h \in Handle :
        /\ call[h].op = "deleteGroup" /\ call[h].result = "ok" /\ ~disturbed[h]
        /\ \A r \in requests : r.by # h
        => \A t \in Handle : room.member[t] \notin {"join", "invite"}
=============================================================================
