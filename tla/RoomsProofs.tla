---------------------------- MODULE RoomsProofs ----------------------------
(***************************************************************************)
(* Proofs about Rooms for every set of handles, every budget of calls,     *)
(* every choice of operations and inputs, with and without faults.         *)
(*                                                                         *)
(* The invariant Inv says of every call what the requests it waits for are *)
(* (Fit), of every request that the power levels it carries suit the kind  *)
(* of the room (RequestOK), and of the room and its cached copies that a   *)
(* group stays a group (RoomOK, SeenOK).                                   *)
(***************************************************************************)
EXTENDS Rooms, SequenceTheorems, TLAPS

----------------------------------------------------------------------------
(* The inductive invariant.                                                *)

\* The power levels a group and a channel may have.
GroupContent(c) ==
    /\ c \in Content /\ c.users_default = 25
    /\ \A h \in Handle : c.users[h] \in {Unset, 25, 100, 101}
    /\ \A p \in Permission : c.required[p] \in {25, 100, 101}

ChannelContent(c) ==
    /\ c \in Content /\ c.users_default \in {10, 25, 50, 100}
    /\ \A h \in Handle : c.users[h] \in {Unset, 10, 25, 50, 100}
    /\ \A p \in Permission : c.required[p] \in {10, 25, 50, 100}

Suits(c, kind) == /\ kind = "group" => GroupContent(c)
                  /\ kind \in {"channel", "deleted"} => ChannelContent(c)

\* A group is private, so nobody asks to be let in.
RoomOK(rm) == /\ rm \in Room /\ Suits(rm.levels, rm.kind)
              /\ rm.kind = "group" => /\ rm.joinRule = "PRIVATE"
                                      /\ \A h \in Handle : rm.member[h] # "knock"

\* s: what the client of h knows of the room rm.
SeenOK(h, s, rm) == /\ s \in Room
                    /\ s.levels = NoLevels \/ Suits(s.levels, rm.kind)
                    /\ rm.member[h] = "none" => s.member[h] = "none"

RequestOK(r, kind) == /\ r \in Request
                      /\ r.what = "levels" => Suits(r.content, kind)
                      /\ ~r.awaited => r.what \in {"invite", "kick"}

\* Before there is a room nothing has happened.
NothingYet == room.kind = "none" =>
    /\ room = NoRoom /\ requests = {}
    /\ call = [h \in Handle |-> NewCall("none")] /\ seen = [h \in Handle |-> NoRoom]

\* Which operations reach which step.
Shape(c) ==
    /\ c.rest \in Seq({"name", "topic", "avatar", "scs"})
    /\ c.rest # <<>> => c.op \in {"create", "updateGroup", "updateChannel"}
    /\ c.levels => c.op = "updateChannel"
    /\ c.result # "none" => c.pc = "idle"
    /\ c.pc = "waitRoom" => c.op \in {"join", "knock"}
    /\ c.pc = "readLevels" => c.op = "updateChannel"
    /\ c.pc = "readMembers" => c.op \in {"updateChannel", "deleteGroup"}
    /\ c.pc = "readRoles" => c.op = "deleteGroup"
    /\ c.pc = "avatar" => c.op = "create"
    /\ c.pc = "readMembers" /\ c.op = "updateChannel" =>
          c.base = NoLevels \/ ChannelContent(c.base)

\* The requests the call of h waits for.
Own(R, h) == {r \in R : r.by = h /\ r.awaited}

\* The call c waits for the requests A; d: it was disturbed; rm: the room;
\* rc: the room was changed since updateChannel read the levels.
Fit(c, A, d, rm, rc) ==
    /\ A # {} => c.pc = "requests"
    /\ c.op # "invite" => \A q, r \in A : q = r
    /\ c.op = "invite" => \A r \in A : r.what = "invite"
    /\ c.op = "updateChannel" =>
          /\ rm.kind \in {"channel", "deleted"}
          /\ \A r \in A : r.what = "levels" =>
                r.content = UpdatedChannelLevels(c.base, Listed(c.members), c.input, c.role)
    /\ c.op = "role" /\ ~d => \A r \in A :
          /\ r.content.users_default = rm.levels.users_default
          /\ \A t \in Handle \ {r.to} : r.content.users[t] = rm.levels.users[t]
    /\ c.op = "invite" /\ ~d /\ (c.pc = "requests" \/ c.result = "ok") =>
          \A t \in c.to : rm.member[t] \in {"invite", "join", "ban"} \/ \E r \in A : r.to = t
    /\ c.op = "updateChannel" /\ c.base # NoLevels /\ ~rc =>
          /\ c.pc = "readMembers" => c.base = rm.levels
          /\ \A r \in A : r.what = "levels" => c.base = rm.levels /\ c.members = rm.member

Inv == /\ RoomOK(room) /\ NothingYet
       /\ seen \in [Handle -> Room] /\ \A h \in Handle : SeenOK(h, seen[h], room)
       /\ \A r \in requests : RequestOK(r, room.kind)
       /\ call \in [Handle -> Call] /\ \A h \in Handle : Shape(call[h])
       /\ calls \in [Handle -> Nat]
       /\ disturbed \in [Handle -> BOOLEAN] /\ raced \in [Handle -> BOOLEAN]
       /\ \A h \in Handle : Fit(call[h], Own(requests, h), disturbed[h], room, raced[h])

----------------------------------------------------------------------------
(* Power levels.                                                           *)

\* Roles are stored as one of four levels.
LEMMA LevelRange ==
    /\ \A role : ChannelLevel(role) \in {10, 25, 50, 100}
    /\ \A role : GroupLevel(role) \in {25, 100, 101}
BY DEF ChannelLevel, GroupLevel

\* A new group has the levels of a group.
LEMMA InitialGroup ==
    ASSUME NEW h \in Handle PROVE GroupContent(InitialGroupLevels(h))
<1> DEFINE c == InitialGroupLevels(h)
<1>1. c.users \in [Handle -> {Unset, 25, 100}] /\ c.users_default = 25
  BY DEF InitialGroupLevels, Only, GroupLevel
<1>2. /\ c.required \in [Permission \cup ReactionEvent -> Level]
      /\ \A p \in Permission : c.required[p] \in {25, 100, 101}
  BY LevelRange DEF InitialGroupLevels, Level, Unset
<1>3. c \in Content
  BY <1>1, <1>2 DEF Content, InitialGroupLevels, Level, Unset
<1> QED
  BY <1>1, <1>2, <1>3 DEF GroupContent

\* The levels a channel asks for are levels of roles.
LEMMA RequiredRange ==
    ASSUME NEW input, NEW events \in {Unset, 10}
    PROVE  /\ RequiredLevels(input, events) \in [Permission \cup ReactionEvent -> Level]
           /\ \A p \in Permission : RequiredLevels(input, events)[p] \in {10, 25, 50, 100}
BY LevelRange DEF RequiredLevels, ChannelRequired, Level, Unset

\* A new channel has the levels of a channel.
LEMMA InitialChannel ==
    ASSUME NEW h \in Handle, NEW input, NEW role
    PROVE  ChannelContent(InitialChannelLevels(h, input, role))
<1> DEFINE c == InitialChannelLevels(h, input, role)
<1>1. c.users \in [Handle -> {Unset, 10, 25, 50, 100}]
  BY DEF InitialChannelLevels, Only
<1>2. c.users_default \in {10, 25, 50, 100}
  BY LevelRange DEF InitialChannelLevels
<1>3. ChannelLevel("REACT_ONLY_PARTICIPANT") = 10
  BY DEF ChannelLevel
<1>4. /\ c.required \in [Permission \cup ReactionEvent -> Level]
      /\ \A p \in Permission : c.required[p] \in {10, 25, 50, 100}
  BY <1>3, RequiredRange DEF InitialChannelLevels
<1>5. c \in Content
  BY <1>1, <1>2, <1>4 DEF Content, InitialChannelLevels, Level, Unset
<1> QED
  BY <1>1, <1>2, <1>4, <1>5 DEF ChannelContent

\* updateChannel writes the levels of a channel.
LEMMA UpdatedChannel ==
    ASSUME NEW base, base = NoLevels \/ ChannelContent(base), NEW members, NEW input, NEW role
    PROVE  ChannelContent(UpdatedChannelLevels(base, members, input, role))
<1> DEFINE c == UpdatedChannelLevels(base, members, input, role)
<1>1. c.users \in [Handle -> {Unset, 10, 25, 50, 100}]
  <2>1. CASE base = NoLevels
    <3>1. \A h \in Handle : base.users[h] = Unset
      BY <2>1 DEF NoLevels
    <3> QED
      BY <2>1, <3>1 DEF UpdatedChannelLevels, PinnedUsers
  <2>2. CASE ChannelContent(base)
    BY <2>2 DEF UpdatedChannelLevels, PinnedUsers, ChannelContent
  <2> QED
    BY <2>1, <2>2
<1>2. c.users_default \in {10, 25, 50, 100}
  BY LevelRange DEF UpdatedChannelLevels
<1>3. /\ c.required \in [Permission \cup ReactionEvent -> Level]
      /\ \A p \in Permission : c.required[p] \in {10, 25, 50, 100}
  BY RequiredRange DEF UpdatedChannelLevels
<1>4. c \in Content
  BY <1>1, <1>2, <1>3 DEF Content, UpdatedChannelLevels, Level, Unset
<1> QED
  BY <1>1, <1>2, <1>3, <1>4 DEF ChannelContent

\* updateChannel keeps the level of every member it has read.
LEMMA UpdatedKeeps ==
    ASSUME NEW base \in Content, base # NoLevels, NEW members \in SUBSET Handle, NEW input,
           NEW role, NEW t \in members
    PROVE  LevelOf(UpdatedChannelLevels(base, members, input, role), t) = LevelOf(base, t)
BY DEF UpdatedChannelLevels, PinnedUsers, LevelOf, Content, Level, Unset

\* A role given to one user leaves the content suitable, and says nothing
\* new of the others.
LEMMA WithUserSuits ==
    ASSUME NEW c, NEW kind, Suits(c, kind), kind \in {"group", "channel", "deleted"},
           NEW t \in Handle, NEW level,
           kind = "group" => level \in {25, 100, 101},
           kind # "group" => level \in {10, 25, 50, 100}
    PROVE  /\ WithUser(c, t, level) \in Content
           /\ Suits(WithUser(c, t, level), kind)
           /\ WithUser(c, t, level).users_default = c.users_default
           /\ \A u \in Handle \ {t} : WithUser(c, t, level).users[u] = c.users[u]
<1> DEFINE d == WithUser(c, t, level)
<1>1. c \in Content /\ level \in Level
  BY DEF Suits, GroupContent, ChannelContent, Level
<1>2. d = [users |-> [c.users EXCEPT ![t] = level], users_default |-> c.users_default,
           required |-> c.required]
  BY <1>1 DEF WithUser, Content
<1>3. d \in Content
  BY <1>1, <1>2 DEF Content
<1>4. CASE kind = "group"
  <2>1. GroupContent(d)
    BY <1>1, <1>2, <1>3, <1>4 DEF Suits, GroupContent, Content
  <2> QED
    BY <1>1, <1>2, <1>3, <1>4, <2>1 DEF Suits, Content
<1>5. CASE kind # "group"
  <2>1. ChannelContent(d)
    BY <1>1, <1>2, <1>3, <1>5 DEF Suits, ChannelContent, Content
  <2> QED
    BY <1>1, <1>2, <1>3, <1>5, <2>1 DEF Suits, Content
<1> QED
  BY <1>4, <1>5

----------------------------------------------------------------------------
(* Steps of a handle's call that leave the room alone.                     *)

\* What NewCall, Finish and NewRequest make is well formed.
LEMMA NewTyped ==
    /\ NoLevels \in Content /\ NoRoom \in Room /\ NoRoom.member \in [Handle -> Membership]
    /\ \A op \in AllOps \cup {"none", "create"} :
          NewCall(op) \in Call /\ Shape(NewCall(op))
    /\ \A h \in Handle, t \in Handle : \A w \in What : NewRequest(h, w, t) \in Request
<1>1. NoLevels \in Content
  BY DEF NoLevels, Content, Level, Unset
<1>2. NoRoom \in Room /\ NoRoom.member \in [Handle -> Membership]
  BY <1>1 DEF NoRoom, Room, JoinRule, Membership, Field
<1>3. \A h \in Handle, t \in Handle : \A w \in What : NewRequest(h, w, t) \in Request
  BY <1>1 DEF NewRequest, Request, What, JoinRule
<1>4. ASSUME NEW op \in AllOps \cup {"none", "create"}
      PROVE  NewCall(op) \in Call /\ Shape(NewCall(op))
  <2>1. <<>> \in Seq(What) /\ <<>> \in Seq({"name", "topic", "avatar", "scs"})
    OBVIOUS
  <2>2. [p \in Permission |-> "undefined"] \in PermissionInput
    BY DEF PermissionInput
  <2>3. NewCall(op) \in Call
    BY <1>1, <1>2, <2>1, <2>2, <1>4 DEF NewCall, Call, ChannelRole, JoinRule
  <2> QED
    BY <2>1, <2>3 DEF NewCall, Shape
<1> QED
  BY <1>1, <1>2, <1>3, <1>4

\* A call that is over waits for nothing and keeps whom it was for.
LEMMA FinishTyped ==
    ASSUME NEW c \in Call, NEW result \in {"none", "ok", "error"}
    PROVE  /\ Finish(c, result) \in Call /\ Shape(Finish(c, result))
           /\ Finish(c, result).op = c.op /\ Finish(c, result).pc = "idle"
           /\ Finish(c, result).to = c.to /\ Finish(c, result).result = result
<1>1. c.op \in AllOps \cup {"none", "create"} /\ c.to \in SUBSET Handle
  BY DEF Call
<1>2. NewCall(c.op) \in Call /\ Shape(NewCall(c.op))
  BY <1>1, NewTyped
<1>3. NewCall(c.op).op = c.op /\ NewCall(c.op).pc = "idle"
  BY DEF NewCall
<1>4. Finish(c, result) \in Call
  BY <1>1, <1>2 DEF Finish, Call
<1>5. Shape(Finish(c, result))
  BY <1>2, <1>3 DEF Finish, Call, Shape
<1> QED
  BY <1>1, <1>2, <1>3, <1>4, <1>5 DEF Finish, Call

\* A call waits only at "requests".
LEMMA IdleOwnsNothing ==
    ASSUME Inv, NEW h \in Handle, call[h].pc # "requests"
    PROVE  Own(requests, h) = {}
BY DEF Inv, Fit

\* A call of h moves to c and sends reqs; nothing else changes.
LEMMA CallStep ==
    ASSUME Inv, room.kind # "none", NEW h \in Handle, call[h].pc # "requests",
           NEW c \in Call, Shape(c), NEW reqs, NEW d \in BOOLEAN, NEW rc \in BOOLEAN,
           \A r \in reqs : r.by = h /\ RequestOK(r, room.kind),
           Fit(c, Own(reqs, h), d, room, rc),
           call' = [call EXCEPT ![h] = c], requests' = requests \cup reqs,
           room' = room, seen' = seen,
           calls' \in [Handle -> Nat], disturbed' = [disturbed EXCEPT ![h] = d],
           raced' = [raced EXCEPT ![h] = rc]
    PROVE  Inv'
<1>1. Own(requests, h) = {}
  BY IdleOwnsNothing
<1>2. Own(requests', h) = Own(reqs, h)
  BY <1>1 DEF Own
<1>3. \A x \in Handle \ {h} : Own(requests', x) = Own(requests, x)
  BY DEF Own
<1>4. /\ RoomOK(room') /\ NothingYet'
      /\ seen' \in [Handle -> Room] /\ \A x \in Handle : SeenOK(x, seen'[x], room')
      /\ \A r \in requests' : RequestOK(r, room'.kind)
  BY DEF Inv, NothingYet
<1>5. call' \in [Handle -> Call] /\ \A x \in Handle : Shape(call'[x])
  BY DEF Inv
<1>6. disturbed' \in [Handle -> BOOLEAN] /\ raced' \in [Handle -> BOOLEAN]
  BY DEF Inv
<1>7. ASSUME NEW x \in Handle
      PROVE  Fit(call'[x], Own(requests', x), disturbed'[x], room', raced'[x])
  <2>1. CASE x = h
    BY <1>2, <2>1 DEF Inv
  <2>2. CASE x # h
    <3>1. /\ call'[x] = call[x] /\ disturbed'[x] = disturbed[x] /\ raced'[x] = raced[x]
          /\ Own(requests', x) = Own(requests, x)
      BY <1>3, <2>2 DEF Inv
    <3> QED
      BY <3>1 DEF Inv
  <2> QED
    BY <2>1, <2>2
<1> QED
  BY <1>4, <1>5, <1>6, <1>7 DEF Inv

\* A call that begins.
LEMMA BeginInv ==
    ASSUME Inv, NEW h \in Handle, NEW op, Ready(h, op), NEW c \in Call, Shape(c), NEW reqs,
           \A r \in reqs : r.by = h /\ RequestOK(r, room.kind),
           Fit(c, Own(reqs, h), seen[h] # room, room, FALSE),
           Begin(h, c, reqs)
    PROVE  Inv'
<1>1. room.kind # "none" /\ call[h].pc # "requests"
  BY DEF Ready
<1>2. calls' \in [Handle -> Nat]
  BY DEF Begin, Inv
<1>3. /\ (seen[h] # room) \in BOOLEAN /\ disturbed' = [disturbed EXCEPT ![h] = seen[h] # room]
      /\ raced' = [raced EXCEPT ![h] = FALSE]
  BY DEF Begin
<1> QED
  BY <1>1, <1>2, <1>3, CallStep DEF Begin

\* A call that goes on.
LEMMA StepInv ==
    ASSUME Inv, room.kind # "none", NEW h \in Handle, call[h].pc # "requests",
           NEW c \in Call, Shape(c), NEW reqs,
           \A r \in reqs : r.by = h /\ RequestOK(r, room.kind),
           Fit(c, Own(reqs, h), disturbed[h], room, raced[h]),
           Step(h, c, reqs)
    PROVE  Inv'
<1>1. /\ disturbed[h] \in BOOLEAN /\ disturbed' = [disturbed EXCEPT ![h] = disturbed[h]]
      /\ raced[h] \in BOOLEAN /\ raced' = [raced EXCEPT ![h] = raced[h]]
  BY DEF Step, Inv
<1>2. /\ calls' \in [Handle -> Nat] /\ room' = room /\ seen' = seen
      /\ call' = [call EXCEPT ![h] = c] /\ requests' = requests \cup reqs
  BY DEF Step, Inv
<1>3. PICK d \in BOOLEAN, rc \in BOOLEAN : d = disturbed[h] /\ rc = raced[h]
  BY <1>1
<1>4. Fit(c, Own(reqs, h), d, room, rc)
  BY <1>3
<1> QED
  BY <1>1, <1>2, <1>3, <1>4, CallStep

\* A handle that does something else than creating has found the room.
LEMMA BusyRoom ==
    ASSUME Inv, NEW h \in Handle, call[h].pc # "idle"
    PROVE  room.kind # "none"
BY DEF Inv, NothingYet, NewCall

\* A call that is over waits for nothing.
LEMMA OverFits ==
    ASSUME NEW c, c.pc # "requests", NEW d, NEW rm, NEW rc,
           c.op = "updateChannel" => /\ rm.kind \in {"channel", "deleted"}
                                     /\ c.pc # "readMembers",
           c.result = "ok" => c.op # "invite"
    PROVE  Fit(c, {}, d, rm, rc)
BY DEF Fit

\* A use case that refuses changes nothing else.
LEMMA RefuseInv ==
    ASSUME Inv, NEW h \in Handle, NEW op \in AllOps, Ready(h, op), Refuse(h, op),
           op = "updateChannel" => room.kind \in {"channel", "deleted"}
    PROVE  Inv'
<1> DEFINE c == [NewCall(op) EXCEPT !.result = "error"]
<1>1. NewCall(op) \in Call /\ Shape(NewCall(op))
  BY NewTyped
<1>2. c \in Call /\ c.op = op /\ c.pc = "idle" /\ c.result = "error"
  BY <1>1 DEF NewCall, Call
<1>3. Shape(c)
  BY <1>1, <1>2 DEF Shape, Call
<1>4. Fit(c, {}, seen[h] # room, room, FALSE)
  BY <1>2, OverFits
<1>5. Own({}, h) = {}
  BY DEF Own
<1> QED
  BY <1>2, <1>3, <1>4, <1>5, BeginInv DEF Refuse

\* The use cases that send one request which carries no power levels.
LEMMA SendInv ==
    ASSUME Inv, NEW h \in Handle, NEW op \in AllOps \ {"invite", "updateChannel", "role"},
           Ready(h, op), NEW w \in What \ {"levels"}, NEW t \in Handle, Send(h, op, w, t)
    PROVE  Inv'
<1> DEFINE c == [NewCall(op) EXCEPT !.pc = "requests", !.to = {t}]
           r == NewRequest(h, w, t)
<1>1. NewCall(op) \in Call /\ Shape(NewCall(op))
  BY NewTyped
<1>2. c \in Call /\ c.op = op /\ c.pc = "requests" /\ c.result = "none"
  BY <1>1 DEF NewCall, Call
<1>3. Shape(c)
  BY <1>1, <1>2 DEF Shape, Call
<1>4. r \in Request /\ r.by = h /\ r.awaited /\ r.what = w
  BY NewTyped DEF NewRequest
<1>5. Own({r}, h) = {r}
  BY <1>4 DEF Own
<1>6. Fit(c, {r}, seen[h] # room, room, FALSE)
  BY <1>2 DEF Fit
<1>7. RequestOK(r, room.kind)
  BY <1>4 DEF RequestOK
<1>8. Begin(h, c, {r}) /\ c \in Call
  BY <1>2 DEF Send
<1>9. Fit(c, Own({r}, h), seen[h] # room, room, FALSE)
  BY <1>5, <1>6
<1>10. \A q \in {r} : q.by = h /\ RequestOK(q, room.kind)
  BY <1>4, <1>7
<1> HIDE DEF c, r
<1>11. PICK reqs : reqs = {r}
  OBVIOUS
<1>12. /\ \A q \in reqs : q.by = h /\ RequestOK(q, room.kind)
       /\ Fit(c, Own(reqs, h), seen[h] # room, room, FALSE)
  BY <1>9, <1>10, <1>11
<1>13. Begin(h, c, reqs)
  BY <1>8, <1>11
<1> QED
  BY <1>3, <1>8, <1>12, <1>13, BeginInv

\* kickHandle, banHandle, unbanHandle and withdrawing an invitation.
LEMMA SendIfInv ==
    ASSUME Inv, NEW h \in Handle, NEW op \in AllOps \ {"invite", "updateChannel", "role"},
           Ready(h, op), NEW w \in What \ {"levels"}, NEW t \in Handle, NEW cond,
           SendIf(cond, h, op, w, t)
    PROVE  Inv'
BY SendInv, RefuseInv DEF SendIf

\* What setPowerLevel starts from suits the room.
LEMMA ContentSuits ==
    ASSUME Inv, NEW h \in Handle
    PROVE  Suits(PowerLevelContent(h), room.kind)
BY DEF Inv, SeenOK, RoomOK, PowerLevelContent

\* updateRoomMemberPowerLevel.
LEMMA RoleInv ==
    ASSUME Inv, NEW h \in Handle, NEW t \in Handle, NEW level, Ready(h, "role"),
           room.kind = "group" => level \in {25, 100, 101},
           room.kind # "group" => level \in {10, 25, 50, 100},
           updateRoomMemberPowerLevel(h, t, level)
    PROVE  Inv'
<1> DEFINE content == PowerLevelContent(h)
           c == [NewCall("role") EXCEPT !.pc = "requests", !.to = {t}]
           r == [NewRequest(h, "levels", t) EXCEPT !.content = WithUser(content, t, level)]
<1>1. CASE Refuse(h, "role")
  BY <1>1, RefuseInv DEF AllOps
<1>2. CASE Begin(h, c, {r})
  <2>1. room.kind \in {"group", "channel", "deleted"} /\ Suits(content, room.kind)
    BY ContentSuits DEF Inv, RoomOK, Room, Ready
  <2>2. content \in Content
    BY <2>1 DEF Suits, GroupContent, ChannelContent
  <2>3. /\ WithUser(content, t, level) \in Content
        /\ Suits(WithUser(content, t, level), room.kind)
        /\ WithUser(content, t, level).users_default = content.users_default
        /\ \A u \in Handle \ {t} : WithUser(content, t, level).users[u] = content.users[u]
    BY <2>1, WithUserSuits
  <2>4. NewCall("role") \in Call /\ Shape(NewCall("role"))
    BY NewTyped DEF AllOps
  <2>5. c \in Call /\ c.op = "role" /\ c.pc = "requests" /\ c.result = "none"
    BY <2>2, <2>4 DEF NewCall, Call
  <2>6. Shape(c)
    BY <2>4 DEF Shape, Call, NewCall
  <2>7. NewRequest(h, "levels", t) \in Request
    BY NewTyped DEF What
  <2>8. /\ r \in Request /\ r.by = h /\ r.awaited /\ r.what = "levels" /\ r.to = t
        /\ r.content = WithUser(content, t, level)
    BY <2>3, <2>7 DEF NewRequest, Request
  <2>9. Own({r}, h) = {r}
    BY <2>8 DEF Own
  <2>10. seen[h] = room => content = room.levels
    BY DEF PowerLevelContent
  <2>11. Fit(c, {r}, seen[h] # room, room, FALSE)
    BY <2>3, <2>5, <2>8, <2>10 DEF Fit
  <2>12. RequestOK(r, room.kind)
    BY <2>3, <2>8 DEF RequestOK
  <2>13. Fit(c, Own({r}, h), seen[h] # room, room, FALSE)
    BY <2>9, <2>11
  <2>14. \A q \in {r} : q.by = h /\ RequestOK(q, room.kind)
    BY <2>8, <2>12
  <2> HIDE DEF c, r
  <2>15. PICK reqs : reqs = {r}
    OBVIOUS
  <2>16. /\ \A q \in reqs : q.by = h /\ RequestOK(q, room.kind)
         /\ Fit(c, Own(reqs, h), seen[h] # room, room, FALSE)
    BY <2>13, <2>14, <2>15
  <2>17. Begin(h, c, reqs)
    BY <1>2, <2>15
  <2> QED
    BY <2>5, <2>6, <2>16, <2>17, BeginInv
<1> QED
  BY <1>1, <1>2 DEF updateRoomMemberPowerLevel

\* sendInvitations: whoever is left out is a member, if the cache is current.
LEMMA InviteInv ==
    ASSUME Inv, NEW h \in Handle, NEW T \in SUBSET Handle, Ready(h, "invite"),
           sendInvitations(h, T)
    PROVE  Inv'
<1> DEFINE toInvite == {t \in T : seen[h].member[t] \notin {"join", "invite", "ban"}}
           c == [NewCall("invite") EXCEPT !.pc = IF toInvite = {} THEN "idle" ELSE "requests",
                    !.result = IF toInvite = {} THEN "ok" ELSE "none", !.to = T]
           reqs == {NewRequest(h, "invite", t) : t \in toInvite}
<1>1. CASE Refuse(h, "invite")
  BY <1>1, RefuseInv DEF AllOps
<1>2. CASE Begin(h, c, reqs)
  <2>1. NewCall("invite") \in Call /\ Shape(NewCall("invite"))
    BY NewTyped DEF AllOps
  <2>2. /\ c \in Call /\ c.op = "invite" /\ c.to = T
        /\ c.pc = IF toInvite = {} THEN "idle" ELSE "requests"
    BY <2>1 DEF NewCall, Call
  <2>3. Shape(c)
    BY <2>1 DEF Shape, Call, NewCall
  <2>4. \A t \in toInvite : LET r == NewRequest(h, "invite", t) IN
           r \in Request /\ r.by = h /\ r.awaited /\ r.what = "invite" /\ r.to = t
    BY NewTyped DEF NewRequest, What
  <2>5. /\ Own(reqs, h) = reqs
        /\ \A r \in reqs : r.by = h /\ r.what = "invite" /\ RequestOK(r, room.kind)
        /\ reqs # {} => toInvite # {}
    BY <2>4 DEF Own, RequestOK
  <2>6. seen[h] = room => \A t \in T : \/ room.member[t] \in {"invite", "join", "ban"}
                                      \/ \E r \in reqs : r.to = t
    BY <2>4
  <2>7. Fit(c, reqs, seen[h] # room, room, FALSE)
    BY <2>2, <2>5, <2>6 DEF Fit
  <2> QED
    BY <1>2, <2>2, <2>3, <2>5, <2>7, BeginInv
<1> QED
  BY <1>1, <1>2 DEF sendInvitations

----------------------------------------------------------------------------
(* The use cases of several requests.                                      *)

Written == {"name", "topic", "avatar", "scs"}
Ask(h, w, rule) == [NewRequest(h, w, h) EXCEPT !.rule = rule]

\* Fields are written in a sequence of their own.
LEMMA FieldOrderTyped ==
    ASSUME NEW fields PROVE FieldOrder(fields) \in Seq(Written)
<1> DEFINE n == IF "name" \in fields THEN <<"name">> ELSE <<>>
           t == IF "topic" \in fields THEN <<"topic">> ELSE <<>>
           a == IF "avatar" \in fields THEN <<"avatar">> ELSE <<>>
<1>0. \A w \in Written : <<w>> \in Seq(Written) /\ <<>> \in Seq(Written)
  OBVIOUS
<1>1. n \in Seq(Written) /\ t \in Seq(Written) /\ a \in Seq(Written)
  BY <1>0 DEF Written
<1> HIDE DEF n, t, a
<1>2. n \o t \in Seq(Written)
  BY <1>1, ConcatProperties
<1>3. (n \o t) \o a \in Seq(Written)
  BY <1>1, <1>2, ConcatProperties
<1> QED
  BY <1>3 DEF FieldOrder, n, t, a

\* A request for a field or for the channel service is well formed.
LEMMA FieldRequest ==
    ASSUME NEW h \in Handle, NEW w \in Written, NEW rule \in JoinRule \cup {"keep"}, NEW kind
    PROVE  /\ RequestOK(Ask(h, w, rule), kind) /\ Ask(h, w, rule).by = h
           /\ Ask(h, w, rule).awaited /\ Ask(h, w, rule).what = w
<1>1. NewRequest(h, w, h) \in Request
  BY NewTyped DEF Written, What
<1> QED
  BY <1>1 DEF Ask, NewRequest, Request, RequestOK, Written

\* A call that waits for one request that carries no power levels.
LEMMA OneFits ==
    ASSUME NEW c, c.pc = "requests", c.op \notin {"invite", "role"}, c.result = "none",
           NEW r, r.what # "levels", NEW d, NEW rm, NEW rc,
           c.op = "updateChannel" => rm.kind \in {"channel", "deleted"}
    PROVE  Fit(c, {r}, d, rm, rc)
BY DEF Fit

\* update.
LEMMA UpdateInv ==
    ASSUME Inv, NEW h \in Handle, NEW c \in Call, Shape(c), NEW fields,
           c.op \in {"updateGroup", "updateChannel"}, c.result = "none", Ready(h, c.op),
           c.op = "updateChannel" => room.kind \in {"channel", "deleted"},
           update(h, c, fields)
    PROVE  Inv'
<1> DEFINE order == FieldOrder(fields) \o c.rest
           d == [c EXCEPT !.pc = "requests", !.rest = Tail(order)]
           w == Head(order)
           r == Ask(h, w, c.rule)
<1>1. CASE Refuse(h, c.op)
  BY <1>1, RefuseInv DEF AllOps
<1>2. CASE order # <<>> /\ Begin(h, d, {r})
  <2>1. order \in Seq(Written)
    BY FieldOrderTyped, ConcatProperties DEF Shape, Written
  <2>2. w \in Written /\ Tail(order) \in Seq(Written)
    BY <1>2, <2>1, HeadTailProperties
  <2>3. Tail(order) \in Seq(What)
    BY <2>2, SeqMonotonic DEF Written, What
  <2> HIDE DEF order
  <2>4. /\ d \in Call /\ d.op = c.op /\ d.pc = "requests" /\ d.result = "none"
        /\ d.rest = Tail(order)
    BY <2>3 DEF Call
  <2>5. Shape(d)
    BY <2>2, <2>4 DEF Shape, Call, Written
  <2>6. c.rule \in JoinRule \cup {"keep"}
    BY DEF Call
  <2> HIDE DEF w, d, r
  <2>7. RequestOK(r, room.kind) /\ r.by = h /\ r.awaited /\ r.what \in Written
    <3>1. r = Ask(h, w, c.rule)
      BY DEF r
    <3>2. RequestOK(Ask(h, w, c.rule), room.kind)
      BY ONLY <2>2, <2>6, FieldRequest, h \in Handle
    <3>3. Ask(h, w, c.rule).by = h /\ Ask(h, w, c.rule).awaited /\ Ask(h, w, c.rule).what = w
      BY <2>2, <2>6, FieldRequest
    <3> QED
      BY <2>2, <3>1, <3>2, <3>3
  <2>8. Own({r}, h) = {r}
    BY <2>7 DEF Own
  <2>9. Fit(d, {r}, seen[h] # room, room, FALSE)
    BY <2>4, <2>7, OneFits DEF Written
  <2>10. Fit(d, Own({r}, h), seen[h] # room, room, FALSE)
    BY <2>8, <2>9
  <2>11. \A q \in {r} : q.by = h /\ RequestOK(q, room.kind)
    BY <2>7
  <2> QED
    BY <1>2, <2>4, <2>5, <2>10, <2>11, BeginInv
<1> QED
  BY <1>1, <1>2 DEF update, w, Ask

\* updateGroup.
LEMMA UpdateGroupInv ==
    ASSUME Inv, NEW h \in Handle, NEW fields, UpdateGroup(h, fields)
    PROVE  Inv'
<1>1. NewCall("updateGroup") \in Call /\ Shape(NewCall("updateGroup"))
  BY NewTyped DEF AllOps
<1>2. NewCall("updateGroup").op = "updateGroup" /\ NewCall("updateGroup").result = "none"
  BY DEF NewCall
<1> QED
  BY <1>1, <1>2, UpdateInv, RefuseInv DEF UpdateGroup, AllOps

\* updateChannel, up to its reads.
LEMMA UpdateChannelInv ==
    ASSUME Inv, NEW h \in Handle, NEW avatar \in BOOLEAN, NEW rule \in JoinRule,
           NEW input \in PermissionInput, NEW role \in ChannelRole \cup {"undefined"},
           NEW levels \in BOOLEAN, UpdateChannel(h, avatar, rule, input, role, levels)
    PROVE  Inv'
<1> DEFINE c == [NewCall("updateChannel") EXCEPT !.pc = "requests", !.rule = rule,
                    !.input = IF levels THEN input ELSE @,
                    !.role = IF levels /\ role # "undefined" THEN role ELSE "PARTICIPANT",
                    !.levels = levels]
           e == [c EXCEPT !.rest = <<"scs">>]
           r == Ask(h, "scs", rule)
<1>0. Ready(h, "updateChannel") /\ room.kind \in {"channel", "deleted"}
  BY DEF UpdateChannel, Channel
<1>1. NewCall("updateChannel") \in Call /\ Shape(NewCall("updateChannel"))
  BY NewTyped DEF AllOps
<1>2. c \in Call /\ c.op = "updateChannel" /\ c.pc = "requests" /\ c.result = "none"
  BY <1>1 DEF NewCall, Call, ChannelRole
<1>3. Shape(c)
  BY <1>1 DEF Shape, NewCall, Call
<1>4. <<"scs">> \in Seq(What) /\ <<"scs">> \in Seq(Written)
  BY DEF What, Written
<1> HIDE DEF c
<1>5. e \in Call /\ e.op = "updateChannel" /\ e.pc = "requests" /\ e.result = "none"
  BY <1>2, <1>4 DEF Call
<1>6. Shape(e)
  BY <1>2, <1>3, <1>4 DEF Shape, Call, Written
<1> HIDE DEF e
<1>7. CASE update(h, e, {"avatar"})
  BY <1>0, <1>5, <1>6, <1>7, UpdateInv
<1>8. CASE Begin(h, c, {r})
  <2>1. RequestOK(r, room.kind) /\ r.by = h /\ r.awaited /\ r.what = "scs"
    BY FieldRequest DEF Written
  <2>2. Own({r}, h) = {r}
    BY <2>1 DEF Own
  <2>3. Fit(c, {r}, seen[h] # room, room, FALSE)
    BY <1>0, <1>2, <2>1, OneFits
  <2>4. Fit(c, Own({r}, h), seen[h] # room, room, FALSE)
    BY <2>2, <2>3
  <2>5. \A q \in {r} : q.by = h /\ RequestOK(q, room.kind)
    BY <2>1
  <2> HIDE DEF r
  <2> QED
    BY <1>0, <1>2, <1>3, <1>8, <2>4, <2>5, BeginInv
<1>9. CASE Refuse(h, "updateChannel")
  BY <1>0, <1>9, RefuseInv DEF AllOps
<1>10. \/ update(h, e, {"avatar"}) \/ Begin(h, c, {r}) \/ Refuse(h, "updateChannel")
  BY Zenon DEF UpdateChannel, c, e, Ask
<1> QED
  BY <1>7, <1>8, <1>9, <1>10

\* A call that fails while it waits for no request.
LEMMA FailedInv ==
    ASSUME Inv, NEW h \in Handle, call[h].pc \notin {"idle", "requests"},
           NEW c \in Call, c.op = call[h].op, Step(h, Failed(c), {})
    PROVE  Inv'
<1>1. PICK result \in {"ok", "error"} :
         Failed(c) = Finish(c, result) /\ (result = "ok" => c.op = "create")
  BY DEF Failed
<1>2. /\ Failed(c) \in Call /\ Shape(Failed(c)) /\ Failed(c).op = c.op
      /\ Failed(c).pc = "idle" /\ Failed(c).result = result
  BY <1>1, FinishTyped
<1>3. c.op = "updateChannel" => room.kind \in {"channel", "deleted"}
  BY DEF Inv, Fit
<1>4. Fit(Failed(c), {}, disturbed[h], room, raced[h])
  BY <1>1, <1>2, <1>3, OverFits
<1>5. Own({}, h) = {} /\ room.kind # "none"
  BY BusyRoom DEF Own
<1> QED
  BY <1>2, <1>4, <1>5, StepInv

\* deleteGroup begins with its reads.
LEMMA DeleteGroupInv ==
    ASSUME Inv, NEW h \in Handle, DeleteGroup(h) PROVE Inv'
<1> DEFINE c == [NewCall("deleteGroup") EXCEPT !.pc = "readMembers"]
<1>1. NewCall("deleteGroup") \in Call /\ Shape(NewCall("deleteGroup"))
  BY NewTyped DEF AllOps
<1>2. c \in Call /\ c.op = "deleteGroup" /\ c.pc = "readMembers" /\ c.result = "none"
  BY <1>1 DEF NewCall, Call
<1>3. Shape(c)
  BY <1>1 DEF Shape, Call, NewCall
<1>4. Fit(c, {}, seen[h] # room, room, FALSE)
  BY <1>2, OverFits
<1>5. Own({}, h) = {}
  BY DEF Own
<1> QED
  BY <1>2, <1>3, <1>4, <1>5, BeginInv DEF DeleteGroup

\* deleteGroup reads the members.
LEMMA ReadMembersInv ==
    ASSUME Inv, NEW h \in Handle, ReadMembers(h) PROVE Inv'
<1> DEFINE c == [call[h] EXCEPT !.members = room.member, !.pc = "readRoles"]
<1>0. call[h].pc = "readMembers" /\ call[h].op = "deleteGroup" /\ call[h] \in Call
  BY DEF ReadMembers, Inv
<1>1. CASE Step(h, Failed(call[h]), {})
  BY <1>0, <1>1, FailedInv
<1>2. CASE Step(h, c, {})
  <2>1. room.member \in [Handle -> Membership] /\ Shape(call[h])
    BY DEF Inv, RoomOK, Room
  <2>2. c \in Call /\ c.op = "deleteGroup" /\ c.pc = "readRoles"
    BY <1>0, <2>1 DEF Call
  <2>3. Shape(c)
    BY <1>0, <2>1 DEF Shape, Call
  <2>4. Fit(c, {}, disturbed[h], room, raced[h])
    BY <2>2, OverFits
  <2>5. Own({}, h) = {} /\ room.kind # "none"
    BY <1>0, BusyRoom DEF Own
  <2> QED
    BY <1>0, <1>2, <2>2, <2>3, <2>4, <2>5, StepInv
<1> QED
  BY <1>1, <1>2 DEF ReadMembers

\* deleteGroup kicks whom it may and leaves.
LEMMA KickAllInv ==
    ASSUME Inv, NEW h \in Handle, KickAllAndLeave(h) PROVE Inv'
<1> DEFINE c == [call[h] EXCEPT !.pc = "requests"]
           kicked == {t \in Listed(call[h].members) \ {h} :
                         getRoom(h) /\ CachedLevel(h, h) > CachedLevel(h, t)}
           leaving == NewRequest(h, "leave", h)
           kicks == {[NewRequest(h, "kick", t) EXCEPT !.awaited = FALSE] : t \in kicked}
<1>0. call[h].pc = "readRoles" /\ call[h] \in Call
  BY DEF KickAllAndLeave, Inv
<1>1. CASE Step(h, Failed(call[h]), {})
  BY <1>0, <1>1, FailedInv
<1>2. CASE Step(h, c, {leaving} \cup kicks)
  <2>1. Shape(call[h])
    BY DEF Inv
  <2>2. call[h].op = "deleteGroup"
    BY <1>0, <2>1 DEF Shape
  <2>3. c \in Call /\ c.op = "deleteGroup" /\ c.pc = "requests" /\ Shape(c)
    BY <1>0, <2>1, <2>2 DEF Shape, Call
  <2>4. RequestOK(leaving, room.kind) /\ leaving.by = h /\ leaving.awaited
        /\ leaving.what = "leave"
    BY NewTyped DEF NewRequest, RequestOK, What
  <2>5. ASSUME NEW t \in kicked
        PROVE  LET r == [NewRequest(h, "kick", t) EXCEPT !.awaited = FALSE] IN
               RequestOK(r, room.kind) /\ r.by = h /\ ~r.awaited
    <3>1. t \in Handle
      BY DEF Listed
    <3>2. NewRequest(h, "kick", t) \in Request
      BY <3>1, NewTyped DEF What
    <3> QED
      BY <3>2 DEF NewRequest, Request, RequestOK
  <2>6. \A r \in kicks : RequestOK(r, room.kind) /\ r.by = h /\ ~r.awaited
    BY <2>5
  <2> HIDE DEF kicks, leaving, c
  <2>7. Own({leaving} \cup kicks, h) = {leaving}
    BY <2>4, <2>6 DEF Own
  <2>8. Fit(c, {leaving}, disturbed[h], room, raced[h])
    BY <2>3 DEF Fit
  <2>9. Fit(c, Own({leaving} \cup kicks, h), disturbed[h], room, raced[h])
    BY <2>7, <2>8
  <2>10. \A r \in {leaving} \cup kicks : r.by = h /\ RequestOK(r, room.kind)
    BY <2>4, <2>6
  <2>11. room.kind # "none"
    BY <1>0, BusyRoom
  <2> QED
    BY <1>0, <1>2, <2>3, <2>9, <2>10, <2>11, StepInv
<1> QED
  BY <1>1, <1>2 DEF KickAllAndLeave

\* updateChannel reads the power levels, if it finds the room in the cache.
LEMMA ReadLevelsInv ==
    ASSUME Inv, NEW h \in Handle, ReadLevels(h) PROVE Inv'
<1> DEFINE base == IF getRoom(h) THEN room.levels ELSE NoLevels
           c == [call[h] EXCEPT !.base = base, !.levels = FALSE]
           e == [c EXCEPT !.pc = "readMembers"]
<1>0. call[h].pc = "readLevels" /\ call[h] \in Call /\ Shape(call[h])
  BY DEF ReadLevels, Inv
<1>1. call[h].op = "updateChannel"
  BY <1>0 DEF Shape
<1>2. room.kind \in {"channel", "deleted"} /\ Own({}, h) = {}
  BY <1>1 DEF Inv, Fit, Own
<1>3. /\ base \in Content /\ (base = NoLevels \/ ChannelContent(base))
      /\ base # NoLevels => base = room.levels
  BY <1>2, NewTyped DEF Inv, RoomOK, Suits, Room
<1>4. PICK d \in {Failed(c), Finish(c, "ok"), e} : call' = [call EXCEPT ![h] = d]
  BY DEF ReadLevels
<1> HIDE DEF base
<1>5. c \in Call /\ c.op = "updateChannel"
  BY <1>0, <1>1, <1>3 DEF Call
<1>6. d \in Call /\ Shape(d) /\ d.pc # "requests" /\ Fit(d, {}, disturbed[h], room, FALSE)
  <2>1. CASE d = e
    <3>1. e \in Call /\ e.op = "updateChannel" /\ e.pc = "readMembers" /\ e.base = base
      BY <1>0, <1>1, <1>3 DEF Call
    <3>2. Shape(e)
      BY <1>0, <1>1, <1>3, <3>1 DEF Shape, Call
    <3> HIDE DEF e
    <3> QED
      BY <1>2, <1>3, <2>1, <3>1, <3>2 DEF Fit
  <2>2. CASE d \in {Failed(c), Finish(c, "ok")}
    <3> HIDE DEF c
    <3>1. PICK result \in {"ok", "error"} : d = Finish(c, result)
      BY <2>2 DEF Failed
    <3>2. d \in Call /\ Shape(d) /\ d.op = "updateChannel" /\ d.pc = "idle"
      BY <1>5, <3>1, FinishTyped
    <3> QED
      BY <1>2, <3>2, OverFits
  <2> QED
    BY <1>4, <2>1, <2>2
<1> HIDE DEF c, e
<1>7. /\ disturbed[h] \in BOOLEAN /\ disturbed' = [disturbed EXCEPT ![h] = disturbed[h]]
      /\ raced' = [raced EXCEPT ![h] = FALSE] /\ calls' \in [Handle -> Nat]
      /\ room' = room /\ seen' = seen /\ requests' = requests \cup {}
  BY DEF ReadLevels, Inv
<1> QED
  BY <1>0, <1>2, <1>4, <1>6, <1>7, CallStep

\* updateChannel reads the members and writes the power levels.
LEMMA WriteLevelsInv ==
    ASSUME Inv, NEW h \in Handle, WriteLevels(h) PROVE Inv'
<1> DEFINE c == [call[h] EXCEPT !.members = room.member, !.pc = "requests"]
           content == UpdatedChannelLevels(c.base, Listed(c.members), c.input, c.role)
           r == [NewRequest(h, "levels", h) EXCEPT !.content = content]
<1>0. /\ call[h].pc = "readMembers" /\ call[h].op = "updateChannel"
      /\ call[h] \in Call /\ Shape(call[h])
  BY DEF WriteLevels, Inv
<1>1. room.kind \in {"channel", "deleted"} /\ room.member \in [Handle -> Membership]
  BY <1>0 DEF Inv, Fit, RoomOK, Room
<1>2. /\ c \in Call /\ c.op = "updateChannel" /\ c.pc = "requests"
      /\ c.base = call[h].base /\ c.members = room.member
  BY <1>0, <1>1 DEF Call
<1>3. CASE Step(h, Failed(c), {})
  BY <1>0, <1>2, <1>3, FailedInv
<1>4. CASE Step(h, c, {r})
  <2>1. Shape(c)
    BY <1>0 DEF Shape, Call
  <2>2. ChannelContent(content)
    BY <1>0, <1>2, UpdatedChannel DEF Shape
  <2>3. content \in Content /\ Suits(content, room.kind)
    BY <1>1, <2>2 DEF ChannelContent, Suits
  <2> HIDE DEF c, content
  <2>4. NewRequest(h, "levels", h) \in Request
    BY NewTyped DEF What
  <2>5. r \in Request /\ r.by = h /\ r.awaited /\ r.what = "levels" /\ r.content = content
    BY <2>3, <2>4 DEF NewRequest, Request
  <2> HIDE DEF r
  <2>6. Own({r}, h) = {r} /\ RequestOK(r, room.kind)
    BY <2>3, <2>5 DEF Own, RequestOK
  <2>10. c.base # NoLevels /\ ~raced[h] => c.base = room.levels /\ c.members = room.member
    BY <1>0, <1>2 DEF Inv, Fit
  <2>7. Fit(c, {r}, disturbed[h], room, raced[h])
    BY <1>1, <1>2, <2>5, <2>10 DEF Fit, content
  <2>8. Fit(c, Own({r}, h), disturbed[h], room, raced[h])
    BY <2>6, <2>7
  <2>9. \A q \in {r} : q.by = h /\ RequestOK(q, room.kind)
    BY <2>5, <2>6
  <2> QED
    BY <1>0, <1>1, <1>2, <1>4, <2>1, <2>8, <2>9, StepInv
<1> QED
  BY <1>3, <1>4 DEF WriteLevels

\* The avatar of a new room.
LEMMA SetAvatarInv ==
    ASSUME Inv, NEW h \in Handle, SetAvatar(h) PROVE Inv'
<1> DEFINE c == [call[h] EXCEPT !.pc = "requests",
                    !.rest = IF room.kind = "channel" THEN <<"scs">> ELSE <<>>]
           r == NewRequest(h, "avatar", h)
<1>0. call[h].pc = "avatar" /\ call[h] \in Call /\ Shape(call[h])
  BY DEF SetAvatar, Inv
<1>1. call[h].op = "create" /\ room.kind # "none"
  BY <1>0, BusyRoom DEF Shape
<1>2. CASE Step(h, Failed(call[h]), {})
  BY <1>0, <1>2, FailedInv
<1>3. CASE Step(h, c, {r})
  <2>1. /\ <<"scs">> \in Seq(What) /\ <<>> \in Seq(What)
        /\ <<"scs">> \in Seq(Written) /\ <<>> \in Seq(Written)
    BY DEF What, Written
  <2>2. c \in Call /\ c.op = "create" /\ c.pc = "requests"
    BY <1>0, <1>1, <2>1 DEF Call
  <2>3. Shape(c)
    BY <1>0, <1>1, <2>1, <2>2 DEF Shape, Call, Written
  <2>4. RequestOK(r, room.kind) /\ r.by = h /\ r.awaited /\ r.what = "avatar"
    BY NewTyped DEF NewRequest, RequestOK, What
  <2> HIDE DEF c, r
  <2>5. Own({r}, h) = {r}
    BY <2>4 DEF Own
  <2>6. Fit(c, {r}, disturbed[h], room, raced[h])
    BY <2>2 DEF Fit
  <2> QED
    BY <1>0, <1>1, <1>3, <2>2, <2>3, <2>4, <2>5, <2>6, StepInv
<1> QED
  BY <1>2, <1>3 DEF SetAvatar

\* waitForRoomInLocalCache ends: with the room, or with an error.
LEMMA WaitedInv ==
    ASSUME Inv, NEW h \in Handle, RoomArrived(h) \/ WaitTimeout(h) PROVE Inv'
<1>0. call[h].pc = "waitRoom" /\ call[h] \in Call /\ Shape(call[h])
  BY DEF RoomArrived, WaitTimeout, Inv
<1>1. call[h].op \in {"join", "knock"} /\ room.kind # "none" /\ Own({}, h) = {}
  BY <1>0, BusyRoom DEF Shape, Own
<1>2. PICK result \in {"ok", "error"} : Step(h, Finish(call[h], result), {})
  BY DEF RoomArrived, WaitTimeout, Step
<1> DEFINE c == Finish(call[h], result)
<1>3. /\ c \in Call /\ Shape(c) /\ c.op \in {"join", "knock"}
      /\ c.pc = "idle" /\ c.result = result
  BY <1>0, <1>1, FinishTyped
<1> HIDE DEF c
<1>4. Fit(c, {}, disturbed[h], room, raced[h])
  BY <1>2, <1>3 DEF Fit
<1> QED
  BY <1>0, <1>1, <1>2, <1>3, <1>4, StepInv DEF c

----------------------------------------------------------------------------
(* The home server.                                                        *)

\* Only a request for the members changes them, only one for the power
\* levels changes those.
LEMMA ServedFields ==
    ASSUME room \in Room, NEW r \in Request
    PROVE  /\ Served(r) \in Room
           /\ r.what # "delete" => Served(r).kind = room.kind
           /\ r.what = "delete" => Served(r).kind = "deleted"
           /\ r.what = "levels" => Served(r).levels = r.content
           /\ r.what # "levels" => Served(r).levels = room.levels
           /\ r.what # "scs" => Served(r).joinRule = room.joinRule
           /\ \A h \in Handle : /\ Served(r).member[h] = "none" => room.member[h] = "none"
                                /\ Served(r).member[h] = "knock" =>
                                      room.member[h] = "knock" \/ r.what = "knock"
           /\ r.what = "invite" => \A h \in Handle :
                 Served(r).member[h] = IF h = r.to THEN "invite" ELSE room.member[h]
<1>0. /\ r.by \in Handle /\ r.to \in Handle /\ r.content \in Content
      /\ r.rule \in JoinRule \cup {"keep"} /\ r.what \in What
  BY DEF Request
<1>1. CASE r.what \in {"kick", "unban"}
  <2>1. Served(r) = [room EXCEPT !.member[r.to] = "leave"]
    BY <1>1 DEF Served
  <2> QED
    BY <1>0, <1>1, <2>1 DEF Room, Membership
<1>2. CASE r.what = "ban"
  <2>1. Served(r) = [room EXCEPT !.member[r.to] = "ban"]
    BY <1>2 DEF Served
  <2> QED
    BY <1>0, <1>2, <2>1 DEF Room, Membership
<1>3. CASE r.what = "invite"
  <2>1. Served(r) = [room EXCEPT !.member[r.to] = "invite"]
    BY <1>3 DEF Served
  <2> QED
    BY <1>0, <1>3, <2>1 DEF Room, Membership
<1>4. CASE r.what = "join"
  <2>1. Served(r) = [room EXCEPT !.member[r.by] = "join"]
    BY <1>4 DEF Served
  <2> QED
    BY <1>0, <1>4, <2>1 DEF Room, Membership
<1>5. CASE r.what = "leave"
  <2>1. Served(r) = [room EXCEPT !.member[r.by] = "leave"]
    BY <1>5 DEF Served
  <2> QED
    BY <1>0, <1>5, <2>1 DEF Room, Membership
<1>6. CASE r.what = "knock"
  <2>1. Served(r) = [room EXCEPT !.member[r.by] = "knock"]
    BY <1>6 DEF Served
  <2> QED
    BY <1>0, <1>6, <2>1 DEF Room, Membership
<1>7. CASE r.what = "levels"
  <2>1. Served(r) = [room EXCEPT !.levels = r.content]
    BY <1>7 DEF Served
  <2> QED
    BY <1>0, <1>7, <2>1 DEF Room
<1>8. CASE r.what = "scs"
  <2>1. Served(r) = [room EXCEPT !.joinRule = IF r.rule = "keep" THEN @ ELSE r.rule]
    BY <1>8 DEF Served
  <2> QED
    BY <1>0, <1>8, <2>1 DEF Room
<1>9. CASE r.what = "delete"
  <2>1. Served(r) = [room EXCEPT !.kind = "deleted", !.member = [h \in Handle |-> "leave"]]
    BY <1>9 DEF Served
  <2>2. PICK none \in [Handle -> Membership] : none = [h \in Handle |-> "leave"]
    BY DEF Membership
  <2>3. Served(r) = [room EXCEPT !.kind = "deleted", !.member = none]
    BY <2>1, <2>2
  <2>4. \A h \in Handle : none[h] = "leave"
    BY <2>2
  <2> QED
    BY <1>9, <2>3, <2>4 DEF Room
<1>10. CASE r.what \in {"name", "topic", "avatar"}
  <2>1. Served(r) = [room EXCEPT !.profile = @ \cup {r.what}]
    BY <1>10 DEF Served
  <2> QED
    BY <1>0, <1>10, <2>1 DEF Room, Field
<1> QED
  BY <1>0, <1>1, <1>2, <1>3, <1>4, <1>5, <1>6, <1>7, <1>8, <1>9, <1>10 DEF What

\* What the home server allows keeps the room well formed, a group a group
\* and a channel a channel.
LEMMA ServedOK ==
    ASSUME RoomOK(room), NEW r, RequestOK(r, room.kind), Allowed(r)
    PROVE  /\ RoomOK(Served(r)) /\ room.kind \in {"group", "channel"}
           /\ Served(r).kind = room.kind \/ (room.kind = "channel" /\ Served(r).kind = "deleted")
<1>0. room \in Room /\ r \in Request /\ room.kind \in {"group", "channel"}
  BY DEF RoomOK, RequestOK, Allowed
<1>1. r.what \in {"scs", "delete"} => room.kind = "channel"
  BY DEF Allowed
<1>2. room.kind = "group" => r.what # "knock"
  <2> SUFFICES ASSUME room.kind = "group", r.what = "knock" PROVE FALSE
    OBVIOUS
  <2>1. joinRuleAtServer(room.joinRule) = "knock"
    BY DEF Allowed
  <2>2. room.joinRule = "PRIVATE"
    BY DEF RoomOK
  <2> QED
    BY <2>1, <2>2 DEF joinRuleAtServer
<1>3. Suits(Served(r).levels, room.kind)
  BY <1>0, ServedFields DEF RequestOK, RoomOK
<1>4. Suits(Served(r).levels, Served(r).kind)
  BY <1>0, <1>1, <1>3, ServedFields DEF Suits
<1>5. Served(r).kind = "group" => /\ Served(r).joinRule = "PRIVATE"
                                  /\ \A h \in Handle : Served(r).member[h] # "knock"
  BY <1>0, <1>1, <1>2, ServedFields DEF RoomOK
<1> QED
  BY <1>0, <1>1, <1>4, <1>5, ServedFields DEF RoomOK

\* Content that suits a channel suits it when it is deleted.
LEMMA StillSuits ==
    ASSUME NEW c, NEW kind, Suits(c, kind), NEW later,
           later = kind \/ (kind = "channel" /\ later = "deleted")
    PROVE  Suits(c, later)
BY DEF Suits

\* A call that the change of the room disturbs still fits.
LEMMA DisturbedFits ==
    ASSUME NEW c, NEW A, NEW d, NEW rm, NEW rc, Fit(c, A, d, rm, rc), NEW later,
           later.kind = rm.kind \/ (rm.kind = "channel" /\ later.kind = "deleted"),
           NEW now, c.base # NoLevels => now
    PROVE  Fit(c, A, TRUE, later, now)
BY DEF Fit

\* What a step of the server does to the room, as far as clients may tell.
Later(rm) == /\ RoomOK(rm)
             /\ rm.kind = room.kind \/ (room.kind = "channel" /\ rm.kind = "deleted")
             /\ \A h \in Handle : rm.member[h] = "none" => room.member[h] = "none"

\* A request that is served leads to a later room.
LEMMA ServedLater ==
    ASSUME Inv, NEW r \in requests, Allowed(r) PROVE Later(Served(r))
<1>1. RoomOK(room) /\ RequestOK(r, room.kind)
  BY DEF Inv
<1> QED
  BY <1>1, ServedOK, ServedFields DEF Later, RoomOK, RequestOK

\* Where there is a request there is a room.
LEMMA RequestRoom == ASSUME Inv, NEW r \in requests PROVE room.kind # "none"
BY DEF Inv, NothingYet

\* The parts of Inv that a later room does not touch.
LEMMA LaterInv ==
    ASSUME Inv, room.kind # "none", Later(room'), seen' = seen, calls' = calls,
           disturbed' \in [Handle -> BOOLEAN], raced' \in [Handle -> BOOLEAN],
           \A r \in requests' : RequestOK(r, room'.kind),
           call' \in [Handle -> Call], \A h \in Handle : Shape(call'[h]),
           \A h \in Handle : Fit(call'[h], Own(requests', h), disturbed'[h], room',
                                 raced'[h])
    PROVE  Inv'
<1>1. room'.kind # "none"
  BY DEF Later
<1>2. ASSUME NEW h \in Handle PROVE SeenOK(h, seen[h], room')
  BY StillSuits DEF Inv, SeenOK, Later
<1> QED
  BY <1>1, <1>2 DEF Inv, NothingYet, Later

\* A request stays well formed in a later room.
LEMMA LaterRequest ==
    ASSUME NEW rm, Later(rm), NEW r, RequestOK(r, room.kind) PROVE RequestOK(r, rm.kind)
BY StillSuits DEF Later, RequestOK

\* A call fails with its request: nobody waits for the others any more.
LEMMA RejectedInv ==
    ASSUME Inv, NEW r \in requests, Rejected(r), Later(room'), seen' = seen, calls' = calls,
           disturbed' \in [Handle -> BOOLEAN], raced' \in [Handle -> BOOLEAN],
           \A x \in Handle : \/ /\ disturbed'[x] = TRUE
                                /\ call[x].base # NoLevels => raced'[x]
                             \/ /\ disturbed'[x] = disturbed[x] /\ raced'[x] = raced[x]
                                /\ room' = room \/ (x = r.by /\ r.awaited)
    PROVE  Inv'
<1> DEFINE h == r.by
<1>0. /\ h \in Handle /\ call[h] \in Call /\ r \in Request /\ room.kind # "none"
      /\ \A q \in requests : q \in Request /\ RequestOK(q, room.kind)
  BY RequestRoom DEF Inv, RequestOK, Request
<1>1. CASE ~r.awaited
  <2>1. call' = call /\ requests' = requests \ {r}
    BY <1>1 DEF Rejected
  <2>2. \A x \in Handle : Own(requests', x) = Own(requests, x)
    BY <1>1, <2>1 DEF Own
  <2>3. \A q \in requests' : RequestOK(q, room'.kind)
    BY <1>0, <2>1, LaterRequest
  <2>4. ASSUME NEW x \in Handle
        PROVE  Fit(call'[x], Own(requests', x), disturbed'[x], room', raced'[x])
    <3>1. Fit(call[x], Own(requests, x), disturbed[x], room, raced[x])
      BY DEF Inv
    <3>2. CASE disturbed'[x] = TRUE /\ (call[x].base # NoLevels => raced'[x])
      <4>1. Fit(call[x], Own(requests, x), TRUE, room', raced'[x])
        BY <3>1, <3>2, DisturbedFits DEF Later
      <4> QED
        BY <2>1, <2>2, <3>2, <4>1
    <3>3. CASE disturbed'[x] = disturbed[x] /\ raced'[x] = raced[x] /\ room' = room
      BY <2>1, <2>2, <3>1, <3>3
    <3> QED
      BY <1>1, <3>2, <3>3
  <2> QED
    BY <1>0, <2>1, <2>3, <2>4, LaterInv DEF Inv
<1>2. CASE r.awaited
  <2> DEFINE unawaited(q) == IF q.by = h THEN [q EXCEPT !.awaited = FALSE] ELSE q
  <2>1. /\ call' = [call EXCEPT ![h] = Failed(call[h])]
        /\ requests' = {unawaited(q) : q \in requests \ {r}}
    BY <1>2 DEF Rejected
  <2>2. PICK result \in {"ok", "error"} :
           /\ Failed(call[h]) = Finish(call[h], result)
           /\ result = "ok" => call[h].op = "create"
    BY DEF Failed
  <2>3. /\ Failed(call[h]) \in Call /\ Shape(Failed(call[h])) /\ Failed(call[h]).pc = "idle"
        /\ Failed(call[h]).op = call[h].op /\ Failed(call[h]).result = result
    BY <1>0, <2>2, FinishTyped
  <2>4. Fit(call[h], Own(requests, h), disturbed[h], room, raced[h])
    BY <1>0 DEF Inv
  <2>5. ASSUME NEW q \in requests \ {r}
        PROVE  /\ RequestOK(unawaited(q), room.kind)
               /\ unawaited(q).by = q.by
               /\ q.by = h => ~unawaited(q).awaited
               /\ q.by # h => unawaited(q) = q
    <3>1. CASE q.by # h
      BY <1>0, <3>1
    <3>2. CASE q.by = h
      <4>1. q.what \in {"invite", "kick"}
        <5>1. CASE ~q.awaited
          BY <1>0, <5>1 DEF RequestOK
        <5>2. CASE q.awaited
          <6>1. q \in Own(requests, h) /\ r \in Own(requests, h)
            BY <1>2, <3>2, <5>2 DEF Own
          <6>2. call[h].op = "invite"
            BY <2>4, <6>1 DEF Fit
          <6> QED
            BY <2>4, <6>1, <6>2 DEF Fit
        <5> QED
          BY <5>1, <5>2
      <4> QED
        BY <1>0, <3>2, <4>1 DEF RequestOK, Request
    <3> QED
      BY <3>1, <3>2
  <2>6. \A q \in requests' : RequestOK(q, room'.kind)
    BY <2>1, <2>5, LaterRequest
  <2> HIDE DEF unawaited
  <2>7. Own(requests', h) = {}
    BY <2>1, <2>5 DEF Own
  <2>8. \A x \in Handle \ {h} : Own(requests', x) = Own(requests, x)
    <3> SUFFICES ASSUME NEW x \in Handle \ {h}
                 PROVE  Own(requests', x) = Own(requests, x)
      OBVIOUS
    <3>1. Own(requests', x) \subseteq Own(requests, x)
      BY <2>1, <2>5 DEF Own
    <3>2. Own(requests, x) \subseteq Own(requests', x)
      BY <2>1, <2>5 DEF Own
    <3> QED
      BY <3>1, <3>2
  <2>9. ASSUME NEW x \in Handle
        PROVE  Fit(call'[x], Own(requests', x), disturbed'[x], room', raced'[x])
    <3>1. CASE x = h
      <4>1. call'[x] = Failed(call[h])
        BY <1>0, <2>1, <3>1 DEF Inv
      <4>2. call[h].op = "updateChannel" => room'.kind \in {"channel", "deleted"}
        BY <2>4 DEF Fit, Later
      <4>3. Fit(Failed(call[h]), {}, disturbed'[x], room', raced'[x])
        BY <2>2, <2>3, <4>2, OverFits
      <4> QED
        BY <2>7, <3>1, <4>1, <4>3
    <3>2. CASE x # h
      <4>1. call'[x] = call[x] /\ Own(requests', x) = Own(requests, x)
        BY <2>1, <2>8, <3>2 DEF Inv
      <4>2. Fit(call[x], Own(requests, x), disturbed[x], room, raced[x])
        BY DEF Inv
      <4>3. CASE disturbed'[x] = TRUE /\ (call[x].base # NoLevels => raced'[x])
        <5>1. Fit(call[x], Own(requests, x), TRUE, room', raced'[x])
          BY <4>2, <4>3, DisturbedFits DEF Later
        <5> QED
          BY <4>1, <4>3, <5>1
      <4>4. CASE disturbed'[x] = disturbed[x] /\ raced'[x] = raced[x] /\ room' = room
        BY <4>1, <4>2, <4>4
      <4> QED
        BY <3>2, <4>3, <4>4
    <3> QED
      BY <3>1, <3>2
  <2>10. call' \in [Handle -> Call] /\ \A x \in Handle : Shape(call'[x])
    BY <1>0, <2>1, <2>3 DEF Inv
  <2> QED
    BY <1>0, <2>6, <2>9, <2>10, LaterInv
<1> QED
  BY <1>1, <1>2

\* Where a call is once its last request is served.
LEMMA GoOnFits ==
    ASSUME Inv, NEW r \in requests, Allowed(r), r.awaited, Own(requests, r.by) = {r}
    PROVE  /\ GoOn(r.by) \in Call /\ Shape(GoOn(r.by))
           /\ \A q \in NextRequest(r.by) : RequestOK(q, room.kind) /\ q.by = r.by /\ q.awaited
           /\ Fit(GoOn(r.by), NextRequest(r.by), disturbed[r.by], Served(r),
                  raced[r.by])
<1> DEFINE h == r.by
           c == call[h]
           S == Served(r)
           rc == raced[h]
<1>0. h \in Handle /\ r \in Request
  BY DEF Inv, RequestOK, Request
<1>1. c \in Call /\ Shape(c) /\ Fit(c, {r}, disturbed[h], room, rc)
  BY <1>0 DEF Inv
<1>2. c.pc = "requests"
  BY <1>1 DEF Fit
<1>3. Later(S)
  BY ServedLater
<1>4. c.op = "updateChannel" => S.kind \in {"channel", "deleted"}
  BY <1>1, <1>3 DEF Fit, Later
<1>5. CASE c.rest # <<>>
  <2> DEFINE w == c.rest[1]
             q == Ask(h, w, c.rule)
             d == [c EXCEPT !.rest = Tail(@)]
  <2>1. c.rest \in Seq(Written) /\ c.op \in {"create", "updateGroup", "updateChannel"}
    BY <1>1, <1>5 DEF Shape, Written
  <2>2. Tail(c.rest) \in Seq(Written) /\ Head(c.rest) \in Written
    BY <1>5, <2>1, HeadTailProperties
  <2>3. Len(c.rest) \in Nat \ {0} /\ DOMAIN c.rest = 1 .. Len(c.rest)
    BY <1>5, <2>1, EmptySeq, LenProperties
  <2>4. 1 \in DOMAIN c.rest /\ w \in Written
    BY <2>1, <2>3, ElementOfSeq
  <2>5. Tail(c.rest) \in Seq(What)
    BY <2>2, SeqMonotonic DEF Written, What
  <2>6. GoOn(h) = d
    BY <1>5 DEF GoOn
  <2>7. /\ d \in Call /\ d.op = c.op /\ d.pc = "requests" /\ d.rest = Tail(c.rest)
        /\ d.levels = c.levels
    BY <1>1, <1>2, <2>5 DEF Call
  <2>8. Shape(d)
    BY <1>1, <2>1, <2>2, <2>7 DEF Shape, Written
  <2>9. DOMAIN c.rest \cap {1} = {1}
    BY <2>4
  <2>10. NextRequest(h) = {q}
    BY <2>9 DEF NextRequest, Ask
  <2>11. c.rule \in JoinRule \cup {"keep"}
    BY <1>1 DEF Call
  <2> HIDE DEF d, w, c, q
  <2>12. RequestOK(q, room.kind) /\ q.by = h /\ q.awaited /\ q.what \in Written
    BY <1>0, <2>4, <2>11, FieldRequest DEF q
  <2>13. Fit(d, {q}, disturbed[h], S, rc)
    BY <1>4, <2>1, <2>7, <2>12 DEF Fit, Written
  <2> QED
    BY <2>6, <2>7, <2>8, <2>10, <2>12, <2>13
<1>6. CASE c.rest = <<>>
  <2>1. NextRequest(h) = {}
    BY <1>6 DEF NextRequest
  <2>2. CASE c.op \in {"join", "knock"}
    <3> DEFINE d == [c EXCEPT !.pc = "waitRoom"]
    <3>1. GoOn(h) = d
      BY <1>1, <1>6, <2>2 DEF GoOn, Shape
    <3>2. d \in Call /\ d.op = c.op /\ d.pc = "waitRoom" /\ d.result = c.result
      BY <1>1 DEF Call
    <3>3. Shape(d)
      BY <1>1, <1>2, <2>2, <3>2 DEF Shape, Call
    <3>4. Fit(d, {}, disturbed[h], S, rc)
      BY <1>1, <2>2, <3>2 DEF Fit
    <3> QED
      BY <2>1, <3>1, <3>2, <3>3, <3>4
  <2>3. CASE c.op \notin {"join", "knock"} /\ c.levels
    <3> DEFINE d == [c EXCEPT !.pc = "readLevels"]
    <3>1. GoOn(h) = d /\ c.op = "updateChannel"
      BY <1>1, <1>6, <2>3 DEF GoOn, Shape
    <3>2. d \in Call /\ d.op = c.op /\ d.pc = "readLevels"
      BY <1>1 DEF Call
    <3>3. Shape(d)
      BY <1>1, <1>2, <3>1, <3>2 DEF Shape, Call
    <3>4. Fit(d, {}, disturbed[h], S, rc)
      BY <1>4, <3>1, <3>2 DEF Fit
    <3> QED
      BY <2>1, <3>1, <3>2, <3>3, <3>4
  <2>4. CASE c.op \notin {"join", "knock"} /\ ~c.levels
    <3> DEFINE d == Finish(c, "ok")
    <3>1. GoOn(h) = d
      BY <1>6, <2>4 DEF GoOn
    <3>2. /\ d \in Call /\ Shape(d) /\ d.op = c.op /\ d.pc = "idle" /\ d.to = c.to
          /\ c.to \subseteq Handle
      BY <1>1, FinishTyped DEF Call
    <3> HIDE DEF d
    <3>3. c.op = "invite" /\ ~disturbed[h] =>
             \A t \in c.to : S.member[t] \in {"invite", "join", "ban"}
      <4> SUFFICES ASSUME c.op = "invite", ~disturbed[h], NEW t \in c.to
                   PROVE  S.member[t] \in {"invite", "join", "ban"}
        OBVIOUS
      <4>1. r.what = "invite" /\ (room.member[t] \in {"invite", "join", "ban"} \/ r.to = t)
        BY <1>1, <1>2 DEF Fit
      <4>2. S.member[t] = IF t = r.to THEN "invite" ELSE room.member[t]
        BY <1>0, <3>2, <4>1, ServedFields DEF Inv, RoomOK
      <4> QED
        BY <4>1, <4>2
    <3>4. Fit(d, {}, disturbed[h], S, rc)
      BY <1>4, <2>4, <3>2, <3>3 DEF Fit
    <3> QED
      BY <2>1, <3>1, <3>2, <3>4
  <2> QED
    BY <1>1, <2>2, <2>3, <2>4 DEF Call
<1> QED
  BY <1>5, <1>6

\* A request is served and its call hears of it.
LEMMA ServeOkInv ==
    ASSUME Inv, NEW r \in requests, ServeOk(r) PROVE Inv'
<1> DEFINE h == r.by
           others == {q \in requests \ {r} : q.by = h /\ q.awaited}
<1>0. /\ h \in Handle /\ room.kind # "none" /\ r \in Request
      /\ \A q \in requests : RequestOK(q, room.kind)
  BY RequestRoom DEF Inv, RequestOK, Request
<1>1. Later(room') /\ room' = Served(r) /\ seen' = seen /\ calls' = calls /\ Allowed(r)
  BY ServedLater DEF ServeOk
<1>2. /\ disturbed' \in [Handle -> BOOLEAN]
      /\ \A x \in Handle : disturbed'[x] = (disturbed[x] \/ x # h \/ ~r.awaited)
      /\ raced' \in [Handle -> BOOLEAN]
      /\ \A x \in Handle :
            raced'[x] = (raced[x] \/ (call[x].base # NoLevels /\ (x # h \/ ~r.awaited)))
  BY DEF ServeOk, Disturb, Inv
<1>3. ASSUME NEW x \in Handle, x # h \/ ~r.awaited
      PROVE  Fit(call[x], Own(requests, x), TRUE, room', raced'[x])
  <2>1. Fit(call[x], Own(requests, x), disturbed[x], room, raced[x])
    BY DEF Inv
  <2>2. call[x].base # NoLevels => raced'[x]
    BY <1>2, <1>3
  <2> QED
    BY <1>1, <2>1, <2>2, DisturbedFits DEF Later
<1>4. CASE r.awaited /\ others = {}
  <2>1. /\ call' = [call EXCEPT ![h] = GoOn(h)]
        /\ requests' = (requests \ {r}) \cup NextRequest(h)
    BY <1>4 DEF ServeOk, Answered
  <2>2. Own(requests, h) = {r}
    BY <1>4 DEF Own
  <2>3. /\ GoOn(h) \in Call /\ Shape(GoOn(h))
        /\ \A q \in NextRequest(h) : RequestOK(q, room.kind) /\ q.by = h /\ q.awaited
        /\ Fit(GoOn(h), NextRequest(h), disturbed[h], Served(r), raced[h])
    BY <1>1, <1>4, <2>2, GoOnFits
  <2>4. Own(requests', h) = NextRequest(h)
    BY <2>1, <2>2, <2>3 DEF Own
  <2>5. \A x \in Handle \ {h} : Own(requests', x) = Own(requests, x)
    BY <2>1, <2>3 DEF Own
  <2>6. \A q \in requests' : RequestOK(q, room'.kind)
    BY <1>0, <1>1, <2>1, <2>3, LaterRequest
  <2>7. call' \in [Handle -> Call] /\ \A x \in Handle : Shape(call'[x])
    BY <1>0, <2>1, <2>3 DEF Inv
  <2>8. ASSUME NEW x \in Handle
        PROVE  Fit(call'[x], Own(requests', x), disturbed'[x], room', raced'[x])
    <3>1. CASE x = h
      <4>1. call'[x] = GoOn(h) /\ disturbed'[x] = disturbed[h] /\ raced'[x] = raced[h]
        BY <1>2, <1>4, <2>1, <3>1 DEF Inv
      <4> QED
        BY <1>1, <2>3, <2>4, <3>1, <4>1
    <3>2. CASE x # h
      <4>1. call'[x] = call[x] /\ disturbed'[x] = TRUE
        BY <1>2, <2>1, <3>2 DEF Inv
      <4> QED
        BY <1>3, <2>5, <3>2, <4>1
    <3> QED
      BY <3>1, <3>2
  <2> QED
    BY <1>0, <1>1, <1>2, <2>6, <2>7, <2>8, LaterInv
<1>5. CASE ~(r.awaited /\ others = {})
  <2>1. call' = call /\ requests' = requests \ {r}
    BY <1>5 DEF ServeOk, Answered
  <2>2. \A q \in requests' : RequestOK(q, room'.kind)
    BY <1>0, <1>1, <2>1, LaterRequest
  <2>3. ASSUME NEW x \in Handle
        PROVE  Fit(call'[x], Own(requests', x), disturbed'[x], room', raced'[x])
    <3>1. CASE x # h \/ ~r.awaited
      <4>1. Own(requests', x) = Own(requests, x)
        BY <2>1, <3>1 DEF Own
      <4>2. disturbed'[x] = TRUE
        BY <1>2, <3>1
      <4> QED
        BY <1>3, <2>1, <3>1, <4>1, <4>2
    <3>2. CASE x = h /\ r.awaited
      <4>1. Own(requests', h) = Own(requests, h) \ {r} /\ r \in Own(requests, h)
        BY <2>1, <3>2 DEF Own
      <4>2. PICK q \in Own(requests, h) : q # r
        BY <1>5, <3>2 DEF Own
      <4>3. Fit(call[h], Own(requests, h), disturbed[h], room, raced[h])
        BY <1>0 DEF Inv
      <4>4. /\ call[h].op = "invite" /\ call[h].pc = "requests"
            /\ \A p \in Own(requests, h) : p.what = "invite"
        BY <4>1, <4>2, <4>3 DEF Fit
      <4>5. \A t \in Handle : Served(r).member[t] = IF t = r.to THEN "invite" ELSE room.member[t]
        BY <1>0, <4>1, <4>4, ServedFields DEF Inv, RoomOK
      <4>6. call[h].to \subseteq Handle
        BY <1>0 DEF Inv, Call
      <4>7. ~disturbed[h] =>
               \A t \in call[h].to : \/ room'.member[t] \in {"invite", "join", "ban"}
                                     \/ \E p \in Own(requests', h) : p.to = t
        <5> SUFFICES ASSUME ~disturbed[h], NEW t \in call[h].to,
                            room'.member[t] \notin {"invite", "join", "ban"}
                     PROVE  \E p \in Own(requests', h) : p.to = t
          OBVIOUS
        <5>1. t # r.to /\ room.member[t] \notin {"invite", "join", "ban"}
          BY <1>1, <4>5, <4>6
        <5>2. \E p \in Own(requests, h) : p.to = t
          BY <4>3, <4>4, <5>1 DEF Fit
        <5> QED
          BY <4>1, <5>1, <5>2
      <4>8. disturbed'[h] = disturbed[h]
        BY <1>0, <1>2, <3>2 DEF Inv
      <4> QED
        BY <2>1, <3>2, <4>1, <4>4, <4>7, <4>8 DEF Fit
    <3> QED
      BY <3>1, <3>2
  <2> QED
    BY <1>0, <1>1, <1>2, <2>1, <2>2, <2>3, LaterInv DEF Inv
<1> QED
  BY <1>4, <1>5

\* A request is refused, or it or its answer is lost.
LEMMA ServeFailsInv ==
    ASSUME Inv, NEW r \in requests, ServeRefused(r) \/ LoseRequest(r) \/ LoseResponse(r)
    PROVE  Inv'
<1>1. CASE ServeRefused(r) \/ LoseRequest(r)
  <2>1. /\ room' = room /\ seen' = seen /\ calls' = calls /\ disturbed' = disturbed
        /\ raced' = raced /\ Rejected(r)
    BY <1>1 DEF ServeRefused, LoseRequest
  <2>2. Later(room')
    BY <2>1 DEF Later, Inv
  <2> QED
    BY <2>1, <2>2, RejectedInv DEF Inv
<1>2. CASE LoseResponse(r)
  <2>1. Later(room') /\ seen' = seen /\ calls' = calls /\ Rejected(r)
    BY <1>2, ServedLater DEF LoseResponse
  <2>2. /\ disturbed' \in [Handle -> BOOLEAN]
        /\ \A x \in Handle : disturbed'[x] = (disturbed[x] \/ x # r.by \/ ~r.awaited)
        /\ raced' \in [Handle -> BOOLEAN]
        /\ \A x \in Handle :
              raced'[x] = (raced[x] \/ (call[x].base # NoLevels /\ (x # r.by \/ ~r.awaited)))
    BY <1>2 DEF LoseResponse, Disturb, Inv
  <2>3. \A x \in Handle : \/ /\ disturbed'[x] = TRUE
                             /\ call[x].base # NoLevels => raced'[x]
                          \/ /\ disturbed'[x] = disturbed[x] /\ raced'[x] = raced[x]
                             /\ x = r.by /\ r.awaited
    BY <2>2 DEF Inv
  <2> QED
    BY <2>1, <2>2, <2>3, RejectedInv
<1> QED
  BY <1>1, <1>2

\* A sync response: the client knows the room from then on.
LEMMA SyncInv ==
    ASSUME Inv, NEW h \in Handle, Sync(h) PROVE Inv'
<1>0. /\ room \in Room /\ seen[h] \in Room /\ SeenOK(h, seen[h], room)
      /\ Suits(room.levels, room.kind)
  BY DEF Inv, RoomOK
<1>1. /\ Snapshot(h) \in Room /\ SeenOK(h, Snapshot(h), room)
      /\ room.kind = "none" => Snapshot(h) = seen[h]
  <2>2. room.kind = "none" => room.member[h] = "none"
    BY DEF Inv, NothingYet, NoRoom
  <2>3. CASE room.member[h] = "none"
    <3>1. Snapshot(h) = seen[h]
      BY <2>3 DEF Snapshot
    <3> QED
      BY <1>0, <3>1
  <2>4. CASE room.member[h] = "join"
    <3>1. Snapshot(h) = room
      BY <2>4 DEF Snapshot
    <3> QED
      BY <1>0, <2>2, <2>4, <3>1 DEF SeenOK
  <2>5. CASE room.member[h] \notin {"none", "join"}
    <3>1. Snapshot(h) = [seen[h] EXCEPT !.kind = room.kind, !.member[h] = room.member[h]]
      BY <2>5 DEF Snapshot
    <3>2. room.member[h] \in Membership /\ room.kind \in {"none", "group", "channel", "deleted"}
      BY <1>0 DEF Room
    <3>3. PICK m \in [Handle -> Membership] : m = [seen[h].member EXCEPT ![h] = room.member[h]]
      BY <1>0, <3>2 DEF Room
    <3>4. Snapshot(h) = [seen[h] EXCEPT !.kind = room.kind, !.member = m]
      BY <3>1, <3>3
    <3>5. /\ Snapshot(h) \in Room /\ Snapshot(h).kind = room.kind
          /\ Snapshot(h).levels = seen[h].levels
      BY <1>0, <3>2, <3>4 DEF Room
    <3> QED
      BY <1>0, <2>2, <2>5, <3>5 DEF SeenOK
  <2> QED
    BY <2>3, <2>4, <2>5
<1>2. /\ seen' = [seen EXCEPT ![h] = Snapshot(h)] /\ room' = room /\ requests' = requests
      /\ call' = call /\ calls' = calls /\ disturbed' = disturbed /\ raced' = raced
  BY DEF Sync
<1>3. seen' \in [Handle -> Room] /\ \A x \in Handle : SeenOK(x, seen'[x], room')
  BY <1>1, <1>2 DEF Inv
<1>4. NothingYet'
  <2>1. room.kind = "none" => seen' = seen
    BY <1>1, <1>2 DEF Inv
  <2> QED
    BY <1>2, <2>1 DEF Inv, NothingYet
<1>5. ASSUME NEW x \in Handle
      PROVE  Fit(call'[x], Own(requests', x), disturbed'[x], room', raced'[x])
  BY <1>2 DEF Inv
<1> QED
  BY <1>2, <1>3, <1>4, <1>5 DEF Inv

\* A new room, the first thing that happens.
LEMMA CreateInv ==
    ASSUME Inv, NEW h \in Handle, NEW kind \in {"group", "channel"}, NEW rule \in JoinRule,
           kind = "group" => rule = "PRIVATE", NEW levels, Suits(levels, kind),
           NEW T, NEW avatar \in BOOLEAN, CreateRoom(h, kind, rule, levels, T, avatar)
    PROVE  Inv'
<1> DEFINE member == [x \in Handle |-> CASE x = h -> "join" [] x \in T -> "invite"
                                         [] OTHER -> "none"]
           c == [NewCall("create") EXCEPT !.pc = IF avatar THEN "avatar" ELSE "idle",
                                          !.result = IF avatar THEN "none" ELSE "ok"]
<1>1. /\ room' = [kind |-> kind, joinRule |-> rule, levels |-> levels, profile |-> {},
                  member |-> member]
      /\ call' = [call EXCEPT ![h] = c] /\ seen' = seen /\ requests' = requests
      /\ calls' = calls /\ disturbed' = disturbed /\ raced' = raced
  BY DEF CreateRoom
<1>2. /\ requests = {} /\ call = [x \in Handle |-> NewCall("none")]
      /\ seen = [x \in Handle |-> NoRoom]
  BY DEF CreateRoom, Inv, NothingYet
<1>3. levels \in Content
  BY DEF Suits, GroupContent, ChannelContent
<1>4. member \in [Handle -> Membership]
  <2>1. \A x \in Handle : member[x] \in {"join", "invite", "none"} \/ (x = h /\ x \in T)
    OBVIOUS
  <2>2. member[h] \in {"join", "invite"}
    OBVIOUS
  <2> QED
    BY <2>1, <2>2 DEF Membership
<1>5. \A x \in Handle : member[x] # "knock"
  OBVIOUS
<1> HIDE DEF member
<1>6. RoomOK(room') /\ room'.kind = kind
  BY <1>1, <1>3, <1>4, <1>5 DEF RoomOK, Room, Field
<1>7. NewCall("create") \in Call /\ Shape(NewCall("create"))
  BY NewTyped
<1>8. /\ c \in Call /\ c.op = "create" /\ c.pc \in {"avatar", "idle"}
      /\ c.result # "none" => c.pc = "idle"
      /\ c.rest = <<>> /\ ~c.levels
  BY <1>7 DEF NewCall, Call
<1>9. Shape(c)
  <2>1. <<>> \in Seq({"name", "topic", "avatar", "scs"})
    OBVIOUS
  <2> HIDE DEF c
  <2> QED
    BY <1>8, <2>1 DEF Shape
<1>10. \A x \in Handle : SeenOK(x, seen'[x], room')
  BY <1>1, <1>2, NewTyped DEF SeenOK, NoRoom
<1> HIDE DEF c
<1>11. ASSUME NEW x \in Handle
       PROVE  Fit(call'[x], Own(requests', x), disturbed'[x], room', raced'[x])
  <2>1. Own(requests', x) = {}
    BY <1>1, <1>2 DEF Own
  <2>2. call'[x] = c \/ call'[x] = NewCall("none")
    BY <1>1, <1>2
  <2>3. Fit(c, {}, disturbed'[x], room', raced'[x])
    BY <1>8 DEF Fit
  <2>4. Fit(NewCall("none"), {}, disturbed'[x], room', raced'[x])
    BY DEF Fit, NewCall
  <2> QED
    BY <2>1, <2>2, <2>3, <2>4
<1>12. call' \in [Handle -> Call] /\ \A x \in Handle : Shape(call'[x])
  BY <1>1, <1>8, <1>9 DEF Inv
<1>13. NothingYet'
  BY <1>6 DEF NothingYet
<1> QED
  BY <1>1, <1>2, <1>6, <1>10, <1>11, <1>12, <1>13 DEF Inv

----------------------------------------------------------------------------
(* Every step keeps Inv.                                                   *)

\* GroupsModule.
LEMMA GroupsInv ==
    ASSUME Inv, RoomsAssumption, NEW h \in Handle,
           \/ GroupsModuleRoom(h) \/ GroupsModuleInvitations(h) \/ GroupsModuleMembers(h)
    PROVE  Inv'
<1>1. CASE \E T \in Invited, a \in BOOLEAN : createGroup(h, T, a)
  <2>1. PICK T \in Invited, a \in BOOLEAN : createGroup(h, T, a)
    BY <1>1
  <2>2. Suits(InitialGroupLevels(h), "group")
    BY InitialGroup DEF Suits
  <2>3. "PRIVATE" \in JoinRule
    BY DEF JoinRule
  <2> QED
    BY <2>1, <2>2, <2>3, CreateInv DEF createGroup
<1>2. CASE \/ SetAvatar(h) \/ (\E f \in FieldInputs : UpdateGroup(h, f))
           \/ DeleteGroup(h) \/ ReadMembers(h) \/ KickAllAndLeave(h)
  BY <1>2, SetAvatarInv, UpdateGroupInv, DeleteGroupInv, ReadMembersInv, KickAllInv
<1>3. CASE \E T \in SUBSET (Handle \ {h}) \ {{}} : GroupSendInvitations(h, T)
  BY <1>3, InviteInv DEF GroupSendInvitations
<1>4. CASE \E t \in Handle : \/ GroupWithdrawInvitation(h, t) \/ GroupKickHandle(h, t)
                            \/ GroupBanHandle(h, t) \/ GroupUnbanHandle(h, t)
  <2>1. PICK t \in Handle : \/ GroupWithdrawInvitation(h, t) \/ GroupKickHandle(h, t)
                            \/ GroupBanHandle(h, t) \/ GroupUnbanHandle(h, t)
    BY <1>4
  <2>2. CASE GroupWithdrawInvitation(h, t) \/ GroupKickHandle(h, t)
    BY <2>2, SendIfInv DEF GroupWithdrawInvitation, GroupKickHandle, kickHandle, AllOps, What
  <2>3. CASE GroupBanHandle(h, t)
    BY <2>3, SendIfInv DEF GroupBanHandle, banHandle, AllOps, What
  <2>4. CASE GroupUnbanHandle(h, t)
    BY <2>4, SendIfInv DEF GroupUnbanHandle, unbanHandle, AllOps, What
  <2> QED
    BY <2>1, <2>2, <2>3, <2>4
<1>5. CASE GroupAcceptInvitation(h) \/ GroupDeclineInvitation(h) \/ LeaveGroup(h)
  BY <1>5, SendInv DEF GroupAcceptInvitation, GroupDeclineInvitation, LeaveGroup, join, leave,
                       AllOps, What
<1>6. CASE \E t \in Handle, role \in GroupRoles : UpdateGroupMemberRole(h, t, role)
  BY <1>6, LevelRange, RoleInv DEF UpdateGroupMemberRole, Group
<1> QED
  BY <1>1, <1>2, <1>3, <1>4, <1>5, <1>6
     DEF GroupsModuleRoom, GroupsModuleInvitations, GroupsModuleMembers

\* ChannelsModule.
LEMMA ChannelsInv ==
    ASSUME Inv, RoomsAssumption, NEW h \in Handle,
           \/ ChannelsModuleRoom(h) \/ ChannelsModuleInvitations(h)
           \/ ChannelsModuleRequests(h) \/ ChannelsModuleMembers(h)
    PROVE  Inv'
<1>1. CASE \E rule \in Rules, T \in Invited, a \in BOOLEAN,
              input \in PermissionInputs, role \in DefaultRoles :
              createChannel(h, rule, input, role, T, a)
  <2>1. PICK rule \in Rules, T \in Invited, a \in BOOLEAN,
             input \in PermissionInputs, role \in DefaultRoles :
             createChannel(h, rule, input, role, T, a)
    BY <1>1
  <2>2. Suits(InitialChannelLevels(h, input, role), "channel")
    BY InitialChannel DEF Suits
  <2>3. rule \in JoinRule
    BY DEF RoomsAssumption, JoinRule
  <2> QED
    BY <2>1, <2>2, <2>3, CreateInv DEF createChannel
<1>2. CASE \E a \in BOOLEAN, rule \in Rules, input \in PermissionInputs,
              role \in DefaultRoles \cup {"undefined"}, levels \in BOOLEAN :
              UpdateChannel(h, a, rule, input, role, levels)
  <2>1. PICK a \in BOOLEAN, rule \in Rules, input \in PermissionInputs,
             role \in DefaultRoles \cup {"undefined"}, levels \in BOOLEAN :
             UpdateChannel(h, a, rule, input, role, levels)
    BY <1>2
  <2>2. /\ rule \in JoinRule /\ input \in PermissionInput
        /\ role \in ChannelRole \cup {"undefined"}
    BY DEF RoomsAssumption, JoinRule
  <2> QED
    BY <2>1, <2>2, UpdateChannelInv
<1>3. CASE ReadLevels(h) \/ WriteLevels(h)
  BY <1>3, ReadLevelsInv, WriteLevelsInv
<1>4. CASE DeleteChannel(h) \/ JoinChannel(h) \/ LeaveChannel(h)
           \/ ChannelAcceptInvitation(h) \/ ChannelDeclineInvitation(h)
           \/ SendInvitationRequest(h)
  BY <1>4, SendInv DEF DeleteChannel, JoinChannel, LeaveChannel, ChannelAcceptInvitation,
                       ChannelDeclineInvitation, SendInvitationRequest, join, leave, knockRoom,
                       AllOps, What
<1>5. CASE \E T \in SUBSET Handle : ChannelSendInvitations(h, T)
  BY <1>5, InviteInv DEF ChannelSendInvitations
<1>6. CASE \E t \in Handle : \/ ChannelWithdrawInvitation(h, t) \/ ChannelKickHandle(h, t)
                            \/ ChannelBanHandle(h, t) \/ ChannelUnbanHandle(h, t)
  <2>1. PICK t \in Handle : \/ ChannelWithdrawInvitation(h, t) \/ ChannelKickHandle(h, t)
                            \/ ChannelBanHandle(h, t) \/ ChannelUnbanHandle(h, t)
    BY <1>6
  <2>2. CASE ChannelWithdrawInvitation(h, t) \/ ChannelKickHandle(h, t)
    BY <2>2, SendIfInv DEF ChannelWithdrawInvitation, ChannelKickHandle, kickHandle,
                           AllOps, What
  <2>3. CASE ChannelBanHandle(h, t)
    BY <2>3, SendIfInv DEF ChannelBanHandle, banHandle, AllOps, What
  <2>4. CASE ChannelUnbanHandle(h, t)
    BY <2>4, SendIfInv DEF ChannelUnbanHandle, unbanHandle, AllOps, What
  <2> QED
    BY <2>1, <2>2, <2>3, <2>4
<1>7. CASE \E t \in Handle, role \in ChannelRoles : UpdateChannelMemberRole(h, t, role)
  BY <1>7, LevelRange, RoleInv DEF UpdateChannelMemberRole, Channel
<1>8. CASE \E t \in listKnockRequests(h) : ChannelSendInvitations(h, {t})
  BY <1>5, <1>8 DEF listKnockRequests
<1>9. CASE \E t \in listKnockRequests(h) : ChannelKickHandle(h, t)
  BY <1>6, <1>9 DEF listKnockRequests
<1> QED
  BY <1>1, <1>2, <1>3, <1>4, <1>5, <1>6, <1>7, <1>8, <1>9
     DEF ChannelsModuleRoom, ChannelsModuleInvitations, ChannelsModuleRequests,
         ChannelsModuleMembers

\* Nothing has happened at first.
LEMMA InitInv == Init => Inv
<1> SUFFICES ASSUME Init PROVE Inv
  OBVIOUS
<1>1. /\ room = NoRoom /\ seen = [h \in Handle |-> NoRoom] /\ requests = {}
      /\ call = [h \in Handle |-> NewCall("none")]
      /\ calls = [h \in Handle |-> 0] /\ disturbed = [h \in Handle |-> FALSE]
      /\ raced = [h \in Handle |-> FALSE]
  BY DEF Init
<1>2. RoomOK(room)
  BY <1>1, NewTyped DEF RoomOK, NoRoom, Suits
<1>3. seen \in [Handle -> Room] /\ \A h \in Handle : SeenOK(h, seen[h], room)
  BY <1>1, NewTyped DEF SeenOK, NoRoom
<1>4. call \in [Handle -> Call] /\ \A h \in Handle : Shape(call[h])
  BY <1>1, NewTyped
<1>5. ASSUME NEW h \in Handle
      PROVE  Fit(call[h], Own(requests, h), disturbed[h], room, raced[h])
  <2>1. Own(requests, h) = {} /\ call[h] = NewCall("none")
    BY <1>1 DEF Own
  <2>2. Fit(NewCall("none"), {}, disturbed[h], room, raced[h])
    BY DEF Fit, NewCall
  <2> QED
    BY <2>1, <2>2
<1> QED
  BY <1>1, <1>2, <1>3, <1>4, <1>5 DEF Inv, NothingYet

\* Every step keeps Inv.
LEMMA NextInv == ASSUME RoomsAssumption, Inv, [Next]_vars PROVE Inv'
<1>1. CASE \E r \in requests : \/ ServeOk(r) \/ ServeRefused(r)
                               \/ LoseRequest(r) \/ LoseResponse(r)
  BY <1>1, ServeOkInv, ServeFailsInv
<1>2. CASE \E h \in Handle : Sync(h) \/ RoomArrived(h) \/ WaitTimeout(h)
  BY <1>2, SyncInv, WaitedInv
<1>3. CASE \E h \in Handle : \/ GroupsModuleRoom(h) \/ GroupsModuleInvitations(h)
                             \/ GroupsModuleMembers(h)
  BY <1>3, GroupsInv
<1>4. CASE \E h \in Handle : \/ ChannelsModuleRoom(h) \/ ChannelsModuleInvitations(h)
                             \/ ChannelsModuleRequests(h) \/ ChannelsModuleMembers(h)
  BY <1>4, ChannelsInv
<1>5. CASE UNCHANGED vars
  <2>1. /\ room' = room /\ seen' = seen /\ requests' = requests /\ call' = call
        /\ calls' = calls /\ disturbed' = disturbed /\ raced' = raced
    BY <1>5 DEF vars
  <2> QED
    BY <2>1 DEF Inv, NothingYet
<1> QED
  BY <1>1, <1>2, <1>3, <1>4, <1>5 DEF Next

\* The invariant of the rooms.
THEOREM RoomsInvariant == Spec => []Inv
BY InitInv, NextInv, RoomsAssumption, PTL DEF Spec

----------------------------------------------------------------------------
(* What follows from Inv.                                                  *)

\* Everything is well formed.
LEMMA InvTyped == ASSUME Inv PROVE TypeOK
BY DEF Inv, TypeOK, RoomOK, RequestOK

\* sendInvitations leaves nobody out.
LEMMA InvReach == ASSUME Inv PROVE InvitationsReach
<1> SUFFICES ASSUME NEW h \in Handle, call[h].op = "invite", call[h].result = "ok",
                    ~disturbed[h], NEW t \in call[h].to
             PROVE  room.member[t] \in {"invite", "join", "ban"}
  BY DEF InvitationsReach
<1>1. call[h].pc = "idle"
  BY DEF Inv, Shape
<1>2. Own(requests, h) = {}
  BY <1>1, IdleOwnsNothing
<1> QED
  BY <1>2 DEF Inv, Fit

\* A role update from a current cache agrees with the room on everybody else.
LEMMA InvRole ==
    ASSUME Inv PROVE
    [\A r \in requests :
        /\ r \notin requests' /\ r.what = "levels" /\ room'.levels = r.content
        /\ call[r.by].op = "role" /\ r.awaited /\ ~disturbed[r.by]
        => \A t \in Handle \ {r.to} :
              LevelOf(room'.levels, t) = LevelOf(room.levels, t)]_vars
<1> SUFFICES ASSUME NEW r \in requests, room'.levels = r.content,
                    call[r.by].op = "role", r.awaited, ~disturbed[r.by],
                    NEW t \in Handle \ {r.to}
             PROVE  LevelOf(room'.levels, t) = LevelOf(room.levels, t)
  OBVIOUS
<1>1. r.by \in Handle /\ r \in Own(requests, r.by)
  BY DEF Inv, RequestOK, Request, Own
<1>2. Fit(call[r.by], Own(requests, r.by), disturbed[r.by], room, raced[r.by])
  BY <1>1 DEF Inv
<1>3. /\ r.content.users_default = room.levels.users_default
      /\ r.content.users[t] = room.levels.users[t]
  BY <1>1, <1>2 DEF Fit
<1> QED
  BY <1>3 DEF LevelOf

\* updateChannel, if it read the levels and nothing came between, changes
\* the level of no member.
LEMMA InvKeeps ==
    ASSUME Inv PROVE
    [\A r \in requests :
        /\ r \notin requests' /\ r.what = "levels" /\ room'.levels = r.content
        /\ call[r.by].op = "updateChannel" /\ r.awaited
        /\ call[r.by].base # NoLevels /\ ~raced[r.by]
        => \A t \in Listed(room.member) :
              LevelOf(room'.levels, t) = LevelOf(room.levels, t)]_vars
<1> SUFFICES ASSUME NEW r \in requests, r.what = "levels", room'.levels = r.content, r.awaited,
                    call[r.by].op = "updateChannel", call[r.by].base # NoLevels, ~raced[r.by],
                    NEW t \in Listed(room.member)
             PROVE  LevelOf(room'.levels, t) = LevelOf(room.levels, t)
  OBVIOUS
<1> DEFINE c == call[r.by]
<1>1. r.by \in Handle /\ r \in Own(requests, r.by)
  BY DEF Inv, RequestOK, Request, Own
<1>2. Fit(c, Own(requests, r.by), disturbed[r.by], room, raced[r.by])
  BY <1>1 DEF Inv
<1>3. /\ r.content = UpdatedChannelLevels(c.base, Listed(c.members), c.input, c.role)
      /\ c.base = room.levels /\ c.members = room.member
  BY <1>1, <1>2 DEF Fit
<1>4. c.base \in Content /\ Listed(c.members) \in SUBSET Handle
  BY <1>1 DEF Inv, Call, Listed
<1> QED
  BY <1>3, <1>4, UpdatedKeeps

\* Only sendInvitations and deleteGroup leave work behind.
LEMMA InvLate == ASSUME Inv PROVE LateRequests
BY DEF Inv, RequestOK, LateRequests

\* Reading a level back gives the role it was written for.
LEMMA RoleReadBack ==
    /\ \A level \in {25, 100, 101} : GroupLevel(GroupRoleOf(level)) = level
    /\ \A level \in {10, 25, 50, 100} : ChannelLevel(ChannelRoleOf(level)) = level
<1>1. /\ GroupRoleOf(25) = "PARTICIPANT" /\ GroupRoleOf(100) = "ADMIN"
      /\ GroupRoleOf(101) = "NOBODY"
  BY DEF GroupRoleOf
<1>2. /\ ChannelRoleOf(10) = "REACT_ONLY_PARTICIPANT" /\ ChannelRoleOf(25) = "PARTICIPANT"
      /\ ChannelRoleOf(50) = "MODERATOR" /\ ChannelRoleOf(100) = "ADMIN"
  BY DEF ChannelRoleOf
<1> QED
  BY <1>1, <1>2 DEF GroupLevel, ChannelLevel

\* What a member is told is what the home server enforces.
LEMMA InvTold == ASSUME Inv PROVE PermissionsTold
<1> SUFFICES ASSUME NEW h \in Handle, MayRead(h), getRoom(h)
             PROVE
        /\ room.kind = "group" =>
              /\ \A g \in getGroups(h), p \in Permission :
                    GroupLevel(g.permissions[p]) = room.levels.required[p]
              /\ \A t \in Listed(room.member) :
                    GroupLevel(groupMembers(h)[t].role) = RoleLevel(t)
              /\ seen[h] = room => getGroup(h).memberCount = Cardinality(
                    {t \in Listed(room.member) : groupMembers(h)[t].membership = "JOINED"})
        /\ room.kind = "channel" =>
              /\ \A p \in Permission :
                    ChannelLevel(getChannel(h).permissions[p]) = room.levels.required[p]
              /\ ChannelLevel(getChannel(h).defaultMemberRole) = room.levels.users_default
              /\ \A t \in Listed(room.member) :
                    ChannelLevel(channelMembers(h)[t].role) = RoleLevel(t)
              /\ getChannelMembership(h) = channelMembers(h)[h].membership
              /\ seen[h] = room => getChannel(h).memberCount = Cardinality(
                    {t \in Listed(room.member) : channelMembers(h)[t].membership = "JOINED"})
  BY DEF PermissionsTold
<1>1. room.member \in [Handle -> Membership] /\ room.member[h] = "join"
  BY DEF Inv, RoomOK, Room, MayRead, Joined
<1>2. /\ \A t \in Listed(room.member) : /\ MembershipState(room.member[t]) = "JOINED"
                                             <=> room.member[t] = "join"
                                        /\ t \in Handle
      /\ h \in Listed(room.member)
  BY <1>1 DEF Listed, MembershipState, Membership
<1>3. {t \in Listed(room.member) : MembershipState(room.member[t]) = "JOINED"}
        = {t \in Handle : room.member[t] = "join"}
  BY <1>1, <1>2 DEF Listed
<1>4. ASSUME room.kind = "group"
      PROVE  /\ \A g \in getGroups(h), p \in Permission :
                   GroupLevel(g.permissions[p]) = room.levels.required[p]
             /\ \A t \in Listed(room.member) :
                   GroupLevel(groupMembers(h)[t].role) = RoleLevel(t)
             /\ seen[h] = room => getGroup(h).memberCount = Cardinality(
                   {t \in Listed(room.member) : groupMembers(h)[t].membership = "JOINED"})
  <2>1. GroupContent(room.levels)
    BY <1>4 DEF Inv, RoomOK, Suits
  <2>2. \A p \in Permission : GroupPermissions(room.levels)[p] = GroupRoleOf(room.levels.required[p])
    BY DEF GroupPermissions
  <2>3. ASSUME NEW g \in getGroups(h), NEW p \in Permission
        PROVE  GroupLevel(g.permissions[p]) = room.levels.required[p]
    <3>1. g.permissions = GroupPermissions(room.levels)
      BY DEF getGroups, getGroup, get
    <3> QED
      BY <2>1, <2>2, <3>1, RoleReadBack DEF GroupContent
  <2>4. \A t \in Handle : RoleLevel(t) \in {25, 100, 101}
    BY <2>1 DEF GroupContent, RoleLevel, LevelOf
  <2>5. ASSUME NEW t \in Listed(room.member)
        PROVE  /\ groupMembers(h)[t].role = GroupRoleOf(RoleLevel(t))
               /\ groupMembers(h)[t].membership = MembershipState(room.member[t])
    BY DEF groupMembers
  <2>6. ASSUME NEW t \in Listed(room.member)
        PROVE  GroupLevel(groupMembers(h)[t].role) = RoleLevel(t)
    <3>1. t \in Handle
      BY DEF Listed
    <3>2. PICK level : level = RoleLevel(t)
      OBVIOUS
    <3>3. GroupLevel(GroupRoleOf(level)) = level
      BY <2>4, <3>1, <3>2, RoleReadBack
    <3> QED
      BY <2>5, <3>2, <3>3
  <2>7. {t \in Listed(room.member) : groupMembers(h)[t].membership = "JOINED"}
          = {t \in Handle : room.member[t] = "join"}
    BY <1>3, <2>5
  <2>8. getGroup(h).memberCount = Cardinality({t \in Handle : seen[h].member[t] = "join"})
    BY DEF getGroup, get
  <2> QED
    BY <2>3, <2>6, <2>7, <2>8
<1>5. ASSUME room.kind = "channel"
      PROVE  /\ \A p \in Permission :
                   ChannelLevel(getChannel(h).permissions[p]) = room.levels.required[p]
             /\ ChannelLevel(getChannel(h).defaultMemberRole) = room.levels.users_default
             /\ \A t \in Listed(room.member) :
                   ChannelLevel(channelMembers(h)[t].role) = RoleLevel(t)
             /\ getChannelMembership(h) = channelMembers(h)[h].membership
             /\ seen[h] = room => getChannel(h).memberCount = Cardinality(
                   {t \in Listed(room.member) : channelMembers(h)[t].membership = "JOINED"})
  <2>1. ChannelContent(room.levels)
    BY <1>5 DEF Inv, RoomOK, Suits
  <2>2. \A p \in Permission :
           ChannelPermissions(room.levels)[p] = ChannelRoleOf(room.levels.required[p])
    BY <2>1 DEF ChannelPermissions, ChannelContent, Unset
  <2>3. /\ getChannel(h).permissions = ChannelPermissions(room.levels)
        /\ getChannel(h).defaultMemberRole = ChannelRoleOf(room.levels.users_default)
        /\ getChannel(h).memberCount = Cardinality({t \in Handle : seen[h].member[t] = "join"})
    BY DEF getChannel, get
  <2>4. \A t \in Handle : RoleLevel(t) \in {10, 25, 50, 100}
    BY <2>1 DEF ChannelContent, RoleLevel, LevelOf
  <2>5. ASSUME NEW t \in Listed(room.member)
        PROVE  /\ channelMembers(h)[t].role = ChannelRoleOf(RoleLevel(t))
               /\ channelMembers(h)[t].membership = MembershipState(room.member[t])
    BY DEF channelMembers
  <2>6. ASSUME NEW t \in Listed(room.member)
        PROVE  ChannelLevel(channelMembers(h)[t].role) = RoleLevel(t)
    <3>1. t \in Handle
      BY DEF Listed
    <3>2. PICK level : level = RoleLevel(t)
      OBVIOUS
    <3>3. ChannelLevel(ChannelRoleOf(level)) = level
      BY <2>4, <3>1, <3>2, RoleReadBack
    <3> QED
      BY <2>5, <3>2, <3>3
  <2>7. {t \in Listed(room.member) : channelMembers(h)[t].membership = "JOINED"}
          = {t \in Handle : room.member[t] = "join"}
    BY <1>3, <2>5
  <2>8. \A p \in Permission :
           ChannelLevel(getChannel(h).permissions[p]) = room.levels.required[p]
    BY <2>1, <2>2, <2>3, RoleReadBack DEF ChannelContent
  <2>9. ChannelLevel(getChannel(h).defaultMemberRole) = room.levels.users_default
    BY <2>1, <2>3, RoleReadBack DEF ChannelContent
  <2>10. getChannelMembership(h) = channelMembers(h)[h].membership
    BY <1>2, <2>5 DEF getChannelMembership
  <2> QED
    BY <2>3, <2>6, <2>7, <2>8, <2>9, <2>10
<1> QED
  BY <1>4, <1>5

----------------------------------------------------------------------------
(* The properties.                                                         *)

\* The rooms, their copies, requests and calls are well formed.
THEOREM RoomsTyped == Spec => []TypeOK
BY RoomsInvariant, InvTyped, PTL

\* sendInvitations: a call that succeeded, undisturbed and on a current
\* cache, has reached everybody it was for.
THEOREM NobodyLeftOut == Spec => []InvitationsReach
BY RoomsInvariant, InvReach, PTL

\* updateMemberRole: the content sent from a current cache changes the role
\* of its target only.
THEOREM RoleUpdateLocal == Spec => RoleTouchesTargetOnly
BY RoomsInvariant, InvRole, PTL DEF RoleTouchesTargetOnly

\* updateChannel: if it found the room in the cache, and nothing else was
\* served since it read the levels, its write leaves every role as it was.
THEOREM RolesPinned == Spec => UpdateKeepsRoles
BY RoomsInvariant, InvKeeps, PTL DEF UpdateKeepsRoles

\* Only the invitations of a failed sendInvitations and the kicks of
\* deleteGroup take effect after their call is over.
THEOREM WorkLeftBehind == Spec => []LateRequests
BY RoomsInvariant, InvLate, PTL

\* The permissions and roles that the modules report are those the home
\* server enforces, after every sequence of updates.
THEOREM PermissionsReadBack == Spec => []PermissionsTold
BY RoomsInvariant, InvTold, PTL
=============================================================================
