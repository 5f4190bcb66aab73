---------------------------- MODULE PowerLevels ----------------------------
(***************************************************************************)
(* Roles and permissions of groups and channels, and the power levels of   *)
(* the matrix room they are stored in.                                     *)
(*                                                                         *)
(* A role is stored as a number: of a member in `users`, of everybody else *)
(* in `users_default`.  A permission is the least role that may do         *)
(* something; here one function, `required`, stands for the fields ban,    *)
(* events_default, invite, kick, redact and events of the state event.     *)
(***************************************************************************)
EXTENDS Integers

CONSTANT Handle

GroupRole   == {"ADMIN", "PARTICIPANT", "NOBODY"}
ChannelRole == {"ADMIN", "MODERATOR", "PARTICIPANT", "REACT_ONLY_PARTICIPANT"}

Permission == {"sendMessages", "inviteHandles", "kickHandles", "banHandles",
               "changeName", "changeDescription", "changeAvatar",
               "deleteOthersMessages"}

\* Events a channel gives a level of their own when it is created.
ReactionEvent == {"m.reaction", "m.room.redaction"}

Unset == -1             \* a level the content does not give
Level == Nat \cup {Unset}

Content == [users : [Handle -> Level], users_default : Nat,
            required : [Permission \cup ReactionEvent -> Level]]

\* No power levels: what a client knows of a room it has not got.
NoLevels == [users |-> [h \in Handle |-> Unset], users_default |-> 0,
             required |-> [p \in Permission \cup ReactionEvent |-> Unset]]

PermissionInput == [Permission -> ChannelRole \cup {"undefined"}]

Only(h, level) == [x \in Handle |-> IF x = h THEN level ELSE Unset]

----------------------------------------------------------------------------
(* Groups.                                                                 *)

GroupLevel(role) ==
    CASE role = "NOBODY" -> 101 [] role = "ADMIN" -> 100 [] OTHER -> 25

\* The code throws for a level between the two bands.
GroupRoleOf(level) ==
    CASE level = 101          -> "NOBODY"
      [] level \in 51 .. 100  -> "ADMIN"
      [] level \in 0 .. 25    -> "PARTICIPANT"
      [] OTHER                -> "out of range"

DefaultGroupPermissions ==
    [p \in Permission |->
        CASE p \in {"kickHandles", "banHandles"} -> "ADMIN"
          [] p = "deleteOthersMessages"          -> "NOBODY"
          [] OTHER                               -> "PARTICIPANT"]

InitialGroupLevels(creator) ==
    [users |-> Only(creator, 100), users_default |-> GroupLevel("PARTICIPANT"),
     required |-> [p \in Permission \cup ReactionEvent |->
                      IF p \in Permission THEN GroupLevel(DefaultGroupPermissions[p])
                                         ELSE Unset]]

\* What a reader of the group is told its permissions are.
GroupPermissions(c) == [p \in Permission |-> GroupRoleOf(c.required[p])]

----------------------------------------------------------------------------
(* Channels.                                                               *)

ChannelLevel(role) ==
    CASE role = "ADMIN" -> 100 [] role = "MODERATOR" -> 50
      [] role = "PARTICIPANT" -> 25 [] OTHER -> 10

\* Mutant: the bounds are taken to be exclusive.
ChannelRoleAbove(level) ==
    CASE level > 100 -> "ADMIN" [] level \in 51 .. 100 -> "MODERATOR"
      [] level \in 26 .. 50 -> "PARTICIPANT" [] OTHER -> "REACT_ONLY_PARTICIPANT"

ChannelRoleOf(level) ==
    CASE level >= 100 -> "ADMIN" [] level \in 50 .. 99 -> "MODERATOR"
      [] level \in 25 .. 49 -> "PARTICIPANT" [] OTHER -> "REACT_ONLY_PARTICIPANT"

DefaultChannelPermissions ==
    [p \in Permission |->
        IF p \in {"sendMessages", "inviteHandles"} THEN "PARTICIPANT" ELSE "MODERATOR"]

\* A permission the input leaves out is the default one.
ChannelRequired(input) ==
    [p \in Permission |->
        ChannelLevel(IF input[p] # "undefined" THEN input[p]
                                               ELSE DefaultChannelPermissions[p])]

\* The levels of a content; events is the level of the reaction events.
RequiredLevels(input, events) ==
    [p \in Permission \cup ReactionEvent |->
        IF p \in Permission THEN ChannelRequired(input)[p] ELSE events]

\* External: the service adds the creator as an admin.
InitialChannelLevels(creator, input, defaultRole) ==
    [users |-> Only(creator, 100),
     users_default |-> ChannelLevel(defaultRole),
     required |-> RequiredLevels(input, ChannelLevel("REACT_ONLY_PARTICIPANT"))]

\* Mutant: only explicit levels are kept.
NotPinned(base, members, newDefault) == base.users

\* Members keep the level they have, those at the new default excepted, if
\* their levels could be read.
PinnedUsers(base, members, newDefault) ==
    [h \in Handle |->
        IF /\ base # NoLevels /\ base.users[h] = Unset
           /\ h \in members /\ base.users_default # newDefault
        THEN base.users_default ELSE base.users[h]]

\* updateChannel writes a content of its own: permissions that were not
\* given go back to their defaults and the reaction events are dropped.
UpdatedChannelLevels(base, members, input, defaultRole) ==
    [users |-> PinnedUsers(base, members, ChannelLevel(defaultRole)),
     users_default |-> ChannelLevel(defaultRole),
     required |-> RequiredLevels(input, Unset)]

\* What a reader of the channel is told its permissions are.
ChannelPermissions(c) ==
    [p \in Permission |->
        ChannelRoleOf(IF c.required[p] # Unset THEN c.required[p]
                      ELSE ChannelLevel(DefaultChannelPermissions[p]))]

----------------------------------------------------------------------------
(* The level of a handle; 0 if the content says nothing.                   *)

LevelOf(c, h) == IF c.users[h] # Unset THEN c.users[h] ELSE c.users_default

\* Mutant: the other users are forgotten.
UserAlone(c, h, level) == [c EXCEPT !.users = Only(h, level)]

WithUser(c, h, level) == [c EXCEPT !.users[h] = level]

\* External: what the home server asks for; events without a level of their
\* own need the level of a message.
RequiredLevel(c, p) ==
    IF c.required[p] # Unset THEN c.required[p] ELSE c.required["sendMessages"]

May(c, h, p) == LevelOf(c, h) >= RequiredLevel(c, p)
=============================================================================
