------------------------------ MODULE MCRooms ------------------------------
(* Small instances of Rooms.                                               *)
EXTENDS Rooms, TLC

CONSTANTS alice, bob, carol

ThreeHandles == {alice, bob, carol}
BothKinds    == {"group", "channel"}
GroupOnly    == {"group"}
SomeGroupRoles   == {"ADMIN", "PARTICIPANT"}
SomeChannelRoles == {"ADMIN", "MODERATOR", "REACT_ONLY_PARTICIPANT"}
SomeDefaults == {"REACT_ONLY_PARTICIPANT"}
SomeRules    == {"PUBLIC_WITH_INVITE"}
SomeInputs   == {[p \in Permission |->
                     IF p = "inviteHandles" THEN "MODERATOR" ELSE "undefined"]}
SomeFields   == {{"name", "topic", "avatar"}}
SomeInvited  == {{}, {bob, carol}}
DeleteOps    == {"join", "deleteGroup"}
MoreOps      == AllOps

\* The creator and a second member act, carol is only acted on.
Budget    == [h \in Handle |-> CASE h = alice -> 1 [] h = bob -> 2 [] OTHER -> 0]
=============================================================================
