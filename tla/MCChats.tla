------------------------------ MODULE MCChats ------------------------------
(* Small instances of DirectChats.                                         *)
EXTENDS DirectChats, TLC

CONSTANTS t1, t2, alice, bob

OneTask  == {t1}
TwoTasks == {t1, t2}
OnePeer  == {alice}
Peers    == {alice, bob}
RoomOps  == {"create", "accept", "decline", "listInvite", "listJoin"}
BlockOps == {"block", "unblock"}
AllOps   == RoomOps \cup BlockOps

\* Calls differ in nothing but their names.
TaskSymmetry == Permutations(TwoTasks)
=============================================================================
