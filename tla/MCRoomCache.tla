---------------------------- MODULE MCRoomCache ----------------------------
(* Small instances of RoomCache.                                           *)
EXTENDS RoomCache, TLC

CONSTANTS t1, t2, r1, r2, r3, r4

Rooms     == {r1, r2, r3, r4}
SomeRooms == <<r1, r2, r3>>
=============================================================================
