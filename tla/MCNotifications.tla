-------------------------- MODULE MCNotifications --------------------------
(* A small instance of Notifications.                                      *)
EXTENDS Notifications, TLC

CONSTANTS t1, t2, chat1

TwoTasks  == {t1, t2}
OneChat   == {chat1}
Symmetric == Permutations(TwoTasks)
=============================================================================
