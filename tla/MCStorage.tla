----------------------------- MODULE MCStorage -----------------------------
(* Small instances of HandleStorage.                                       *)
EXTENDS HandleStorage

CONSTANTS u1, u2, tokA, tokB

Users  == {u1, u2}
Values == {tokA, tokB}
=============================================================================
