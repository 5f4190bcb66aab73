----------------------------- MODULE MCSecurity -----------------------------
(* Small instances of Security.                                            *)
EXTENDS Security, TLC

CONSTANTS d1, d2, t1, t2, t3

Devices   == {d1, d2}
Tasks     == {t1, t2, t3}
Symmetric == Permutations(Tasks)
=============================================================================
