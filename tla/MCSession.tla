----------------------------- MODULE MCSession -----------------------------
(* Small instances of SessionManager.                                      *)
EXTENDS SessionManager, TLC

CONSTANTS c1, c2, del

Callers   == {c1, c2}
AllOps    == {"ensure", "get", "start", "stop"}
FewOps    == {"ensure", "start"}
TwoLives  == {1, 3}
OneLife   == {2}
Anything  == {"call", "timer"}
Nothing   == {}
NoDevice  == {0}
AnyDevice == {0, 1}

\* Callers differ in nothing but their names.
Symmetry == Permutations(Callers)
=============================================================================
