--------------------------- MODULE RunLifecycleMC ---------------------------
(* RunLifecycle on a small server.                                         *)
EXTENDS RunLifecycle, TLC

CONSTANTS c1, c2

MCConn == {c1, c2}
OneConn == {c1}
MCSymmetry == Permutations(MCConn)
=============================================================================
