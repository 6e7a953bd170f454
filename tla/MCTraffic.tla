----------------------------- MODULE MCTraffic -----------------------------
(* Small instances of Traffic: two connections of one user.                 *)
EXTENDS Traffic, TLC

AnyConn == Permutations(Conns)
=============================================================================
