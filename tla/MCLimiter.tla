------------------------------ MODULE MCLimiter ------------------------------
(* Small instances of Limiter: u1 has two devices, and shares the IP of one *)
(* of them with u2.                                                         *)
EXTENDS Limiter, TLC

CONSTANTS u1, u2, i1, i2

SomeDevices == {<<u1, i1>>, <<u1, i2>>, <<u2, i1>>}
AnyConn == Permutations(Conns)
=============================================================================
