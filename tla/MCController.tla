---------------------------- MODULE MCController ----------------------------
(* Small instances of Controller: three pairs of intervals, one of them     *)
(* without a push interval; a reload may change none, one or both values.   *)
EXTENDS Controller

MCIntervals == {<<1, 1>>, <<2, 0>>, <<1, 2>>}
=============================================================================
