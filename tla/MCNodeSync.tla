---------------------------- MODULE MCNodeSync ----------------------------
(* Small instances of NodeSync: two users, so that one may be added while   *)
(* another leaves or changes; two configs, and one whose rules do not       *)
(* compile; each limit set or not.                                          *)
EXTENDS NodeSync
=============================================================================
