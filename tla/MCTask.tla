------------------------------- MODULE MCTask -------------------------------
(* Small instances of Task: one object (objects share nothing), started up  *)
(* to MaxStarts times.                                                      *)
EXTENDS Task
=============================================================================
