---------------------------- MODULE MCCertStore ----------------------------
(* Small instances of CertStore: one node, or two with the same files; four *)
(* names: the pair on disk may be two, another goroutine has one, one is free. *)
EXTENDS CertStore
=============================================================================
