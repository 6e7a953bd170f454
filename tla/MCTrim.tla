------------------------------- MODULE MCTrim -------------------------------
(* Every file of at most six characters.                                    *)
EXTENDS Trim

Files == UNION {[1..n -> Classes] : n \in 0..6}
=============================================================================
