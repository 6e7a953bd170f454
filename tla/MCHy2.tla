------------------------------- MODULE MCHy2 -------------------------------
(* Small instances of Hy2: two nodes, one with a user of its own, and one   *)
(* whom they share and who has a connection to that node.                  *)
EXTENDS Hy2, TLC

CONSTANTS n1, n2, u1, u2
MCHomes == (u1 :> {n1}) @@ (u2 :> {n1, n2})
MCUserOf == [c \in Conns |-> u2]
MCServerOf == [c \in Conns |-> n1]
Alike == Permutations(Calls)
=============================================================================
