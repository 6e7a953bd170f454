----------------------------- MODULE MCSelector -----------------------------
(* Instance of Selector: one node, on two cores of a type and one of each    *)
(* other type, so that by name, by type and by protocol a node matches no    *)
(* core, one or several.  Nodes meet only in what is kept per node, as the   *)
(* proofs for any number of them show; one is enough to find what fails.     *)
EXTENDS Selector

CONSTANTS x, y, s, h

CoreTypes == [c \in Cores |-> CASE c \in {x, y} -> "xray" [] c = s -> "sing" [] c = h -> "hysteria2"]
=============================================================================
