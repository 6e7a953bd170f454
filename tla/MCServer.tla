------------------------------ MODULE MCServer ------------------------------
(* Small instances of Server: config files with one or two nodes, without   *)
(* any, with one twice, or broken, and four circumstances.                  *)
EXTENDS Server

CONSTANTS a, b

GoodFiles == {<<a>>, <<b>>, <<a, b>>}
AnyFailure == {"close", "core", "panel", "users"}

Paced == [contents |-> GoodFiles, mayFail |-> {}, paced |-> TRUE, overlap |-> FALSE, edits |-> 3]
Unpaced == [Paced EXCEPT !.paced = FALSE]
Failing == [Unpaced EXCEPT !.mayFail = AnyFailure, !.contents = GoodFiles \cup {<<>>, <<a, a>>, Broken}]
Slow == [Paced EXCEPT !.overlap = TRUE, !.edits = 2]

AllRegimes == {Paced, Unpaced, Failing, Slow}
=============================================================================
