-------------------------------- MODULE Stream --------------------------------
(***************************************************************************)
(* What a handler may rely on when it reads a connection's uplink: chunks   *)
(* arrive in the order in which they were written, each once, and the end   *)
(* of file comes after the last of them.  A connection that is cut may lose *)
(* the tail of what is still under way, and never anything before it.       *)
(***************************************************************************)
EXTENDS Naturals, Sequences

VARIABLES
    queue,     \* chunks written and not yet delivered
    delivered, \* chunks the handler has read
    state,     \* "open", "finished" by the writer, "broken"
    eof        \* the handler was told that there is no more

vars == <<queue, delivered, state, eof>>

Init == queue = <<>> /\ delivered = <<>> /\ state = "open" /\ eof = FALSE

Write ==
    /\ state = "open"
    /\ queue' = Append(queue, Len(delivered) + Len(queue) + 1)
    /\ UNCHANGED <<delivered, state, eof>>

Finish == state = "open" /\ state' = "finished" /\ UNCHANGED <<queue, delivered, eof>>

Read(n) ==
    /\ n \in 1..Len(queue)
    /\ delivered' = delivered \o SubSeq(queue, 1, n)
    /\ queue' = SubSeq(queue, n + 1, Len(queue))
    /\ UNCHANGED <<state, eof>>

End == state = "finished" /\ queue = <<>> /\ eof' = TRUE /\ UNCHANGED <<queue, delivered, state>>

Break(n) ==
    /\ n \in 0..Len(queue)
    /\ state' = "broken" /\ queue' = SubSeq(queue, 1, n)
    /\ UNCHANGED <<delivered, eof>>

Next == Write \/ Finish \/ End \/ \E n \in 0..Len(queue) : Read(n) \/ Break(n)

Spec == Init /\ [][Next]_vars
=============================================================================
