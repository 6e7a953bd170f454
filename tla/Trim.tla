--------------------------------- MODULE Trim ---------------------------------
(***************************************************************************)
(* TrimNodeReader, through which LoadFromPath reads the config: prep blanks *)
(* comments and trailing commas in place, one pass from left to right, a    *)
(* step of this module for each character it looks at.  Of a character it   *)
(* matters only to which class it belongs.                                  *)
(***************************************************************************)
EXTENDS Naturals, Sequences

CONSTANTS Inputs   \* the files considered, sequences of Classes

Quote == "quote"
Classes == {Quote, "backslash", "slash", "star", "comma", "close", "newline", "other"}
Blank == "space"

ASSUME InputsAssumption == Inputs \subseteq Seq(Classes)

VARIABLES
    input,  \* the file
    s, i,   \* prep's buffer and index
    mode,   \* the loop that prep is in
    comma   \* case ',': its j, or 0 outside of it

prepVars == <<input, s, i, mode, comma>>

PrepInit == input \in Inputs /\ s = input /\ i = 1 /\ mode = "text" /\ comma = 0

Left == i <= Len(s)
Here(c) == Left /\ s[i] = c
Go(m, n) == mode' = m /\ i' = i + n
Keep == UNCHANGED <<input, s, comma>>
\* The loop that a comment returns to: at the index it ended at, or, in the
\* loop of a comma, behind it.
Return(n) == IF comma = 0 THEN Go("text", n) ELSE Go("comma", n + 1)

-----------------------------------------------------------------------------
\* prep's switch
Text ==
    /\ mode = "text" /\ Left
    /\ CASE s[i] = Quote -> Go("string", 1) /\ UNCHANGED comma
         [] s[i] = "slash" -> Go("slash", 1) /\ UNCHANGED comma
         [] s[i] = "comma" -> Go("comma", 1) /\ comma' = i
         [] OTHER -> Go("text", 1) /\ UNCHANGED comma
    /\ UNCHANGED <<input, s>>

InString ==
    /\ mode = "string" /\ Left
    /\ CASE s[i] = Quote -> Go("text", 1)
         [] s[i] = "backslash" -> Go("string", 2)
         [] OTHER -> Go("string", 1)
    /\ Keep

\* case ',': until something that is neither white nor a comment
InComma ==
    /\ mode = "comma" /\ Left
    /\ CASE s[i] = "close" -> s' = [s EXCEPT ![comma] = Blank] /\ Go("text", 0) /\ comma' = 0
         [] s[i] = "slash" -> Go("slash", 1) /\ UNCHANGED <<s, comma>>
         [] s[i] \in {"newline", Blank} -> Go("comma", 1) /\ UNCHANGED <<s, comma>>
         [] OTHER -> Go("text", 0) /\ comma' = 0 /\ UNCHANGED s
    /\ UNCHANGED input

-----------------------------------------------------------------------------
\* consumeComment

AfterSlash ==
    /\ mode = "slash"
    /\ \/ Here("slash") /\ s' = [s EXCEPT ![i - 1] = Blank] /\ Go("line", 0)
       \/ Here("star") /\ s' = [s EXCEPT ![i - 1] = Blank, ![i] = Blank] /\ Go("block", 1)
       \/ ~Here("slash") /\ ~Here("star") /\ UNCHANGED s /\ Return(0)
    /\ UNCHANGED <<input, comma>>

InLine ==
    /\ mode = "line"
    /\ \/ Left /\ s[i] # "newline" /\ s' = [s EXCEPT ![i] = Blank] /\ Go("line", 1)
       \/ (~Left \/ Here("newline")) /\ UNCHANGED s /\ Return(0)
    /\ UNCHANGED <<input, comma>>

\* Mutant: the slash that ends the comment stays.
InBlock_KeepsSlash ==
    /\ mode = "block" /\ Left
    /\ s' = [s EXCEPT ![i] = Blank]
    /\ IF s[i] = "star" /\ i < Len(s) /\ s[i + 1] = "slash" THEN Return(2)
       ELSE Go("block", IF s[i] = "star" THEN 2 ELSE 1)
    /\ UNCHANGED <<input, comma>>

\* A star takes the next character with it: it ends the comment if it is a
\* slash, and stays as it is if not.
InBlock ==
    /\ mode = "block" /\ Left
    /\ IF s[i] = "star" /\ i < Len(s) /\ s[i + 1] = "slash"
       THEN s' = [s EXCEPT ![i] = Blank, ![i + 1] = Blank] /\ Return(1)
       ELSE s' = [s EXCEPT ![i] = Blank] /\ Go("block", IF s[i] = "star" THEN 2 ELSE 1)
    /\ UNCHANGED <<input, comma>>

End ==
    /\ mode \in {"text", "string", "comma", "block"} /\ ~Left
    /\ mode' = "done" /\ UNCHANGED <<input, s, i, comma>>

\* The reader has its copy and prep is not called again.
Done == mode = "done" /\ UNCHANGED prepVars

PrepNext == Text \/ InString \/ InComma \/ AfterSlash \/ InLine \/ InBlock \/ End \/ Done

PrepSpec == PrepInit /\ [][PrepNext]_prepVars

-----------------------------------------------------------------------------
\* What the file means, character by character: kinds[p] is where character p
\* is, an automaton over the classes, and the comments are what is blanked.

Kind(before, c, next) ==
    CASE before \in {"plain", "close2"} ->
           IF c = Quote THEN "open" ELSE IF c = "slash" /\ next = "slash" THEN "line"
           ELSE IF c = "slash" /\ next = "star" THEN "begin" ELSE "plain"
      [] before \in {"open", "within", "escaped"} ->
           IF c = Quote THEN "plain" ELSE IF c = "backslash" THEN "escape" ELSE "within"
      [] before = "escape" -> "escaped"
      [] before = "line" -> IF c = "newline" THEN "plain" ELSE "line"
      [] before = "begin" -> "block"
      [] before = "block" -> IF c = "star" /\ next = "slash" THEN "close1" ELSE "block"
      [] before = "close1" -> "close2"

Following(t, p) == IF p < Len(t) THEN t[p + 1] ELSE "none"
Kinds(t) ==
    LET kinds[p \in 0..Len(t)] == IF p = 0 THEN "plain" ELSE Kind(kinds[p - 1], t[p], Following(t, p))
    IN  kinds

Commented == {"line", "begin", "block", "close1", "close2"}

\* A comma that only white space and comments part from a closing bracket
Trailing(t, kinds, p) ==
    /\ t[p] = "comma" /\ kinds[p] = "plain"
    /\ \E q \in p + 1..Len(t) :
        /\ t[q] = "close" /\ kinds[q] = "plain"
        /\ \A r \in p + 1..q - 1 : kinds[r] \in Commented \/ (kinds[r] = "plain" /\ t[r] = "newline")

Clean(t) ==
    LET kinds == Kinds(t)
    IN  [p \in 1..Len(t) |-> IF kinds[p] \in Commented \/ Trailing(t, kinds, p) THEN Blank ELSE t[p]]

\* Files without a star inside a block comment, and without a slash outside
\* strings that starts none (which is no JSON)
Tame(t) ==
    LET kinds == Kinds(t)
    IN  \A p \in 1..Len(t) : /\ kinds[p] = "block" /\ kinds[p - 1] # "begin" => t[p] # "star"
                             /\ kinds[p] = "plain" => t[p] # "slash"

-----------------------------------------------------------------------------
\* Properties

\* "cleans p of comments and trailing commas preceeding ] and }"
\* (json5.go:95): what the decoder sees is the file, of the same length, with
\* these and nothing else blanked.
Cleans == mode = "done" /\ Tame(input) => s = Clean(input)

=============================================================================
