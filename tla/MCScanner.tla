----------------------------- MODULE MCScanner -----------------------------
(* Instances of Scanner for TLC. *)
EXTENDS Scanner

(* Nested values, with commas after the last; strings of all that means    *)
(* something outside of them; two operations; a key twice, once an error.  *)
Nested   == <<Name, "(", "k", "=", "{", "t", "=", "[", "1", ",", "]", "}", ",", ")">>
Strings  == <<Name, "(", "k", "=", "'", "#", "\\", "'", "\"", ")", "'", ")">>
Two      == <<Name, "(", ")", Name, "(", "true", "=", "true", ")">>
SameKeys == <<Name, "(", "k", "=", "{", "t", "=", "1", ",", "t", "=", "1", "}", ")">>
SameArguments == <<Name, "(", "k", "=", "1", ",", "k", "=", "1", ")">>

(* No operations: crossed, open and superfluous delimiters, an unknown     *)
(* word, no name, a string that does not end, one with a bad escape.       *)
Malformed ==
    {<<Name, "(", "k", "=", "[", "1", ")", "]">>,
     <<Name, "(", "k", "=", "[", "1">>,
     <<Name, "(", ")", ")">>,
     <<Name, "(", "k", "=", "t", ")">>,
     <<"k", "(", ")">>,
     <<Name, "(", "k", "=", "\"", ")">>,
     <<Name, "(", "k", "=", "'", "\\", "xq", "'", ")">>}

MCPrograms == {Nested, Strings, Two, SameKeys, SameArguments} \cup Malformed

(* No comment, and one of what means something outside of it. *)
MCComments == {<<>>, <<"#", "'", ")", "(">>}
=============================================================================
