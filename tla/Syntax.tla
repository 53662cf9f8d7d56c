------------------------------- MODULE Syntax -------------------------------
(***************************************************************************)
(* The lexical structure and the grammar of operations                     *)
(* (network_lang/parser.py).                                               *)
(*                                                                         *)
(* A text is a sequence of symbols.  A symbol is one character of those    *)
(* that the scanner tells apart, or a whole identifier or number.  White   *)
(* space within a line is left out.  Inside a string any symbol may stand. *)
(***************************************************************************)
EXTENDS Integers, Sequences, FiniteSets, FiniteSetsExt

Name        == "network.a.get"
Identifiers == {"k", "t", "true"}
Literals    == {"true", "1"}
Quotes      == {"'", "\""}
Open        == {"(", "[", "{"}
Closing     == {")", "]", "}"}
End         == "end of text"

-----------------------------------------------------------------------------
(* Strings and comments.  _strip_comment, _depth_delta and _string keep    *)
(* the same two variables.                                                 *)

Outside == [quote |-> "none", escaped |-> FALSE]

Lex(state, symbol) ==
    CASE state.escaped -> [state EXCEPT !.escaped = FALSE]
      [] ~state.escaped /\ symbol = "\\" /\ state.quote # "none" ->
            [state EXCEPT !.escaped = TRUE]
      [] ~state.escaped /\ symbol \in Quotes /\ state.quote = "none" ->
            [state EXCEPT !.quote = symbol]
      [] ~state.escaped /\ symbol = state.quote -> [state EXCEPT !.quote = "none"]
      [] OTHER -> state

(* The scanner after each symbol of a line.  It forgets about strings at   *)
(* the end of each line.                                                   *)
Scan(line) ==
    LET state[k \in 0..Len(line)] ==
            IF k = 0 THEN Outside ELSE Lex(state[k-1], line[k])
    IN  state

After(line, k) == Scan(line)[k]

(* Mutant of Bare: strings are not looked at. *)
AllPlaces(line) == DOMAIN line

(* The places of a line that are in no string. *)
Bare(line) == {k \in DOMAIN line : After(line, k - 1).quote = "none"}

StripComment(line) ==
    LET hashes == {k \in Bare(line) : line[k] = "#"}
    IN  IF hashes = {} THEN line ELSE SubSeq(line, 1, Min(hashes) - 1)

Depth(line, k) ==
    LET before(S) == {j \in Bare(line) : j <= k /\ line[j] \in S}
    IN  Cardinality(before(Open)) - Cardinality(before(Closing))

DepthDelta(line) == Depth(line, Len(line))

(* _depth_delta raises: two delimiters more are closed than opened so far  *)
(* on this line; a string is not closed.                                   *)
ClosesTwice(line) ==
    \E k \in Bare(line) : line[k] \in Closing /\ Depth(line, k) < -1

Unterminated(line) == After(line, Len(line)).quote # "none"

-----------------------------------------------------------------------------
(* _ValueParser.  What is parsed at a place is the set of the place after  *)
(* it, which is empty where it raises.  items is the parser of what comes  *)
(* later in the text; seen are the names of the arguments parsed so far.   *)

(* Behind a backslash, what ast.literal_eval does not read, as \xq: it      *)
(* raises a SyntaxError.                                                   *)
NoEscapes == {"xq"}
BadEscape(token) ==
    \E k \in 2..Len(token) : token[k] \in NoEscapes /\ After(token, k - 1).escaped

StringEnd(text, i) ==
    LET closed == {j \in i+1..Len(text) : After(SubSeq(text, i, j), j - i + 1) = Outside}
    IN  IF closed = {} \/ BadEscape(SubSeq(text, i, Min(closed))) THEN {}
        ELSE {Min(closed) + 1}

ValueEnd(items, text, i) ==
    CASE text[i] \in Quotes   -> StringEnd(text, i)
      [] text[i] = "{"        -> items[i + 1]["}"][{}]
      [] text[i] = "["        -> items[i + 1]["]"][{}]
      [] text[i] \in Literals -> {i + 1}
      [] OTHER                -> {}

(* A value of a list, or a field of an object or of the arguments. *)
ItemEnd(items, text, i, close, seen) ==
    IF close = "]" THEN ValueEnd(items, text, i)
    ELSE IF text[i] \in Identifiers \ seen /\ text[i+1] = "="
    THEN ValueEnd(items, text, i + 2)
    ELSE {}

(* Items, divided by commas, up to what closes them; the last comma may be *)
(* followed by nothing.                                                    *)
ItemsEnd(items, text, i, close, seen) ==
    IF text[i] = close THEN {i + 1}
    ELSE LET now == IF close = End THEN seen \cup {text[i]} ELSE seen
         IN  UNION {CASE text[j] = close -> {j + 1}
                      [] text[j] = "," -> items[j + 1][close][now]
                      [] OTHER -> {} :
                    j \in ItemEnd(items, text, i, close, seen) \cap i+1..Len(text)}

Items(text) ==
    LET items[i \in 1..Len(text)] ==
            [close \in {"}", "]", End} |->
                [seen \in SUBSET Identifiers |-> ItemsEnd(items, text, i, close, seen)]]
    IN  items

(* _parse_operation: the name, and arguments from the first parenthesis to *)
(* the last.                                                               *)
IsOperation(statement) ==
    /\ Len(statement) >= 3
    /\ statement[1] = Name /\ statement[2] = "("
    /\ statement[Len(statement)] = ")"
    /\ Items(SubSeq(statement, 3, Len(statement) - 1) \o <<End>>)[1][End][{}] # {}
=============================================================================
