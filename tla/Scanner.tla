------------------------------ MODULE Scanner ------------------------------
(***************************************************************************)
(* parse_text (network_lang/parser.py): from lines of text to operations,  *)
(* in one pass.  Somebody has written a program, broken it into lines and  *)
(* put comments in; a statement ends where delimiters are balanced at the  *)
(* end of a line, and is parsed before the next line is read; an error     *)
(* anywhere is the end of all.                                             *)
(***************************************************************************)
EXTENDS Syntax

CONSTANTS
    Programs,  \* sequences of symbols
    Comments,  \* what may end a line: a comment, or nothing
    MaxLines   \* bound: lines of a text

(* Outside of its strings a program has no #, with which comments begin. *)
ASSUME ProgramsAssumption ==
    \A p \in Programs :
        /\ p \in Seq(STRING)
        /\ End \notin {p[k] : k \in DOMAIN p}
        /\ \A k \in DOMAIN p : p[k] = "#" => After(p, k - 1).quote # "none"

ASSUME CommentsAssumption ==
    /\ \A c \in Comments : c \in Seq(STRING) /\ (c # <<>> => c[1] = "#")
    /\ MaxLines \in Nat

VARIABLES
    program,    \* what was meant
    comments,   \* line -> the comment at its end
    ends,       \* line -> the place in the program that it goes up to
    read,       \* lines read
    buffer,     \* the statement so far
    start,      \* the line on which it starts
    depth,
    operations, \* the operations parsed, each with the line of its source
    outcome

written == <<program, comments, ends>>
vars == <<written, read, buffer, start, depth, operations, outcome>>

(* The ways to break a program into n lines, of which some may be blank. *)
Breaks(p, n) ==
    {e \in [0..n -> 0..Len(p)] :
        /\ e[0] = 0 /\ e[n] = Len(p)
        /\ \A k \in 1..n : e[k-1] <= e[k]}

Code(k) == SubSeq(program, ends[k-1] + 1, ends[k])

(* text.splitlines() *)
Lines == [k \in DOMAIN comments |-> Code(k) \o comments[k]]

Init ==
    /\ program \in Programs
    /\ \E n \in 1..MaxLines : comments \in [1..n -> Comments] /\ ends \in Breaks(program, n)
    /\ read = 0
    /\ buffer = <<>>
    /\ start = 1
    /\ depth = 0
    /\ operations = <<>>
    /\ outcome = "reading"

-----------------------------------------------------------------------------
Reading == outcome = "reading" /\ read < Len(Lines)

Line == StripComment(Lines[read + 1])

(* buffer.append(line), with what is left unchanged where that is refused. *)
Statement == buffer \o Line
NewDepth  == depth + DepthDelta(Line)
Fits      == ~ClosesTwice(Line) /\ ~Unterminated(Line) /\ NewDepth >= 0

(* Mutant of Start: the line on which it ends. *)
StartOfLastLine == read + 1

Start == IF buffer = <<>> THEN read + 1 ELSE start

SkipLine ==
    /\ Reading
    /\ Line = <<>> /\ buffer = <<>>
    /\ read' = read + 1
    /\ UNCHANGED <<written, buffer, start, depth, operations, outcome>>

KeepLine ==
    /\ Reading
    /\ Line # <<>> \/ buffer # <<>>
    /\ Fits /\ NewDepth > 0
    /\ read' = read + 1
    /\ buffer' = Statement
    /\ start' = Start
    /\ depth' = NewDepth
    /\ UNCHANGED <<written, operations, outcome>>

ParseStatement ==
    /\ Reading
    /\ Line # <<>> \/ buffer # <<>>
    /\ Fits /\ NewDepth = 0
    /\ IsOperation(Statement)
    /\ read' = read + 1
    /\ buffer' = <<>>
    /\ start' = Start
    /\ depth' = 0
    /\ operations' = Append(operations, [code |-> Statement, line |-> Start])
    /\ UNCHANGED <<written, outcome>>

(* An error of the line, of the statement, or at the end: a ParseError, or *)
(* the SyntaxError of a string. *)
Refuse ==
    /\ outcome' = "refused"
    /\ UNCHANGED <<written, read, buffer, start, depth, operations>>

RefuseLine ==
    /\ Reading
    /\ Line # <<>> \/ buffer # <<>>
    /\ ~Fits
    /\ Refuse

RefuseStatement ==
    /\ Reading
    /\ Line # <<>> \/ buffer # <<>>
    /\ Fits /\ NewDepth = 0
    /\ ~IsOperation(Statement)
    /\ Refuse

RefuseUnclosed ==
    /\ outcome = "reading" /\ read = Len(Lines)
    /\ buffer # <<>>
    /\ Refuse

Finish ==
    /\ outcome = "reading" /\ read = Len(Lines)
    /\ buffer = <<>>
    /\ outcome' = "done"
    /\ UNCHANGED <<written, read, buffer, start, depth, operations>>

Next ==
    \/ SkipLine \/ KeepLine \/ ParseStatement
    \/ RefuseLine \/ RefuseStatement \/ RefuseUnclosed
    \/ Finish

Spec == Init /\ [][Next]_vars

-----------------------------------------------------------------------------
(* Properties. *)

InString(i) == After(program, i).quote # "none"

(* The operations are the pieces of the first so many symbols of the       *)
(* program, cut at some places, each with the line on which it starts.     *)
CutAt(cut) ==
    /\ cut[0] = 0
    /\ \A k \in DOMAIN operations :
          LET operation == operations[k]
          IN  /\ operation.code = SubSeq(program, cut[k-1] + 1, cut[k])
              /\ ends[operation.line - 1] <= cut[k-1] /\ cut[k-1] < ends[operation.line]

(* What is read is what was written: a program that parse_text accepts,    *)
(* however it is broken into lines and whatever its comments say, gives    *)
(* operations that are made of all its symbols in their order, each of     *)
(* them well formed by itself and with the line that it starts on.  What   *)
(* stands in a string is no comment.                                       *)
ReadsWhatIsWritten ==
    outcome = "done" /\ (\A k \in DOMAIN comments : InString(ends[k]) => comments[k] = <<>>) =>
        /\ \E cut \in [0..Len(operations) -> 0..Len(program)] :
              CutAt(cut) /\ cut[Len(operations)] = Len(program)
        /\ \A k \in DOMAIN operations : IsOperation(operations[k].code)

(* One operation, well formed, on lines that break neither its strings nor *)
(* its beginning.                                                          *)
Formatted ==
    /\ IsOperation(program)
    /\ \A k \in DOMAIN comments : ends[k] # 1 /\ ~InString(ends[k])

(* An operation that is well formed is refused for one reason only: one of *)
(* its lines closes two delimiters more than it has opened before them;    *)
(* the -1 in _depth_delta.                                                 *)
RefusedForOneReason ==
    Formatted /\ outcome = "refused" =>
        \E k \in DOMAIN Lines : ClosesTwice(StripComment(Lines[k]))

(* docs/operations.md of the parser: calls can span multiple lines.  A     *)
(* call that is well formed is accepted wherever its lines are broken      *)
(* outside of its strings.                                                 *)
AcceptsInAnyLayout == Formatted => outcome # "refused"
=============================================================================
