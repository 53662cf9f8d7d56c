-------------------------- MODULE MCPreflightedCall --------------------------
(* Instances of PreflightedCall for TLC. *)
EXTENDS PreflightedCall, MCRouterOSExecutor

(* Rows have an interface that they lie on and a port, beside their name.  *)
PreflightFields == MCFields \cup {"interface", "port"}
PreflightValues == MCValues \cup {" "}
MCBlanks == {" ", "yes", "no"}

PreflightRow(name, interface) ==
    "name" :> name @@ "interface" :> interface @@ "port" :> interface
    @@ "disabled" :> "no"
PreflightRows == {PreflightRow(n, i) : n, i \in {"a", "b"}}
PreflightDefaultRow == PreflightRow("b", "a")

(* Changes of a row that an interface leads to: given directly or by the   *)
(* match; the match names another, or nothing; blanks; an id.              *)
Matches ==
    {EmptyDict, Disabled("no"), Named("b"), Named(" "),
     "interface" :> "a", "port" :> "a",
     "interface" :> "a" @@ "name" :> "b", "interface" :> " " @@ "name" :> "b",
     "port" :> "a" @@ "name" :> "b"}

NamedOperations ==
    {Op("rows", a, NoId, m, n, Named("b")) :
        a \in {"update", "delete", "disable"}, m \in Matches, n \in {"a", NoName, " "}}
    \cup {Op("rows", "update", "i1", m, n, Named("b")) : m \in Matches, n \in {"a", NoName}}
=============================================================================
