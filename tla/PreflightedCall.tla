--------------------------- MODULE PreflightedCall ---------------------------
(***************************************************************************)
(* A preflight that found no risk, then the operation: what the one judged *)
(* against what the other changes.  The preflight (TopologyPreflight)      *)
(* finds the interface of an operation by _operation_interface; the        *)
(* executor (RouterOSExecutor) finds the row by its own rules; between     *)
(* the two, and during both, rows are renamed, dropped and added.          *)
(***************************************************************************)
EXTENDS RouterOSExecutor

CONSTANTS
    Blanks   \* values that are blank strings, or no strings

ASSUME BlanksAssumption == Blanks \subseteq Values

VARIABLES
    judged,  \* call -> the interface that its preflight judged
    borne    \* history: call -> rows that have borne what was judged since

callerVars == <<judged, borne>>

Said(value) == value \notin Blanks \cup {NoName}
SaidBy(o, f) == f \in DOMAIN o.match /\ Said(o.match[f])

(* The field from which _operation_interface takes the interface: the name *)
(* given directly, then the first of three keys of the match.              *)
JudgedField(o) ==
    IF Said(o.name) THEN "name"
    ELSE IF SaidBy(o, "interface") THEN "interface"
    ELSE IF SaidBy(o, "name") THEN "name"
    ELSE "port"

(* _operation_interface *)
OperationInterface(o) ==
    IF Said(o.name) THEN o.name
    ELSE IF SaidBy(o, JudgedField(o)) THEN o.match[JudgedField(o)]
    ELSE NoName

(* The rows that bear the interface of an operation in the field that it   *)
(* was taken from.                                                         *)
RowsBearing(t, o) ==
    IF OperationInterface(o) = NoName THEN {}
    ELSE {i \in DOMAIN t : t[i][JudgedField(o)] = OperationInterface(o)}

InitCaller ==
    /\ Init
    /\ judged = [c \in Calls |-> NoName]
    /\ borne = [c \in Calls |-> {}]

Preflight(c) ==
    /\ pc[c] = "idle"
    /\ judged[c] = NoName
    /\ OperationInterface(op[c]) # NoName
    /\ judged' = [judged EXCEPT ![c] = OperationInterface(op[c])]
    /\ borne' = [borne EXCEPT ![c] = RowsBearing(table, op[c])]
    /\ UNCHANGED vars

Watch ==
    /\ judged' = judged
    /\ borne' = [c \in Calls |-> borne[c] \cup RowsBearing(table', op[c])]

(* Preflighted: the caller lets the executor run. *)
NextCaller ==
    \/ \E c \in Calls : Preflight(c)
    \/ \E c \in Calls : judged[c] # NoName /\ CallStep(c) /\ Watch
    \/ \E c \in Calls : DeviceStep(c) /\ Watch
    \/ Outside /\ Watch

SpecCaller == InitCaller /\ [][NextCaller]_<<vars, callerVars>>

(* The executor finds the row by what the preflight reads: not by an id,   *)
(* which the preflight never looks at, nor by a blank name, which it       *)
(* passes over and the planner does not.                                   *)
FoundByWhatIsRead(o) == o.id = NoId /\ o.name \notin Blanks

(* docs/topology-preflight.md: a preflight answers whether the operation   *)
(* targets the interface we think it targets.  It does in this sense: the  *)
(* row that is patched or deleted has borne, since the preflight, what was *)
(* judged, in the field that it was taken from, however the rows change.   *)
(* Where that field is not "name" (a match on the interface that a VLAN or *)
(* a bridge port lies on) the row may have another name than the one       *)
(* judged, even where the match gives that name as well.                   *)
ChangesWhatWasJudged ==
    \A c \in Calls : FoundByWhatIsRead(op[c]) =>
        \A k \in DOMAIN effects[c] :
            effects[c][k].method \in {"PATCH", "DELETE"}
                => effects[c][k].at \in borne[c]
=============================================================================
