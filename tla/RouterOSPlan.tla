---------------------------- MODULE RouterOSPlan ----------------------------
(***************************************************************************)
(* The RouterOS planner: a pure function from a neutral Operation to a     *)
(* plan, the short sequence of REST requests that carries it out           *)
(* (plan_routeros_operation and its helpers in                             *)
(* network_lang/adapters/mikrotik_routeros.py).                            *)
(*                                                                         *)
(* A REST path is a pair: the menu it lies under and the place `at' in     *)
(* that menu (the collection, a row id, or the placeholder that the        *)
(* executor replaces).  The tables of endpoint names and of key            *)
(* translations are data: what is kept of a resource path is the branch    *)
(* of the dispatch that it selects.                                        *)
(***************************************************************************)
EXTENDS Integers, Sequences

CONSTANTS
    Ids,      \* RouterOS internal row ids ("*1", "*2", ...)
    Fields,   \* keys of a row that filters and bodies mention
    Values    \* values those keys take

Collection == "collection"        \* the path of the menu itself
Command    == "command"           \* the path of a command under the menu
ResolvedId == "<resolved-id>"     \* the placeholder in a path
NoId       == "none"              \* no usable "id" (absent, empty, not a str)
NoName     == "none"              \* no usable "name"

ASSUME IdsAssumption ==
    Ids \cap {Collection, Command, ResolvedId, NoId} = {}

ASSUME FieldsAssumption ==
    /\ {"name", "disabled"} \subseteq Fields
    /\ {"yes", "no"} \subseteq Values
    /\ NoName \notin Values

(***************************************************************************)
(* Operations.  A dict of params restricted to Fields is a function whose  *)
(* domain is the set of keys present.                                      *)
(***************************************************************************)
Dict == UNION {[D -> Values] : D \in SUBSET Fields}
EmptyDict == [f \in {} |-> "none"]

(* The branches of the dispatch: a fixed read, the endpoint tables (rows   *)
(* or a settings record without an id), their commands, the fixed listings *)
(* with and without a create, the VLAN pair, and everything else.          *)
Menus == {"identity", "rows", "settings", "commands", "listing",
          "table", "vlans", "unmapped"}
EndpointMenus == {"rows", "settings"}

Actions == {"get", "list", "create", "update", "delete", "enable",
            "disable", "run", "lookup"}

OperationType ==
    [menu : Menus, action : Actions, id : Ids \cup {NoId, ResolvedId},
     match : Dict, name : Values \cup {NoName}, body : Dict]

Filters(op) == op.match

(* Mutant of ResourceFilters: the name counts only where there is no match. *)
ResourceFiltersOfMatch(op) ==
    IF op.name = NoName \/ op.match # EmptyDict
    THEN Filters(op)
    ELSE [f \in {"name"} |-> op.name]

ResourceFilters(op) ==
    IF op.name = NoName
    THEN Filters(op)
    ELSE [f \in DOMAIN Filters(op) \cup {"name"} |->
              IF f = "name" THEN op.name ELSE Filters(op)[f]]

(* RISK_BY_ACTION of network_lang/model.py, for the actions above. *)
Risk(op) ==
    CASE op.action \in {"list", "get"}                -> "read"
      [] op.action = "run"                            -> "observe"
      [] op.action \in {"create", "update", "enable"} -> "write"
      [] op.action \in {"delete", "disable"}          -> "destructive"
      [] OTHER                                        -> "unknown"

(***************************************************************************)
(* Plans.                                                                  *)
(***************************************************************************)
Methods == {"GET", "PUT", "PATCH", "POST", "DELETE"}

(* What a command is sent: the params of its operation, but for the target *)
(* and the names that its data may go by.                                  *)
CommandBodies ==
    [given : Dict, id : Ids \cup {NoId, ResolvedId}, match : Dict]

StepType ==
    {s \in [name : Actions, method : Methods, menu : Menus,
            at : Ids \cup {Collection, Command, ResolvedId},
            params : Dict, body : Dict \cup CommandBodies] :
        s.body \in Dict \/ s.method = "POST"}

PlanStep(op, method, at, params, body) ==
    [name |-> op.action, method |-> method, menu |-> op.menu, at |-> at,
     params |-> params, body |-> body]

Plan(capability, steps) == [capability |-> capability, steps |-> steps]

Supported(plan) == plan.capability \in {"supported", "supported_via_fallback"}

Unsupported == Plan("unsupported", <<>>)

(* Mutant of Get: the read is sent as a POST print. *)
GetByPost(op, at, params) ==
    Plan("supported", <<PlanStep(op, "POST", at, params, EmptyDict)>>)

Get(op, at, params) ==
    Plan("supported", <<PlanStep(op, "GET", at, params, EmptyDict)>>)

Write(op, method, at, body) ==
    Plan("supported", <<PlanStep(op, method, at, EmptyDict, body)>>)

(* A command carries its data and the params given directly, which win;    *)
(* id and match are such params, and are sent like the rest.               *)
CommandBody(op) ==
    [given |-> IF op.name = NoName
               THEN op.body
               ELSE [f \in DOMAIN op.body \cup {"name"} |->
                         IF f = "name" THEN op.name ELSE op.body[f]],
     id    |-> op.id,
     match |-> op.match]

Run(op) ==
    Plan("supported",
         <<PlanStep(op, "POST", Command, EmptyDict, CommandBody(op))>>)

LookupStep(op) ==
    [PlanStep(op, "GET", Collection, ResourceFilters(op), EmptyDict)
        EXCEPT !.name = "lookup"]

(* Mutant of Fallback: the write repeats the fields the row was found by. *)
FallbackRewritingTheMatch(op, method, body) ==
    LET found == ResourceFilters(op)
        both  == [f \in DOMAIN found \cup DOMAIN body |->
                      IF f \in DOMAIN body THEN body[f] ELSE found[f]]
    IN  Plan("supported_via_fallback",
             <<LookupStep(op), PlanStep(op, method, ResolvedId, EmptyDict, both)>>)

(* A read to learn the row's id, then the write on the placeholder path. *)
Fallback(op, method, body) ==
    Plan("supported_via_fallback",
         <<LookupStep(op), PlanStep(op, method, ResolvedId, EmptyDict, body)>>)

GetByIdOrMatch(op) ==
    IF op.id # NoId THEN Get(op, op.id, EmptyDict)
    ELSE IF ResourceFilters(op) = EmptyDict THEN Unsupported
    ELSE Get(op, Collection, ResourceFilters(op))

(* The three of _update_, _toggle_ and _delete_by_id_or_match. *)
WriteByIdOrMatch(op, method, body) ==
    IF op.id # NoId THEN Write(op, method, op.id, body)
    ELSE IF ResourceFilters(op) = EmptyDict THEN Unsupported
    ELSE Fallback(op, method, body)

UpdateByIdOrMatch(op) == WriteByIdOrMatch(op, "PATCH", op.body)
ToggleByIdOrMatch(op) ==
    WriteByIdOrMatch(op, "PATCH",
        [f \in {"disabled"} |-> IF op.action = "disable" THEN "yes" ELSE "no"])
DeleteByIdOrMatch(op) == WriteByIdOrMatch(op, "DELETE", EmptyDict)

Create(op) ==
    IF op.body = EmptyDict THEN Unsupported
    ELSE Write(op, "PUT", Collection, op.body)

Update(op) ==
    IF op.body = EmptyDict THEN Unsupported ELSE UpdateByIdOrMatch(op)

(* _plan_ppp_endpoint and its radius, routing, ip and interface twins. *)
PlanEndpoint(op) ==
    CASE op.action = "list"                 -> Get(op, Collection, Filters(op))
      [] op.action = "get"                  -> GetByIdOrMatch(op)
      [] op.action = "create"               -> Create(op)
      [] op.action = "update"               -> Update(op)
      [] op.action = "delete"               -> DeleteByIdOrMatch(op)
      [] op.action \in {"enable","disable"} -> ToggleByIdOrMatch(op)
      [] OTHER                              -> Unsupported

PlanRouterOSOperation(op) ==
    CASE op.menu = "identity" /\ op.action = "get" ->
            Get(op, Collection, EmptyDict)
      [] op.menu = "commands" /\ op.action = "run" -> Run(op)
      [] op.menu \in EndpointMenus -> PlanEndpoint(op)
      [] op.menu \in {"listing", "table"} /\ op.action = "list" ->
            Get(op, Collection, Filters(op))
      [] op.menu \in {"table", "vlans"} /\ op.action = "create" -> Create(op)
      [] op.menu = "vlans" /\ op.action = "update" -> Update(op)
      [] OTHER -> Unsupported

(* Whether carrying the operation out asks the device to change or run     *)
(* something: its plan has a request that is not a GET.                    *)
Acts(op) ==
    \E k \in DOMAIN PlanRouterOSOperation(op).steps :
        PlanRouterOSOperation(op).steps[k].method # "GET"
=============================================================================
