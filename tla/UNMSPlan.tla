------------------------------ MODULE UNMSPlan ------------------------------
(***************************************************************************)
(* The planner of the UNMS/UISP controller: a pure function from an        *)
(* Operation to one request (network_lang/adapters/ubnt_unms.py,           *)
(* plan_unms_operation).                                                   *)
(*                                                                         *)
(* A dict is the set of its entries, with the keys as the controller has   *)
(* them; endpoints, ids and paths are as in ControllerUrls, without the    *)
(* slash that a path begins with.                                          *)
(***************************************************************************)
EXTENDS Integers, Sequences

CONSTANTS
    Endpoints,   \* endpoints that operations name
    Ids,         \* ids that they give
    Entries,     \* entries of dicts
    NoEndpoint,
    NoId,        \* no usable id: absent, blank or not a str
    NotADict     \* a param that is there and is no dict

ASSUME UNMSAssumption == NoEndpoint \notin Endpoints /\ NoId \notin Ids

IdKeys == <<"id", "device_id", "site_id", "client_id">>

Dict == SUBSET Entries

(* resource is what follows `controller' or `unms' in the operation's path,*)
(* endpoint the param of that name.  A dict that is absent is empty.       *)
OperationType ==
    [controller : BOOLEAN,
     resource   : Endpoints \cup {NoEndpoint},
     endpoint   : Endpoints \cup {NoEndpoint},
     action     : {"list", "get", "create", "update", "delete", "enable", "run"},
     ids        : [DOMAIN IdKeys -> Ids \cup {NoId}],
     match      : Dict \cup {NotADict},
     query      : Dict \cup {NotADict},
     data       : Dict \cup {NotADict}]

(* _controller_endpoint *)
ControllerEndpoint(op) ==
    IF ~op.controller THEN NoEndpoint
    ELSE IF op.resource # NoEndpoint THEN op.resource
    ELSE op.endpoint

(* Mutant of ResourceId: the id of another kind is preferred. *)
LastResourceId(op) ==
    LET usable == {i \in DOMAIN IdKeys : op.ids[i] # NoId}
    IN  IF usable = {} THEN NoId
        ELSE op.ids[CHOOSE i \in usable : \A j \in usable : j <= i]

(* _resource_id: the first that is usable. *)
ResourceId(op) ==
    LET usable == {i \in DOMAIN IdKeys : op.ids[i] # NoId}
    IN  IF usable = {} THEN NoId
        ELSE op.ids[CHOOSE i \in usable : \A j \in usable : i <= j]

(* _filters: an absent match is an empty dict, and a dict. *)
Filters(op) ==
    IF op.match # NotADict THEN op.match
    ELSE IF op.query # NotADict THEN op.query
    ELSE {}

(* _body *)
Body(op) == IF op.data # NotADict THEN op.data ELSE {}

Unsupported == [supported |-> FALSE]

Request(method, path, params, body) ==
    [supported |-> TRUE, method |-> method, path |-> path, params |-> params,
     body |-> body]

PlanGet(op, endpoint) ==
    IF ResourceId(op) # NoId THEN Request("GET", endpoint \o ResourceId(op), {}, {})
    ELSE IF Filters(op) # {} THEN Request("GET", endpoint, Filters(op), {})
    ELSE Unsupported

PlanCreate(op, endpoint) ==
    IF Body(op) = {} THEN Unsupported
    ELSE Request("POST", endpoint, {}, Body(op))

PlanUpdate(op, endpoint) ==
    IF ResourceId(op) = NoId \/ Body(op) = {} THEN Unsupported
    ELSE Request("PATCH", endpoint \o ResourceId(op), {}, Body(op))

PlanDelete(op, endpoint) ==
    IF ResourceId(op) = NoId THEN Unsupported
    ELSE Request("DELETE", endpoint \o ResourceId(op), {}, {})

(* plan_unms_operation *)
PlanUNMS(op) ==
    LET endpoint == ControllerEndpoint(op)
    IN  IF endpoint = NoEndpoint THEN Unsupported
        ELSE CASE op.action = "list"   -> Request("GET", endpoint, Filters(op), {})
               [] op.action = "get"    -> PlanGet(op, endpoint)
               [] op.action = "create" -> PlanCreate(op, endpoint)
               [] op.action = "update" -> PlanUpdate(op, endpoint)
               [] op.action = "delete" -> PlanDelete(op, endpoint)
               [] op.action \notin {"list", "get", "create", "update", "delete"} ->
                     Unsupported
=============================================================================
