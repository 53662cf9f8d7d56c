---------------------------- MODULE UNMSExecutor ----------------------------
(***************************************************************************)
(* Concurrent calls on UNMS/UISP controllers: each finds the controller of *)
(* its target in the inventory (network_lang/targets.py) and carries its   *)
(* operation out as one HTTP request (network_lang/adapters/ubnt_unms.py,  *)
(* classes UNMSExecutor and UNMSRestTransport).                            *)
(*                                                                         *)
(* The inventory is a file that people edit at any time.  What the         *)
(* controllers hold is left out: they take a request or refuse it.         *)
(* Requests and replies may be lost, replies be unreadable; a request that *)
(* was sent may reach the controller after its call has given up.          *)
(***************************************************************************)
EXTENDS Targets, UNMSPlan, ControllerUrls

CONSTANTS
    Calls,
    Operations,   \* the operations they may be given
    Words,        \* what a target may be called, the names of records included
    Inventories,  \* what the inventory file may come to hold
    Urls,         \* the URLs of records, as texts
    Parts         \* text of a URL -> its server and path

ASSUME CallsAssumption ==
    /\ Operations \subseteq OperationType
    /\ Endpoints \subseteq Seq(Segments)
    /\ Ids \subseteq Seq(Segments)
    /\ NoText \notin Urls
    /\ Parts \in [Urls -> Url]

ASSUME InventoriesAssumption ==
    \A inventory \in Inventories \ {NoInventory} :
        \A k \in 1..Len(inventory) :
            /\ Text(inventory[k], "url") \in Urls \cup {NoText}
            /\ Text(inventory[k], "name") \in Words \cup {NoText}

VARIABLES
    op,        \* call -> its operation
    target,    \* call -> the word it was given for its target
    device,    \* call -> the TargetDevice it has found
    pc,        \* call -> where it stands
    result,    \* call -> what it returned or raised
    request,   \* call -> the request it has made
    wire,      \* call -> what became of it
    inventory, \* the inventory file
    effects    \* history: call -> the changes controllers made for it

callVars == <<op, target, device, pc, result>>
vars == <<callVars, request, wire, inventory, effects>>

Plan(c) == PlanUNMS(op[c])
Acts(c) == Plan(c).supported /\ Plan(c).method # "GET"
Unresolved == Failure("unresolved")
NoRequest == [method |-> "none"]

(* session.request: the method, and the URL that resource_url makes. *)
RequestOf(c) ==
    [method |-> Plan(c).method,
     url    |-> ResourceUrl(ApiUrl(Parts[device[c].url]), Plan(c).path)]

Init ==
    /\ op \in [Calls -> Operations]
    /\ target \in [Calls -> Words]
    /\ device = [c \in Calls |-> Unresolved]
    /\ pc = [c \in Calls |-> "idle"]
    /\ result = [c \in Calls |-> "pending"]
    /\ request = [c \in Calls |-> NoRequest]
    /\ wire = [c \in Calls |-> "none"]
    /\ inventory \in Inventories
    /\ effects = [c \in Calls |-> <<>>]

-----------------------------------------------------------------------------
(* The call. *)

Return(c, code) ==
    /\ pc' = [pc EXCEPT ![c] = "done"]
    /\ result' = [result EXCEPT ![c] = code]

(* target_device: from here on the call keeps what it has found.  Devices  *)
(* of the other adapter are RouterOSExecutor's.                            *)
Resolve(c) ==
    /\ pc[c] = "idle"
    /\ device' = [device EXCEPT ![c] = TargetDevice(target[c], inventory)]
    /\ device'[c].adapter \in Adapters
    /\ pc' = [pc EXCEPT ![c] =
                 IF device'[c].adapter = "unms" THEN "bound" ELSE "handed over"]
    /\ UNCHANGED <<op, target, result, request, wire, inventory, effects>>

RefuseTarget(c) ==
    /\ pc[c] = "idle"
    /\ device' = [device EXCEPT ![c] = TargetDevice(target[c], inventory)]
    /\ device'[c].adapter \notin Adapters
    /\ Return(c, "TargetResolutionError")
    /\ UNCHANGED <<op, target, request, wire, inventory, effects>>

RefuseUnsupported(c) ==
    /\ pc[c] = "bound"
    /\ ~Plan(c).supported
    /\ Return(c, "UNSUPPORTED_OPERATION")
    /\ UNCHANGED <<op, target, device, request, wire, inventory, effects>>

Send(c) ==
    /\ pc[c] = "bound"
    /\ Plan(c).supported
    /\ pc' = [pc EXCEPT ![c] = "waiting"]
    /\ request' = [request EXCEPT ![c] = RequestOf(c)]
    /\ wire' = [wire EXCEPT ![c] = "sent"]
    /\ UNCHANGED <<op, target, device, result, inventory, effects>>

(* The reply has a status below 400 and is empty or JSON. *)
Receive(c) ==
    /\ pc[c] = "waiting"
    /\ wire[c] = "answered"
    /\ Return(c, "ok")
    /\ UNCHANGED <<op, target, device, request, wire, inventory, effects>>

(* Mutant of GiveUp: the request is sent again. *)
GiveUpRetrying(c) ==
    /\ pc[c] = "waiting"
    /\ pc' = [pc EXCEPT ![c] = "bound"]
    /\ UNCHANGED <<op, target, device, result, request, wire, inventory, effects>>

(* transport.request has raised: the controller refused, the reply was     *)
(* lost or could not be read, or the timeout expired with the request      *)
(* still under way.                                                        *)
GiveUp(c) ==
    /\ pc[c] = "waiting"
    /\ Return(c, "ADAPTER_ERROR")
    /\ UNCHANGED <<op, target, device, request, wire, inventory, effects>>

-----------------------------------------------------------------------------
(* The controllers and everybody else. *)

Serve(c) ==
    /\ wire[c] = "sent"
    /\ wire' = [wire EXCEPT ![c] = "answered"]
    /\ UNCHANGED <<callVars, request, inventory>>

ServeRead(c) ==
    /\ Serve(c)
    /\ request[c].method = "GET"
    /\ UNCHANGED effects

(* What the request says is done to what its URL names. *)
ServeChange(c) ==
    /\ Serve(c)
    /\ request[c].method # "GET"
    /\ effects' = [effects EXCEPT ![c] = Append(@, request[c])]

(* 404 for what is not there, or any refusal of the controller's own. *)
Reject(c) ==
    /\ wire[c] = "sent"
    /\ wire' = [wire EXCEPT ![c] = "rejected"]
    /\ UNCHANGED <<callVars, request, inventory, effects>>

EditInventory ==
    /\ inventory' \in Inventories
    /\ UNCHANGED <<callVars, request, wire, effects>>

-----------------------------------------------------------------------------
CallStep(c) ==
    \/ Resolve(c)
    \/ RefuseTarget(c)
    \/ RefuseUnsupported(c)
    \/ Send(c)
    \/ Receive(c)
    \/ GiveUp(c)

ControllerStep(c) ==
    \/ ServeRead(c)
    \/ ServeChange(c)
    \/ Reject(c)

Next ==
    \/ \E c \in Calls : CallStep(c) \/ ControllerStep(c)
    \/ EditInventory

Spec == Init /\ [][Next]_vars

-----------------------------------------------------------------------------
(* Properties. *)

Refusals == {"TargetResolutionError", "UNSUPPORTED_OPERATION"}
DeviceTexts ==
    [adapter : Adapters \cup {"unresolved", "no inventory", "not found",
                              "unsupported adapter", "no URL", "no API token"},
     url : Urls \cup {NoText}, name : Words \cup {NoText}]
DeviceType == {d \in DeviceTexts : d.adapter \in Adapters => d.url \in Urls}
RequestType == [method : {"GET", "POST", "PATCH", "DELETE"}, url : Url]

(* Every variable stays within its type: a device that is found always has *)
(* a URL, and what is requested and what is changed are at whole URLs.     *)
TypeOK ==
    /\ op \in [Calls -> Operations]
    /\ target \in [Calls -> Words]
    /\ device \in [Calls -> DeviceType]
    /\ pc \in [Calls -> {"idle", "bound", "handed over", "waiting", "done"}]
    /\ result \in [Calls -> {"pending", "ok", "ADAPTER_ERROR"} \cup Refusals]
    /\ request \in [Calls -> RequestType \cup {NoRequest}]
    /\ wire \in [Calls -> {"none", "sent", "answered", "rejected"}]
    /\ inventory \in Inventories
    /\ effects \in [Calls -> Seq(RequestType)]

(* The first usable id that the caller gave, in the order of the code's    *)
(* key list: an id of another kind must not take its place.                *)
Named(o, id) ==
    \E i \in DOMAIN IdKeys : o.ids[i] = id /\ \A j \in 1..i-1 : o.ids[j] = NoId

(* What an operation is about: an endpoint, or the resource of it that has *)
(* the id given.                                                           *)
Meant(o, method) ==
    LET endpoint == IF o.resource # NoEndpoint THEN o.resource ELSE o.endpoint
    IN  IF method = "POST" THEN {endpoint}
        ELSE {endpoint \o id : id \in {i \in Ids : Named(o, i)}}

Given(o) ==
    ({o.resource, o.endpoint} \cap Endpoints)
       \cup ({o.ids[i] : i \in DOMAIN IdKeys} \cap Ids)

(* Whatever is lost, late or edited meanwhile, a call changes at most one  *)
(* thing.  It does so under the API of the controller it has resolved, if  *)
(* it is given no URL of another; and what is changed is the endpoint that *)
(* its operation names or, unless it creates, the resource there with the  *)
(* id it is given, if those paths mean what they say: resource_url and     *)
(* urljoin take blanks, dots and whole URLs for something else.            *)
TouchesOnlyItsOwn ==
    \A c \in Calls :
        /\ Len(effects[c]) <= 1
        /\ \A k \in DOMAIN effects[c] :
              LET api == ApiUrl(Parts[device[c].url])
                  url == effects[c][k].url
              IN  /\ (\A path \in Given(op[c]) : Relative(path))
                        => url.server = api.server
                  /\ (/\ Plain(api.path)
                      /\ \A path \in Given(op[c]) : path # <<>> /\ Plain(path))
                        => url.path \in {api.path \o path :
                                            path \in Meant(op[c], effects[c][k].method)}

(* The name of a device that was found (TargetDevice.operation writes it   *)
(* into every operation built for it) leads back to the same device, as    *)
(* long as the inventory is well kept: else it may mean another record.    *)
NamesLeadBack ==
    \A c \in Calls :
        (/\ device[c].adapter \in Adapters
         /\ WellKept(inventory)
         /\ device[c] = TargetDevice(target[c], inventory))
            => TargetDevice(device[c].name, inventory) = device[c]

Outcome(c) ==
    CASE result[c] \in Refusals      -> "refused"
      [] result[c] = "ADAPTER_ERROR" -> "unknown"
      [] OTHER                       -> result[c]

Promise == INSTANCE OperationOutcome WITH
    kind    <- [c \in Calls |-> IF Acts(c) THEN "act" ELSE "read"],
    outcome <- [c \in Calls |-> Outcome(c)],
    applied <- [c \in Calls |-> Len(effects[c])]

(* Calls on a controller keep the promise of OperationOutcome, as those on *)
(* a router do: at most one effect, and a result that says truly whether.  *)
KeepsPromise == Promise!Spec

-----------------------------------------------------------------------------
(* The inductive invariant: where a call stands determines what has become *)
(* of its request and what a controller has done for it.                   *)

ControlFits(c) ==
    /\ pc[c] = "done" <=> result[c] # "pending"
    /\ pc[c] \in {"idle", "bound", "handed over"} => wire[c] = "none"
    /\ pc[c] = "waiting" => wire[c] # "none"
    /\ pc[c] \in {"bound", "waiting"} \/ wire[c] # "none" => device[c].url \in Urls
    /\ wire[c] # "none" =>
          /\ Plan(c).supported
          /\ request[c] = RequestOf(c)
          /\ result[c] \notin Refusals
    /\ result[c] = "ok" => wire[c] = "answered"

EffectFits(c) ==
    effects[c] = IF wire[c] = "answered" /\ Acts(c) THEN <<RequestOf(c)>> ELSE <<>>

Consistent == \A c \in Calls : ControlFits(c) /\ EffectFits(c)
=============================================================================
