----------------------- MODULE RouterOSExecutor_proofs -----------------------
(***************************************************************************)
(* What every plan of the planner looks like, for every operation, and the *)
(* safety of RouterOSExecutor for any set of calls, operations and rows:   *)
(* TypeOK /\ Consistent is inductive, and implies what the runs check.     *)
(***************************************************************************)
EXTENDS PreflightedCall, TLAPS

(***************************************************************************)
(* The planner.                                                            *)
(***************************************************************************)
LEMMA EmptyDictType == EmptyDict \in Dict
  <1>1. EmptyDict \in [{} -> Values]
    BY DEF EmptyDict
  <1>2. {} \in SUBSET Fields
    OBVIOUS
  <1> QED BY <1>1, <1>2 DEF Dict

(* A plan with no request. *)
Nothing(plan) == plan = Unsupported

(* A plan of one request, on a path the operation fixes. *)
Direct(o, plan) ==
    \E step \in StepType :
        /\ plan = Plan("supported", <<step>>)
        /\ step.name = o.action
        /\ step.name # "lookup"
        /\ step.method \in {"PATCH", "DELETE"}
              => o.id # NoId /\ step.at = o.id
        /\ step.method = "GET" <=> o.action \in {"get", "list"}
        /\ step.menu = o.menu

(* A plan that learns the row's id, then changes that row. *)
ByLookup(o, plan) ==
    \E look, act \in StepType :
        /\ plan = Plan("supported_via_fallback", <<look, act>>)
        /\ look.name = "lookup" /\ look.method = "GET" /\ look.at = Collection
        /\ act.name = o.action /\ act.name # "lookup"
        /\ act.method \in {"PATCH", "DELETE"} /\ act.at = ResolvedId
        /\ o.id = NoId
        /\ o.action \notin {"get", "list"}

Shaped(o, plan) == Nothing(plan) \/ Direct(o, plan) \/ ByLookup(o, plan)

LEMMA FiltersType ==
    ASSUME NEW o \in OperationType
    PROVE  Filters(o) \in Dict /\ ResourceFilters(o) \in Dict
  <1>1. PICK D \in SUBSET Fields : o.match \in [D -> Values]
    BY DEF OperationType, Dict
  <1>2. Filters(o) \in Dict
    BY <1>1 DEF Filters, Dict
  <1>3. CASE o.name = NoName
    BY <1>2, <1>3 DEF ResourceFilters
  <1>4. CASE o.name # NoName
    <2>1. o.name \in Values
      BY <1>4 DEF OperationType
    <2>2. D \cup {"name"} \in SUBSET Fields
      BY FieldsAssumption
    <2>3. ResourceFilters(o) \in [D \cup {"name"} -> Values]
      BY <1>1, <1>4, <2>1 DEF ResourceFilters, Filters
    <2> QED BY <1>2, <2>2, <2>3 DEF Dict
  <1> QED BY <1>2, <1>3, <1>4

LEMMA CommandBodyType ==
    ASSUME NEW o \in OperationType
    PROVE  CommandBody(o) \in CommandBodies
  <1>1. PICK D \in SUBSET Fields : o.body \in [D -> Values]
    BY DEF OperationType, Dict
  <1>2. o.body \in Dict
    BY <1>1 DEF Dict
  <1>3. CommandBody(o).given \in Dict
    <2>1. CASE o.name = NoName
      BY <1>2, <2>1 DEF CommandBody
    <2>2. CASE o.name # NoName
      <3>1. o.name \in Values
        BY <2>2 DEF OperationType
      <3>2. D \cup {"name"} \in SUBSET Fields
        BY FieldsAssumption
      <3>3. CommandBody(o).given \in [D \cup {"name"} -> Values]
        BY <1>1, <2>2, <3>1 DEF CommandBody
      <3> QED BY <3>2, <3>3 DEF Dict
    <2> QED BY <2>1, <2>2
  <1>4. o.id \in Ids \cup {NoId, ResolvedId} /\ o.match \in Dict
    BY DEF OperationType
  <1> QED BY <1>3, <1>4 DEF CommandBody, CommandBodies

LEMMA ToggleBodyType ==
    ASSUME NEW o \in OperationType
    PROVE  [f \in {"disabled"} |-> IF o.action = "disable" THEN "yes" ELSE "no"]
              \in Dict
  <1>1. {"disabled"} \in SUBSET Fields
    BY FieldsAssumption
  <1>2. [f \in {"disabled"} |-> IF o.action = "disable" THEN "yes" ELSE "no"]
           \in [{"disabled"} -> Values]
    BY FieldsAssumption
  <1> QED BY <1>1, <1>2 DEF Dict

LEMMA GetShape ==
    ASSUME NEW o \in OperationType, o.action \in {"get", "list"},
           NEW at \in Ids \cup {Collection, ResolvedId}, NEW params \in Dict
    PROVE  Direct(o, Get(o, at, params))
  <1> DEFINE step == PlanStep(o, "GET", at, params, EmptyDict)
  <1>1. /\ step \in StepType /\ step.name = o.action
        /\ step.method = "GET" /\ step.menu = o.menu
    BY EmptyDictType
       DEF PlanStep, StepType, OperationType, Methods
  <1>2. Get(o, at, params) = Plan("supported", <<step>>)
    BY DEF Get
  <1> QED BY <1>1, <1>2 DEF Direct

LEMMA WriteShape ==
    ASSUME NEW o \in OperationType, o.action \notin {"get", "list", "lookup"},
           NEW m \in {"PUT", "PATCH", "DELETE"},
           NEW at \in Ids \cup {Collection, ResolvedId}, NEW body \in Dict,
           m # "PUT" => o.id # NoId /\ at = o.id
    PROVE  Direct(o, Write(o, m, at, body))
  <1> DEFINE step == PlanStep(o, m, at, EmptyDict, body)
  <1>1. /\ step \in StepType /\ step.name = o.action /\ step.method = m
        /\ step.at = at /\ step.menu = o.menu
    BY EmptyDictType
       DEF PlanStep, StepType, OperationType, Methods
  <1>2. Write(o, m, at, body) = Plan("supported", <<step>>)
    BY DEF Write
  <1> QED BY <1>1, <1>2 DEF Direct

LEMMA FallbackShape ==
    ASSUME NEW o \in OperationType, o.action \notin {"get", "list", "lookup"},
           NEW m \in {"PATCH", "DELETE"}, NEW body \in Dict, o.id = NoId
    PROVE  ByLookup(o, Fallback(o, m, body))
  <1> DEFINE get  == PlanStep(o, "GET", Collection, ResourceFilters(o), EmptyDict)
             look == LookupStep(o)
             act  == PlanStep(o, m, ResolvedId, EmptyDict, body)
  <1>1. act \in StepType /\ act.name = o.action /\ act.method = m
            /\ act.at = ResolvedId
    BY EmptyDictType
       DEF PlanStep, StepType, OperationType, Methods
  <1>2. get \in StepType /\ get.method = "GET" /\ get.at = Collection
    BY EmptyDictType, FiltersType
       DEF PlanStep, StepType, OperationType, Methods
  <1>3. /\ look = [get EXCEPT !.name = "lookup"]
        /\ look \in StepType /\ look.name = "lookup"
        /\ look.method = "GET" /\ look.at = Collection
    <2> HIDE DEF get
    <2>1. [get EXCEPT !.name = "lookup"] \in StepType
      BY <1>2 DEF StepType, Actions
    <2>2. look = [get EXCEPT !.name = "lookup"]
      BY DEF get, LookupStep
    <2> QED BY <1>2, <2>1, <2>2 DEF StepType
  <1>4. Fallback(o, m, body) = Plan("supported_via_fallback", <<look, act>>)
    BY DEF Fallback
  <1> HIDE DEF look, act
  <1> QED BY <1>1, <1>3, <1>4 DEF ByLookup

LEMMA WriteByIdOrMatchShape ==
    ASSUME NEW o \in OperationType, o.action \notin {"get", "list", "lookup"},
           NEW m \in {"PATCH", "DELETE"}, NEW body \in Dict
    PROVE  Shaped(o, WriteByIdOrMatch(o, m, body))
  <1>1. CASE o.id # NoId
    <2>1. o.id \in Ids \cup {Collection, ResolvedId}
      BY <1>1 DEF OperationType
    <2> QED BY <1>1, <2>1, WriteShape DEF WriteByIdOrMatch, Shaped
  <1>2. CASE o.id = NoId /\ ResourceFilters(o) = EmptyDict
    BY <1>2 DEF WriteByIdOrMatch, Shaped, Nothing
  <1>3. CASE o.id = NoId /\ ResourceFilters(o) # EmptyDict
    BY <1>3, FallbackShape DEF WriteByIdOrMatch, Shaped
  <1> QED BY <1>1, <1>2, <1>3

LEMMA CreateShape ==
    ASSUME NEW o \in OperationType, o.action = "create"
    PROVE  Shaped(o, Create(o))
  <1>1. o.body \in Dict
    BY DEF OperationType
  <1> QED BY <1>1, WriteShape DEF Create, Shaped, Nothing

LEMMA UpdateShape ==
    ASSUME NEW o \in OperationType, o.action = "update"
    PROVE  Shaped(o, Update(o))
  <1>1. o.body \in Dict
    BY DEF OperationType
  <1> QED BY <1>1, WriteByIdOrMatchShape
          DEF Update, UpdateByIdOrMatch, Shaped, Nothing

LEMMA GetByIdOrMatchShape ==
    ASSUME NEW o \in OperationType, o.action = "get"
    PROVE  Shaped(o, GetByIdOrMatch(o))
  <1>1. CASE o.id # NoId
    <2>1. o.id \in Ids \cup {Collection, ResolvedId}
      BY <1>1 DEF OperationType
    <2> QED BY <1>1, <2>1, EmptyDictType, GetShape DEF GetByIdOrMatch, Shaped
  <1>2. CASE o.id = NoId
    BY <1>2, FiltersType, GetShape DEF GetByIdOrMatch, Shaped, Nothing
  <1> QED BY <1>1, <1>2

LEMMA EndpointShape ==
    ASSUME NEW o \in OperationType
    PROVE  Shaped(o, PlanEndpoint(o))
  <1>1. CASE o.action = "list"
    BY <1>1, FiltersType, GetShape DEF PlanEndpoint, Shaped
  <1>2. CASE o.action = "get"
    BY <1>2, GetByIdOrMatchShape DEF PlanEndpoint
  <1>3. CASE o.action = "create"
    BY <1>3, CreateShape DEF PlanEndpoint
  <1>4. CASE o.action = "update"
    BY <1>4, UpdateShape DEF PlanEndpoint
  <1>5. CASE o.action = "delete"
    BY <1>5, EmptyDictType, WriteByIdOrMatchShape
       DEF PlanEndpoint, DeleteByIdOrMatch
  <1>6. CASE o.action \in {"enable", "disable"}
    BY <1>6, ToggleBodyType, WriteByIdOrMatchShape
       DEF PlanEndpoint, ToggleByIdOrMatch
  <1>7. CASE o.action \in {"run", "lookup"}
    BY <1>7 DEF PlanEndpoint, Shaped, Nothing
  <1> QED BY <1>1, <1>2, <1>3, <1>4, <1>5, <1>6, <1>7
          DEF OperationType, Actions

(***************************************************************************)
(* Every plan is empty, or one request on a path the operation fixes, or a *)
(* lookup followed by one change on the placeholder path.  In particular   *)
(* no plan has two requests that act, no acting step is taken for a        *)
(* lookup, and a patch or a delete names the operation's id or waits for a *)
(* resolved one.                                                           *)
(***************************************************************************)
THEOREM PlanShape ==
    ASSUME NEW o \in OperationType
    PROVE  Shaped(o, PlanRouterOSOperation(o))
  <1>1. CASE o.menu = "identity"
    <2>1. CASE o.action = "get"
      BY <1>1, <2>1, EmptyDictType, GetShape
         DEF PlanRouterOSOperation, EndpointMenus, Shaped
    <2>2. CASE o.action # "get"
      BY <1>1, <2>2 DEF PlanRouterOSOperation, Shaped, Nothing, EndpointMenus
    <2> QED BY <2>1, <2>2
  <1>2. CASE o.menu = "commands"
    <2>1. CASE o.action = "run"
      <3> DEFINE step == PlanStep(o, "POST", Command, EmptyDict, CommandBody(o))
      <3>1. /\ step \in StepType /\ step.name = o.action
            /\ step.method = "POST" /\ step.menu = o.menu
        BY EmptyDictType, CommandBodyType
       DEF PlanStep, StepType, OperationType, Methods
      <3>2. PlanRouterOSOperation(o) = Plan("supported", <<step>>)
        BY <1>2, <2>1 DEF PlanRouterOSOperation, EndpointMenus, Run
      <3> HIDE DEF step
      <3> QED BY <2>1, <3>1, <3>2 DEF Direct, Shaped
    <2>2. CASE o.action # "run"
      BY <1>2, <2>2 DEF PlanRouterOSOperation, Shaped, Nothing, EndpointMenus
    <2> QED BY <2>1, <2>2
  <1>3. CASE o.menu \in EndpointMenus
    BY <1>3, EndpointShape DEF PlanRouterOSOperation, EndpointMenus
  <1>4. CASE o.menu \in {"listing", "table"}
    <2>1. CASE o.action = "list"
      BY <1>4, <2>1, FiltersType, GetShape
         DEF PlanRouterOSOperation, Shaped, EndpointMenus
    <2>2. CASE o.action = "create"
      BY <1>4, <2>2, CreateShape
         DEF PlanRouterOSOperation, Shaped, Nothing, EndpointMenus
    <2>3. CASE o.action \notin {"list", "create"}
      BY <1>4, <2>3 DEF PlanRouterOSOperation, Shaped, Nothing, EndpointMenus
    <2> QED BY <2>1, <2>2, <2>3
  <1>5. CASE o.menu = "vlans"
    BY <1>5, CreateShape, UpdateShape
       DEF PlanRouterOSOperation, Shaped, Nothing, EndpointMenus
  <1>6. CASE o.menu = "unmapped"
    BY <1>6 DEF PlanRouterOSOperation, Shaped, Nothing, EndpointMenus
  <1> QED BY <1>1, <1>2, <1>3, <1>4, <1>5, <1>6
          DEF OperationType, Menus, EndpointMenus
(***************************************************************************)
(* What the requests of a plan carry.                                      *)
(***************************************************************************)
(* The fields of a row that an operation may write. *)
MayWrite(o) == IF o.action = "update" THEN DOMAIN o.body ELSE {"disabled"}

(* A lookup asks for the rows that match all of the operation's filters;   *)
(* a patch carries no field but those the operation may write.             *)
CarriesWhatItSays(o, plan) ==
    \A k \in DOMAIN plan.steps :
        /\ plan.steps[k].name = "lookup" =>
              plan.steps[k].params = ResourceFilters(o)
        /\ plan.steps[k].method = "PATCH" =>
              DOMAIN plan.steps[k].body \subseteq MayWrite(o)

LEMMA EmptyCarries ==
    ASSUME NEW o
    PROVE  CarriesWhatItSays(o, Unsupported)
  BY DEF CarriesWhatItSays, Unsupported, Plan

LEMMA GetCarries ==
    ASSUME NEW o \in OperationType, o.action # "lookup", NEW at, NEW params
    PROVE  CarriesWhatItSays(o, Get(o, at, params))
  BY DEF CarriesWhatItSays, Get, Plan, PlanStep

LEMMA WriteCarries ==
    ASSUME NEW o \in OperationType, o.action # "lookup", NEW m, NEW at, NEW body,
           m = "PATCH" => DOMAIN body \subseteq MayWrite(o)
    PROVE  CarriesWhatItSays(o, Write(o, m, at, body))
  BY DEF CarriesWhatItSays, Write, Plan, PlanStep

LEMMA FallbackCarries ==
    ASSUME NEW o \in OperationType, o.action # "lookup", NEW m, NEW body,
           m = "PATCH" => DOMAIN body \subseteq MayWrite(o)
    PROVE  CarriesWhatItSays(o, Fallback(o, m, body))
  <1> DEFINE look == LookupStep(o)
             act  == PlanStep(o, m, ResolvedId, EmptyDict, body)
  <1>1. look.method = "GET" /\ look.params = ResourceFilters(o)
    BY DEF LookupStep, PlanStep
  <1>2. act.name # "lookup" /\ act.method = m /\ act.body = body
    BY DEF PlanStep
  <1>3. Fallback(o, m, body).steps = <<look, act>>
    BY DEF Fallback, Plan
  <1> HIDE DEF look, act
  <1>4. DOMAIN <<look, act>> = 1..2 /\ <<look, act>>[1] = look /\ <<look, act>>[2] = act
    OBVIOUS
  <1> QED BY <1>1, <1>2, <1>3, <1>4 DEF CarriesWhatItSays

LEMMA WriteByIdOrMatchCarries ==
    ASSUME NEW o \in OperationType, o.action # "lookup", NEW m, NEW body,
           m = "PATCH" => DOMAIN body \subseteq MayWrite(o)
    PROVE  CarriesWhatItSays(o, WriteByIdOrMatch(o, m, body))
  BY EmptyCarries, WriteCarries, FallbackCarries DEF WriteByIdOrMatch

LEMMA CreateCarries ==
    ASSUME NEW o \in OperationType, o.action = "create"
    PROVE  CarriesWhatItSays(o, Create(o))
  BY EmptyCarries, WriteCarries DEF Create

LEMMA UpdateCarries ==
    ASSUME NEW o \in OperationType, o.action = "update"
    PROVE  CarriesWhatItSays(o, Update(o))
  BY EmptyCarries, WriteByIdOrMatchCarries DEF Update, UpdateByIdOrMatch, MayWrite

LEMMA EndpointCarries ==
    ASSUME NEW o \in OperationType
    PROVE  CarriesWhatItSays(o, PlanEndpoint(o))
  <1>1. CASE o.action = "list"
    BY <1>1, GetCarries DEF PlanEndpoint
  <1>2. CASE o.action = "get"
    BY <1>2, GetCarries, EmptyCarries DEF PlanEndpoint, GetByIdOrMatch
  <1>3. CASE o.action = "create"
    BY <1>3, CreateCarries DEF PlanEndpoint
  <1>4. CASE o.action = "update"
    BY <1>4, UpdateCarries DEF PlanEndpoint
  <1>5. CASE o.action = "delete"
    BY <1>5, WriteByIdOrMatchCarries DEF PlanEndpoint, DeleteByIdOrMatch
  <1>6. CASE o.action \in {"enable", "disable"}
    <2> DEFINE body == [f \in {"disabled"} |->
                           IF o.action = "disable" THEN "yes" ELSE "no"]
    <2>1. DOMAIN body \subseteq MayWrite(o)
      BY <1>6 DEF MayWrite
    <2>2. PlanEndpoint(o) = WriteByIdOrMatch(o, "PATCH", body)
      BY <1>6 DEF PlanEndpoint, ToggleByIdOrMatch
    <2> HIDE DEF body
    <2> QED BY <1>6, <2>1, <2>2, WriteByIdOrMatchCarries
  <1>7. CASE o.action \in {"run", "lookup"}
    BY <1>7, EmptyCarries DEF PlanEndpoint
  <1> QED BY <1>1, <1>2, <1>3, <1>4, <1>5, <1>6, <1>7
          DEF OperationType, Actions

(* A plan of any operation asks for all of its filters and patches nothing *)
(* but what the operation mentions.                                        *)
THEOREM PlanCarriesWhatItSays ==
    ASSUME NEW o \in OperationType
    PROVE  CarriesWhatItSays(o, PlanRouterOSOperation(o))
  <1> USE DEF EndpointMenus
  <1>1. CASE o.menu = "identity"
    BY <1>1, GetCarries, EmptyCarries DEF PlanRouterOSOperation
  <1>2. CASE o.menu = "commands"
    <2>1. CASE o.action = "run"
      BY <1>2, <2>1 DEF PlanRouterOSOperation, Run, CarriesWhatItSays, Plan, PlanStep
    <2>2. CASE o.action # "run"
      BY <1>2, <2>2, EmptyCarries DEF PlanRouterOSOperation
    <2> QED BY <2>1, <2>2
  <1>3. CASE o.menu \in EndpointMenus
    BY <1>3, EndpointCarries DEF PlanRouterOSOperation
  <1>4. CASE o.menu \in {"listing", "table"}
    BY <1>4, GetCarries, CreateCarries, EmptyCarries DEF PlanRouterOSOperation
  <1>5. CASE o.menu = "vlans"
    BY <1>5, CreateCarries, UpdateCarries, EmptyCarries DEF PlanRouterOSOperation
  <1>6. CASE o.menu = "unmapped"
    BY <1>6, EmptyCarries DEF PlanRouterOSOperation
  <1> QED BY <1>1, <1>2, <1>3, <1>4, <1>5, <1>6
          DEF OperationType, Menus

-----------------------------------------------------------------------------
(***************************************************************************)
(* The executor.                                                           *)
(***************************************************************************)
IInv == TypeOK /\ Consistent

(***************************************************************************)
(* The plan of a call, in the words of the invariant.                      *)
(***************************************************************************)
PlanFacts(c) ==
    /\ Last(c) \in 0..2
    /\ Planned(c) <=> Last(c) > 0
    /\ \A k \in 1..Last(c) : Steps(c)[k] \in StepType
    /\ Last(c) = 1 =>
          /\ Steps(c)[1].name # "lookup"
          /\ Steps(c)[1].method \in {"PATCH", "DELETE"} =>
                op[c].id # NoId /\ Steps(c)[1].at = op[c].id
    /\ Last(c) = 2 =>
          /\ Steps(c)[1].name = "lookup"
          /\ Steps(c)[1].method = "GET"
          /\ Steps(c)[1].at = Collection
          /\ Steps(c)[2].name # "lookup"
          /\ Steps(c)[2].method \in {"PATCH", "DELETE"}
          /\ Steps(c)[2].at = ResolvedId
          /\ op[c].id = NoId
    /\ Acts(op[c]) <=> Planned(c) /\ Steps(c)[Last(c)].method # "GET"
    /\ op[c].action \in {"get", "list"} => ~Acts(op[c])

LEMMA PlanFactsHold ==
    ASSUME NEW c \in Calls, op \in [Calls -> Operations]
    PROVE  PlanFacts(c)
  <1> DEFINE o == op[c]
             plan == PlanRouterOSOperation(o)
  <1>1. o \in OperationType
    BY ExecutorAssumption
  <1>2. Shaped(o, plan)
    BY <1>1, PlanShape
  <1>3. /\ Steps(c) = plan.steps
        /\ Planned(c) <=> Supported(plan)
        /\ Last(c) = Len(plan.steps)
        /\ Acts(o) <=> \E k \in DOMAIN plan.steps : plan.steps[k].method # "GET"
    BY DEF Steps, Planned, Last, Acts
  <1> HIDE DEF plan, o
  <1>4. CASE Nothing(plan)
    <2>1. plan.steps = <<>> /\ ~Supported(plan)
      BY <1>4 DEF Nothing, Unsupported, Plan, Supported
    <2> QED BY <1>3, <2>1 DEF PlanFacts, o
  <1>5. CASE Direct(o, plan)
    <2>1. PICK step \in StepType :
            /\ plan = Plan("supported", <<step>>)
            /\ step.name = o.action
            /\ step.name # "lookup"
            /\ step.method \in {"PATCH", "DELETE"}
                  => o.id # NoId /\ step.at = o.id
            /\ step.method = "GET" <=> o.action \in {"get", "list"}
      BY <1>5 DEF Direct
    <2>2. plan.steps = <<step>> /\ Supported(plan)
      BY <2>1 DEF Plan, Supported
    <2>3. /\ Last(c) = 1
          /\ Steps(c)[1] = step
          /\ Planned(c)
          /\ Acts(o) <=> step.method # "GET"
      BY <1>3, <2>2
    <2>4. Last(c) # 2 /\ Last(c) > 0 /\ Last(c) \in 0..2
      BY <2>3
    <2>5. \A k \in 1..Last(c) : Steps(c)[k] \in StepType
      <3>1. \A k \in 1..Last(c) : k = 1
        BY <2>3
      <3> QED BY <2>3, <3>1
    <2>6. Steps(c)[Last(c)] = step
      BY <2>3
    <2> QED BY <2>1, <2>3, <2>4, <2>5, <2>6 DEF PlanFacts, o
  <1>6. CASE ByLookup(o, plan)
    <2>1. PICK look \in StepType, act \in StepType :
            /\ plan = Plan("supported_via_fallback", <<look, act>>)
            /\ look.name = "lookup" /\ look.method = "GET"
            /\ look.at = Collection
            /\ act.name = o.action /\ act.name # "lookup"
            /\ act.method \in {"PATCH", "DELETE"} /\ act.at = ResolvedId
            /\ o.id = NoId
            /\ o.action \notin {"get", "list"}
      BY <1>6 DEF ByLookup
    <2>2. plan.steps = <<look, act>> /\ Supported(plan)
      BY <2>1 DEF Plan, Supported
    <2>3. /\ Last(c) = 2
          /\ Steps(c)[1] = look /\ Steps(c)[2] = act
          /\ Planned(c)
          /\ Acts(o)
      BY <1>3, <2>1, <2>2
    <2> QED BY <2>1, <2>3 DEF PlanFacts, o
  <1> QED BY <1>2, <1>4, <1>5, <1>6 DEF Shaped

(***************************************************************************)
(* What the operators of the device return.                                *)
(***************************************************************************)
LEMMA PatchedType ==
    ASSUME NEW row \in Row, NEW body \in Dict
    PROVE  Patched(row, body) \in Row
  <1>1. PICK D \in SUBSET Fields : body \in [D -> Values]
    BY DEF Dict
  <1> QED BY <1>1 DEF Patched, Row

LEMMA WrittenType ==
    ASSUME NEW t \in Table, NEW i \in Ids, NEW row \in Row
    PROVE  Written(t, i, row) \in Table /\ DOMAIN Written(t, i, row) = DOMAIN t \cup {i}
  <1>1. PICK S \in SUBSET Ids : t \in [S -> Row]
    BY DEF Table
  <1>2. Written(t, i, row) \in [S \cup {i} -> Row]
    BY <1>1 DEF Written
  <1>3. S \cup {i} \in SUBSET Ids
    OBVIOUS
  <1> QED BY <1>1, <1>2, <1>3 DEF Table

LEMMA RestrictedType ==
    ASSUME NEW t \in Table, NEW S \in SUBSET DOMAIN t
    PROVE  Restricted(t, S) \in Table /\ DOMAIN Restricted(t, S) = S
  <1>1. PICK D \in SUBSET Ids : t \in [D -> Row]
    BY DEF Table
  <1>2. Restricted(t, S) \in [S -> Row] /\ S \in SUBSET Ids
    BY <1>1 DEF Restricted
  <1> QED BY <1>2 DEF Table

LEMMA RowType ==
    ASSUME NEW t \in Table, NEW i \in DOMAIN t
    PROVE  i \in Ids /\ t[i] \in Row
  BY DEF Table

LEMMA DisturbType ==
    ASSUME table \in Table, spent \in SUBSET Ids, DOMAIN table \subseteq spent,
           Disturb
    PROVE  table' \in Table /\ spent' \in SUBSET Ids /\ DOMAIN table' \subseteq spent'
  <1>1. ASSUME NEW i \in Ids \ spent, NEW row \in OutsideRows,
               table' = Written(table, i, row), spent' = spent \cup {i}
        PROVE  /\ table' \in Table /\ spent' \in SUBSET Ids
               /\ DOMAIN table' \subseteq spent'
    <2>1. row \in Row /\ i \in Ids
      BY ExecutorAssumption
    <2>2. table' \in Table /\ DOMAIN table' = DOMAIN table \cup {i}
      BY <1>1, <2>1, WrittenType
    <2> QED BY <1>1, <2>1, <2>2
  <1>2. ASSUME NEW i \in DOMAIN table,
               table' = Restricted(table, DOMAIN table \ {i}), spent' = spent
        PROVE  /\ table' \in Table /\ spent' \in SUBSET Ids
               /\ DOMAIN table' \subseteq spent'
    BY <1>2, RestrictedType
  <1>3. ASSUME NEW i \in DOMAIN table, NEW row \in OutsideRows,
               table' = Written(table, i, row), spent' = spent
        PROVE  /\ table' \in Table /\ spent' \in SUBSET Ids
               /\ DOMAIN table' \subseteq spent'
    <2>1. row \in Row /\ i \in Ids
      BY RowType, ExecutorAssumption
    <2>2. table' \in Table /\ DOMAIN table' = DOMAIN table \cup {i}
      BY <1>3, <2>1, WrittenType
    <2> QED BY <1>3, <2>2
  <1> QED BY <1>1, <1>2, <1>3 DEF Disturb

LEMMA VerdictFound ==
    ASSUME NEW rows \in SUBSET (Ids \cup {NoId})
    PROVE  /\ LookupVerdict(rows) \in LookupErrors \cup {"found"}
           /\ LookupVerdict(rows) = "found" =>
                 \E i \in Ids : rows = {i} /\ i = CHOOSE j \in rows : TRUE
  <1>1. LookupVerdict(rows) \in LookupErrors \cup {"found"}
    BY DEF LookupVerdict, LookupErrors
  <1>2. ASSUME LookupVerdict(rows) = "found"
        PROVE  \E i \in Ids : rows = {i} /\ i = CHOOSE j \in rows : TRUE
    <2>1. rows # {} /\ (\A i, j \in rows : i = j) /\ rows # {NoId}
      BY <1>2 DEF LookupVerdict
    <2>2. PICK i \in rows : TRUE
      BY <2>1
    <2>3. rows = {i} /\ i \in Ids
      BY <2>1, <2>2
    <2> QED BY <2>3
  <1> QED BY <1>1, <1>2

LEMMA InitInv == Init => IInv
  <1> SUFFICES ASSUME Init PROVE IInv
    OBVIOUS
  <1>1. table \in Table
    BY ExecutorAssumption DEF Init, Table
  <1>2. TypeOK
    BY <1>1 DEF Init, TypeOK, Pending, Table, Data, ResultType, Effect
  <1>3. ASSUME NEW c \in Calls PROVE CallFits(c)
    <2>1. PlanFacts(c)
      BY PlanFactsHold DEF Init
    <2> QED BY <2>1
         DEF Init, CallFits, ControlFits, EffectFits, LookupFits, OutputFits,
             ResultFits, PlanFacts, Served, OnTheWire, Pending, Refusals,
             LookupErrors
  <1> QED BY <1>2, <1>3 DEF IInv, Consistent

(***************************************************************************)
(* A step of one call leaves the facts about the others alone.             *)
(***************************************************************************)
Untouched(c) ==
    /\ op' = op
    /\ pc'[c] = pc[c] /\ next'[c] = next[c] /\ resolved'[c] = resolved[c]
    /\ outputs'[c] = outputs[c] /\ result'[c] = result[c]
    /\ wire'[c] = wire[c] /\ reply'[c] = reply[c]
    /\ effects'[c] = effects[c] /\ seen'[c] = seen[c]

LEMMA SamePlan ==
    ASSUME NEW c \in Calls, op' = op
    PROVE  /\ Steps(c)' = Steps(c)
           /\ Last(c)' = Last(c)
           /\ Planned(c)' <=> Planned(c)
  BY DEF Steps, Last, Planned

LEMMA Frame ==
    ASSUME NEW c \in Calls, CallFits(c), Untouched(c)
    PROVE  CallFits(c)'
  <1>1. /\ Steps(c)' = Steps(c)
        /\ Last(c)' = Last(c)
        /\ Planned(c)' <=> Planned(c)
    BY SamePlan DEF Untouched
  <1>2. Step(c)' = Step(c)
    BY <1>1 DEF Untouched, Step
  <1>3. Served(c)' <=> Served(c)
    BY <1>1 DEF Served, Untouched
  <1>4. ControlFits(c)'
    BY <1>1, <1>2 DEF Untouched, CallFits, ControlFits
  <1>5. EffectFits(c)'
    BY <1>1, <1>3 DEF Untouched, CallFits, EffectFits, RightRow
  <1>6. LookupFits(c)'
    BY <1>1 DEF Untouched, CallFits, LookupFits
  <1>7. OutputFits(c)'
    BY <1>1 DEF Untouched, CallFits, OutputFits
  <1>8. ResultFits(c)'
    BY <1>1, <1>3 DEF Untouched, CallFits, ResultFits
  <1> QED BY <1>4, <1>5, <1>6, <1>7, <1>8 DEF CallFits

LEMMA Locality ==
    ASSUME NEW c \in Calls, TypeOK, CallStep(c) \/ DeviceStep(c)
    PROVE  op' = op /\ \A d \in Calls \ {c} : Untouched(d)
  <1> USE DEF TypeOK, Untouched, callVars, deviceVars
  <1>1. CASE RefuseUnsupported(c)
    BY <1>1 DEF RefuseUnsupported, Return
  <1>2. CASE Begin(c)
    BY <1>2 DEF Begin
  <1>3. CASE Send(c)
    BY <1>3 DEF Send
  <1>4. CASE RefuseUnresolved(c)
    BY <1>4 DEF RefuseUnresolved, Return
  <1>5. CASE Resolve(c)
    BY <1>5 DEF Resolve, Receive
  <1>6. CASE RefuseLookup(c)
    BY <1>6 DEF RefuseLookup, Receive, Return
  <1>7. CASE KeepOutput(c)
    BY <1>7 DEF KeepOutput, Receive
  <1>8. CASE GiveUp(c)
    BY <1>8 DEF GiveUp, Return
  <1>9. CASE Finish(c)
    BY <1>9 DEF Finish, Return
  <1>10. CASE ServeGet(c)
    BY <1>10 DEF ServeGet, Answer
  <1>11. CASE ServePut(c)
    BY <1>11 DEF ServePut, Answer, Record
  <1>12. CASE ServePatch(c)
    BY <1>12 DEF ServePatch, Answer, Record
  <1>13. CASE ServeDelete(c)
    BY <1>13 DEF ServeDelete, Answer, Record
  <1>14. CASE ServeCommand(c)
    BY <1>14 DEF ServeCommand, Answer, Record
  <1>15. CASE Reject(c)
    BY <1>15 DEF Reject
  <1> QED BY <1>1, <1>2, <1>3, <1>4, <1>5, <1>6, <1>7, <1>8, <1>9,
            <1>10, <1>11, <1>12, <1>13, <1>14, <1>15 DEF CallStep, DeviceStep

LEMMA OneCall ==
    ASSUME NEW c \in Calls, IInv, TypeOK', CallFits(c)',
           \A d \in Calls \ {c} : Untouched(d)
    PROVE  IInv'
  <1>1. ASSUME NEW d \in Calls \ {c} PROVE CallFits(d)'
    BY Frame DEF IInv, Consistent
  <1> QED BY <1>1 DEF IInv, Consistent

(* The facts every step starts from. *)
LEMMA Given ==
    ASSUME NEW c \in Calls, IInv
    PROVE  PlanFacts(c) /\ CallFits(c) /\ TypeOK /\ next[c] \in 1..3
  BY PlanFactsHold DEF IInv, Consistent, TypeOK

LEMMA ReturnType ==
    ASSUME NEW c \in Calls, TypeOK, NEW r \in ResultType, Return(c, r),
           UNCHANGED <<op, next, resolved, outputs, wire, reply, deviceVars>>
    PROVE  /\ TypeOK'
           /\ pc'[c] = "done" /\ result'[c] = r
  BY DEF TypeOK, Return, deviceVars

LEMMA ErrorType ==
    ASSUME NEW code \in Refusals \cup {"ADAPTER_ERROR"}
    PROVE  Error(code) \in ResultType /\ Error(code).code = code
  BY DEF Error, ResultType

-----------------------------------------------------------------------------
(* The steps of the executor. *)

LEMMA RefuseUnsupportedStep ==
    ASSUME NEW c \in Calls, IInv, RefuseUnsupported(c)
    PROVE  IInv'
  <1>1. PlanFacts(c) /\ CallFits(c) /\ TypeOK /\ next[c] \in 1..3
    BY Given
  <1>2. op' = op /\ \A d \in Calls \ {c} : Untouched(d)
    BY <1>1, Locality DEF CallStep
  <1>3. Steps(c)' = Steps(c) /\ Last(c)' = Last(c) /\ (Planned(c)' <=> Planned(c))
    BY <1>2, SamePlan
  <1>4. /\ pc[c] = "idle"
        /\ ~Planned(c)
        /\ pc'[c] = "done"
        /\ next'[c] = next[c]
        /\ resolved'[c] = resolved[c]
        /\ outputs'[c] = outputs[c]
        /\ result'[c] = Error("UNSUPPORTED_OPERATION")
        /\ wire'[c] = wire[c]
        /\ reply'[c] = reply[c]
        /\ effects'[c] = effects[c]
        /\ seen'[c] = seen[c]
        /\ op'[c] = op[c]
    BY <1>1 DEF RefuseUnsupported, Return, Planned, TypeOK, callVars, deviceVars
  <1>5. TypeOK'
    <2>1. Error("UNSUPPORTED_OPERATION") \in ResultType
      BY <1>1, ErrorType DEF Refusals, LookupErrors, TypeOK, Ok, ResultType
    <2> QED BY <1>1, <2>1, ReturnType DEF RefuseUnsupported
  <1>6. ControlFits(c)'
    BY <1>1, <1>3, <1>4
       DEF CallFits, ControlFits, PlanFacts, Step, OnTheWire, Pending, Error, Ok
  <1>7. EffectFits(c)'
    BY <1>1, <1>3, <1>4
       DEF CallFits, ControlFits, EffectFits, PlanFacts, Served, OnTheWire, RightRow
  <1>8. LookupFits(c)'
    BY <1>1, <1>3, <1>4
       DEF CallFits, ControlFits, LookupFits, PlanFacts, OnTheWire
  <1>9. OutputFits(c)'
    BY <1>1, <1>3, <1>4
       DEF CallFits, ControlFits, OutputFits, PlanFacts, OnTheWire
  <1>10. ResultFits(c)'
    BY <1>1, <1>3, <1>4
       DEF CallFits, ControlFits, ResultFits, PlanFacts, Served, OnTheWire,
           Refusals, LookupErrors, Pending, Error, Ok
  <1> QED BY <1>2, <1>5, <1>6, <1>7, <1>8, <1>9, <1>10, OneCall DEF CallFits

LEMMA BeginStep ==
    ASSUME NEW c \in Calls, IInv, Begin(c)
    PROVE  IInv'
  <1>1. PlanFacts(c) /\ CallFits(c) /\ TypeOK /\ next[c] \in 1..3
    BY Given
  <1>2. op' = op /\ \A d \in Calls \ {c} : Untouched(d)
    BY <1>1, Locality DEF CallStep
  <1>3. Steps(c)' = Steps(c) /\ Last(c)' = Last(c) /\ (Planned(c)' <=> Planned(c))
    BY <1>2, SamePlan
  <1>4. /\ pc[c] = "idle"
        /\ Planned(c)
        /\ pc'[c] = "ready"
        /\ next'[c] = next[c]
        /\ resolved'[c] = resolved[c]
        /\ outputs'[c] = outputs[c]
        /\ result'[c] = result[c]
        /\ wire'[c] = wire[c]
        /\ reply'[c] = reply[c]
        /\ effects'[c] = effects[c]
        /\ seen'[c] = seen[c]
        /\ op'[c] = op[c]
    BY <1>1 DEF Begin, Planned, TypeOK, callVars, deviceVars
  <1>5. TypeOK'
    BY <1>1, <1>3, <1>4 DEF Begin, TypeOK, callVars, deviceVars
  <1>6. ControlFits(c)'
    BY <1>1, <1>3, <1>4
       DEF CallFits, ControlFits, PlanFacts, Step, OnTheWire, Pending, Error, Ok
  <1>7. EffectFits(c)'
    BY <1>1, <1>3, <1>4
       DEF CallFits, ControlFits, EffectFits, PlanFacts, Served, OnTheWire, RightRow
  <1>8. LookupFits(c)'
    BY <1>1, <1>3, <1>4
       DEF CallFits, ControlFits, LookupFits, PlanFacts, OnTheWire
  <1>9. OutputFits(c)'
    BY <1>1, <1>3, <1>4
       DEF CallFits, ControlFits, OutputFits, PlanFacts, OnTheWire
  <1>10. ResultFits(c)'
    BY <1>1, <1>3, <1>4
       DEF CallFits, ControlFits, ResultFits, PlanFacts, Served, OnTheWire,
           Refusals, LookupErrors, Pending, Error, Ok
  <1> QED BY <1>2, <1>5, <1>6, <1>7, <1>8, <1>9, <1>10, OneCall DEF CallFits

LEMMA SendStep ==
    ASSUME NEW c \in Calls, IInv, Send(c)
    PROVE  IInv'
  <1>1. PlanFacts(c) /\ CallFits(c) /\ TypeOK /\ next[c] \in 1..3
    BY Given
  <1>2. op' = op /\ \A d \in Calls \ {c} : Untouched(d)
    BY <1>1, Locality DEF CallStep
  <1>3. Steps(c)' = Steps(c) /\ Last(c)' = Last(c) /\ (Planned(c)' <=> Planned(c))
    BY <1>2, SamePlan
  <1>4. /\ pc[c] = "ready"
        /\ next[c] <= Last(c)
        /\ Step(c).at = ResolvedId => resolved[c] # NoId
        /\ pc'[c] = "waiting"
        /\ next'[c] = next[c]
        /\ resolved'[c] = resolved[c]
        /\ outputs'[c] = outputs[c]
        /\ result'[c] = result[c]
        /\ wire'[c] = "sent"
        /\ reply'[c] = reply[c]
        /\ effects'[c] = effects[c]
        /\ seen'[c] = seen[c]
        /\ op'[c] = op[c]
    BY <1>1 DEF Send, Last, TypeOK, callVars, deviceVars
  <1>5. TypeOK'
    BY <1>1, <1>3, <1>4 DEF Send, TypeOK, callVars, deviceVars
  <1>6. ControlFits(c)'
    BY <1>1, <1>3, <1>4
       DEF CallFits, ControlFits, PlanFacts, Step, OnTheWire, Pending, Error, Ok
  <1>7. EffectFits(c)'
    BY <1>1, <1>3, <1>4
       DEF CallFits, ControlFits, EffectFits, PlanFacts, Served, OnTheWire, RightRow
  <1>8. LookupFits(c)'
    BY <1>1, <1>3, <1>4
       DEF CallFits, ControlFits, LookupFits, PlanFacts, OnTheWire
  <1>9. OutputFits(c)'
    BY <1>1, <1>3, <1>4
       DEF CallFits, ControlFits, OutputFits, PlanFacts, OnTheWire
  <1>10. ResultFits(c)'
    BY <1>1, <1>3, <1>4
       DEF CallFits, ControlFits, ResultFits, PlanFacts, Served, OnTheWire,
           Refusals, LookupErrors, Pending, Error, Ok
  <1> QED BY <1>2, <1>5, <1>6, <1>7, <1>8, <1>9, <1>10, OneCall DEF CallFits

LEMMA RefuseUnresolvedStep ==
    ASSUME NEW c \in Calls, IInv, RefuseUnresolved(c)
    PROVE  IInv'
  <1>1. PlanFacts(c) /\ CallFits(c) /\ TypeOK /\ next[c] \in 1..3
    BY Given
  <1>2. op' = op /\ \A d \in Calls \ {c} : Untouched(d)
    BY <1>1, Locality DEF CallStep
  <1>3. Steps(c)' = Steps(c) /\ Last(c)' = Last(c) /\ (Planned(c)' <=> Planned(c))
    BY <1>2, SamePlan
  <1>4. /\ pc[c] = "ready"
        /\ next[c] <= Last(c)
        /\ pc'[c] = "done"
        /\ next'[c] = next[c]
        /\ resolved'[c] = resolved[c]
        /\ outputs'[c] = outputs[c]
        /\ result'[c] = Error("LOOKUP_NOT_RESOLVED")
        /\ wire'[c] = wire[c]
        /\ reply'[c] = reply[c]
        /\ effects'[c] = effects[c]
        /\ seen'[c] = seen[c]
        /\ op'[c] = op[c]
    BY <1>1 DEF RefuseUnresolved, Return, Last, TypeOK, callVars, deviceVars
  <1>5. TypeOK'
    <2>1. Error("LOOKUP_NOT_RESOLVED") \in ResultType
      BY <1>1, ErrorType DEF Refusals, LookupErrors, TypeOK, Ok, ResultType
    <2> QED BY <1>1, <2>1, ReturnType DEF RefuseUnresolved
  <1>6. ControlFits(c)'
    BY <1>1, <1>3, <1>4
       DEF CallFits, ControlFits, PlanFacts, Step, OnTheWire, Pending, Error, Ok
  <1>7. EffectFits(c)'
    BY <1>1, <1>3, <1>4
       DEF CallFits, ControlFits, EffectFits, PlanFacts, Served, OnTheWire, RightRow
  <1>8. LookupFits(c)'
    BY <1>1, <1>3, <1>4
       DEF CallFits, ControlFits, LookupFits, PlanFacts, OnTheWire
  <1>9. OutputFits(c)'
    BY <1>1, <1>3, <1>4 DEF CallFits, OutputFits
  <1>10. ResultFits(c)'
    BY <1>1, <1>3, <1>4
       DEF CallFits, ControlFits, ResultFits, PlanFacts, Served, OnTheWire,
           Refusals, LookupErrors, Pending, Error, Ok
  <1> QED BY <1>2, <1>5, <1>6, <1>7, <1>8, <1>9, <1>10, OneCall DEF CallFits

LEMMA GiveUpStep ==
    ASSUME NEW c \in Calls, IInv, GiveUp(c)
    PROVE  IInv'
  <1>1. PlanFacts(c) /\ CallFits(c) /\ TypeOK /\ next[c] \in 1..3
    BY Given
  <1>2. op' = op /\ \A d \in Calls \ {c} : Untouched(d)
    BY <1>1, Locality DEF CallStep
  <1>3. Steps(c)' = Steps(c) /\ Last(c)' = Last(c) /\ (Planned(c)' <=> Planned(c))
    BY <1>2, SamePlan
  <1>4. /\ pc[c] = "waiting"
        /\ pc'[c] = "done"
        /\ next'[c] = next[c]
        /\ resolved'[c] = resolved[c]
        /\ outputs'[c] = outputs[c]
        /\ result'[c] = Error("ADAPTER_ERROR")
        /\ wire'[c] = wire[c]
        /\ reply'[c] = reply[c]
        /\ effects'[c] = effects[c]
        /\ seen'[c] = seen[c]
        /\ op'[c] = op[c]
    BY <1>1 DEF GiveUp, Return, TypeOK, callVars, deviceVars
  <1>5. TypeOK'
    <2>1. Error("ADAPTER_ERROR") \in ResultType
      BY <1>1, ErrorType DEF Refusals, LookupErrors, TypeOK, Ok, ResultType
    <2> QED BY <1>1, <2>1, ReturnType DEF GiveUp
  <1>6. ControlFits(c)'
    BY <1>1, <1>3, <1>4
       DEF CallFits, ControlFits, PlanFacts, Step, OnTheWire, Pending, Error, Ok
  <1>7. EffectFits(c)'
    BY <1>1, <1>3, <1>4
       DEF CallFits, ControlFits, EffectFits, PlanFacts, Served, OnTheWire, RightRow
  <1>8. LookupFits(c)'
    BY <1>1, <1>3, <1>4
       DEF CallFits, ControlFits, LookupFits, PlanFacts, OnTheWire
  <1>9. OutputFits(c)'
    BY <1>1, <1>3, <1>4
       DEF CallFits, ControlFits, OutputFits, PlanFacts, OnTheWire
  <1>10. ResultFits(c)'
    <2>1. result'[c].code = "ADAPTER_ERROR"
      BY <1>4, ErrorType
    <2> QED BY <2>1 DEF ResultFits, Refusals, LookupErrors
  <1> QED BY <1>2, <1>5, <1>6, <1>7, <1>8, <1>9, <1>10, OneCall DEF CallFits

LEMMA FinishStep ==
    ASSUME NEW c \in Calls, IInv, Finish(c)
    PROVE  IInv'
  <1>1. PlanFacts(c) /\ CallFits(c) /\ TypeOK /\ next[c] \in 1..3
    BY Given
  <1>2. op' = op /\ \A d \in Calls \ {c} : Untouched(d)
    BY <1>1, Locality DEF CallStep
  <1>3. Steps(c)' = Steps(c) /\ Last(c)' = Last(c) /\ (Planned(c)' <=> Planned(c))
    BY <1>2, SamePlan
  <1>4. /\ pc[c] = "ready"
        /\ next[c] > Last(c)
        /\ pc'[c] = "done"
        /\ next'[c] = next[c]
        /\ resolved'[c] = resolved[c]
        /\ outputs'[c] = outputs[c]
        /\ result'[c] = Ok(outputs[c])
        /\ wire'[c] = wire[c]
        /\ reply'[c] = reply[c]
        /\ effects'[c] = effects[c]
        /\ seen'[c] = seen[c]
        /\ op'[c] = op[c]
    BY <1>1 DEF Finish, Return, Last, TypeOK, callVars, deviceVars
  <1>5. TypeOK'
    <2>1. Ok(outputs[c]) \in ResultType
      BY <1>1, ErrorType DEF Refusals, LookupErrors, TypeOK, Ok, ResultType
    <2> QED BY <1>1, <2>1, ReturnType DEF Finish
  <1>6. ControlFits(c)'
    BY <1>1, <1>3, <1>4
       DEF CallFits, ControlFits, PlanFacts, Step, OnTheWire, Pending, Error, Ok
  <1>7. EffectFits(c)'
    BY <1>1, <1>3, <1>4
       DEF CallFits, ControlFits, EffectFits, PlanFacts, Served, OnTheWire, RightRow
  <1>8. LookupFits(c)'
    BY <1>1, <1>3, <1>4
       DEF CallFits, ControlFits, LookupFits, PlanFacts, OnTheWire
  <1>9. OutputFits(c)'
    BY <1>1, <1>3, <1>4
       DEF CallFits, ControlFits, OutputFits, PlanFacts, OnTheWire
  <1>10. ResultFits(c)'
    BY <1>1, <1>3, <1>4
       DEF CallFits, ControlFits, ResultFits, PlanFacts, Served, OnTheWire,
           Refusals, LookupErrors, Pending, Error, Ok
  <1> QED BY <1>2, <1>5, <1>6, <1>7, <1>8, <1>9, <1>10, OneCall DEF CallFits

LEMMA ResolveStep ==
    ASSUME NEW c \in Calls, IInv, Resolve(c)
    PROVE  IInv'
  <1>1. PlanFacts(c) /\ CallFits(c) /\ TypeOK /\ next[c] \in 1..3
    BY Given
  <1>2. op' = op /\ \A d \in Calls \ {c} : Untouched(d)
    BY <1>1, Locality DEF CallStep
  <1>3. Steps(c)' = Steps(c) /\ Last(c)' = Last(c) /\ (Planned(c)' <=> Planned(c))
    BY <1>2, SamePlan
  <1>11. /\ pc[c] = "waiting" /\ wire[c] = "answered"
        /\ next[c] \in 1..Last(c)
    <2>1. pc[c] = "waiting" /\ wire[c] = "answered"
      BY DEF Resolve, Receive
    <2> QED BY <1>1, <2>1 DEF CallFits, ControlFits, OnTheWire, PlanFacts
  <1>12. Last(c) = 2 /\ next[c] = 1
    BY <1>1, <1>11 DEF Resolve, PlanFacts, Step
  <1>13. PICK i \in Ids : reply[c] = {i} /\ i = CHOOSE j \in reply[c] : TRUE
    <2>1. reply[c] \in SUBSET (Ids \cup {NoId})
      BY <1>1 DEF TypeOK, Data
    <2>2. LookupVerdict(reply[c]) = "found"
      BY DEF Resolve
    <2> QED BY <2>1, <2>2, VerdictFound
  <1>4. /\ Step(c).name = "lookup"
        /\ reply[c] = {i}
        /\ pc'[c] = "ready"
        /\ next'[c] = 2
        /\ resolved'[c] = i
        /\ outputs'[c] = outputs[c]
        /\ result'[c] = result[c]
        /\ wire'[c] = "read"
        /\ reply'[c] = reply[c]
        /\ effects'[c] = effects[c]
        /\ seen'[c] = seen[c]
        /\ op'[c] = op[c]
    BY <1>1, <1>13, <1>12 DEF Resolve, Receive, TypeOK, callVars, deviceVars
  <1>5. TypeOK'
    BY <1>1, <1>4, <1>13 DEF Resolve, Receive, TypeOK, callVars, deviceVars
  <1>6. ControlFits(c)'
    BY <1>1, <1>3, <1>4, <1>11, <1>12
       DEF CallFits, ControlFits, PlanFacts, Step, OnTheWire, Pending, Error, Ok
  <1>7. EffectFits(c)'
    BY <1>1, <1>3, <1>4, <1>11, <1>12
       DEF CallFits, EffectFits, PlanFacts, Served, RightRow
  <1>8. LookupFits(c)'
    BY <1>1, <1>3, <1>4, <1>11, <1>12 DEF CallFits, LookupFits, PlanFacts
  <1>9. OutputFits(c)'
    BY <1>1, <1>3, <1>4, <1>11, <1>12 DEF CallFits, OutputFits
  <1>10. ResultFits(c)'
    BY <1>1, <1>3, <1>4, <1>11, <1>12
       DEF CallFits, ControlFits, ResultFits, Refusals, LookupErrors, Pending
  <1> QED BY <1>2, <1>5, <1>6, <1>7, <1>8, <1>9, <1>10, OneCall DEF CallFits

LEMMA RefuseLookupStep ==
    ASSUME NEW c \in Calls, IInv, RefuseLookup(c)
    PROVE  IInv'
  <1>1. PlanFacts(c) /\ CallFits(c) /\ TypeOK /\ next[c] \in 1..3
    BY Given
  <1>2. op' = op /\ \A d \in Calls \ {c} : Untouched(d)
    BY <1>1, Locality DEF CallStep
  <1>3. Steps(c)' = Steps(c) /\ Last(c)' = Last(c) /\ (Planned(c)' <=> Planned(c))
    BY <1>2, SamePlan
  <1>11. /\ pc[c] = "waiting" /\ wire[c] = "answered"
        /\ next[c] \in 1..Last(c)
    <2>1. pc[c] = "waiting" /\ wire[c] = "answered"
      BY DEF RefuseLookup, Receive
    <2> QED BY <1>1, <2>1 DEF CallFits, ControlFits, OnTheWire, PlanFacts
  <1>12. Last(c) = 2 /\ next[c] = 1
    BY <1>1, <1>11 DEF RefuseLookup, PlanFacts, Step
  <1>13. LookupVerdict(reply[c]) \in LookupErrors
    BY <1>1, VerdictFound DEF RefuseLookup, TypeOK, Data
  <1>14. Error(LookupVerdict(reply[c])).code \in LookupErrors
    BY <1>13, ErrorType DEF Refusals
  <1>4. /\ LookupVerdict(reply[c]) \in LookupErrors
        /\ pc'[c] = "done"
        /\ next'[c] = next[c]
        /\ resolved'[c] = resolved[c]
        /\ outputs'[c] = outputs[c]
        /\ result'[c] = Error(LookupVerdict(reply[c]))
        /\ wire'[c] = "read"
        /\ reply'[c] = reply[c]
        /\ effects'[c] = effects[c]
        /\ seen'[c] = seen[c]
        /\ op'[c] = op[c]
    BY <1>1, <1>13 DEF RefuseLookup, Receive, Return, TypeOK, callVars, deviceVars
  <1>5. TypeOK'
    <2>1. Error(LookupVerdict(reply[c])) \in ResultType
      BY <1>4, ErrorType DEF Refusals
    <2> QED BY <1>1, <2>1 DEF RefuseLookup, Receive, Return, TypeOK, deviceVars
  <1>6. ControlFits(c)'
    BY <1>1, <1>3, <1>4, <1>11, <1>12, <1>14
       DEF CallFits, ControlFits, PlanFacts, LookupErrors, OnTheWire, Pending, Error, Ok
  <1>7. EffectFits(c)'
    BY <1>1, <1>3, <1>4, <1>11, <1>12, <1>14
       DEF CallFits, EffectFits, PlanFacts, Served, RightRow
  <1>8. LookupFits(c)'
    BY <1>1, <1>3, <1>4, <1>11, <1>12, <1>14 DEF CallFits, LookupFits, PlanFacts
  <1>9. OutputFits(c)'
    BY <1>1, <1>3, <1>4, <1>11, <1>12, <1>14 DEF CallFits, OutputFits
  <1>10. ResultFits(c)'
    BY <1>1, <1>3, <1>4, <1>11, <1>12, <1>14
       DEF CallFits, EffectFits, ResultFits, Served, Refusals, LookupErrors, Pending
  <1> QED BY <1>2, <1>5, <1>6, <1>7, <1>8, <1>9, <1>10, OneCall DEF CallFits

LEMMA KeepOutputStep ==
    ASSUME NEW c \in Calls, IInv, KeepOutput(c)
    PROVE  IInv'
  <1>1. PlanFacts(c) /\ CallFits(c) /\ TypeOK /\ next[c] \in 1..3
    BY Given
  <1>2. op' = op /\ \A d \in Calls \ {c} : Untouched(d)
    BY <1>1, Locality DEF CallStep
  <1>3. Steps(c)' = Steps(c) /\ Last(c)' = Last(c) /\ (Planned(c)' <=> Planned(c))
    BY <1>2, SamePlan
  <1>11. /\ pc[c] = "waiting" /\ wire[c] = "answered"
        /\ next[c] \in 1..Last(c)
    <2>1. pc[c] = "waiting" /\ wire[c] = "answered"
      BY DEF KeepOutput, Receive
    <2> QED BY <1>1, <2>1 DEF CallFits, ControlFits, OnTheWire, PlanFacts
  <1>12. next[c] = Last(c) /\ Last(c) \in 1..2 /\ Planned(c)
    BY <1>1, <1>11 DEF KeepOutput, PlanFacts, Step
  <1>13. outputs[c] = <<>>
    BY <1>1, <1>12 DEF CallFits, OutputFits
  <1>4. /\ pc'[c] = "ready"
        /\ next'[c] = next[c] + 1
        /\ resolved'[c] = resolved[c]
        /\ outputs'[c] = <<reply[c]>>
        /\ result'[c] = result[c]
        /\ wire'[c] = "read"
        /\ reply'[c] = reply[c]
        /\ effects'[c] = effects[c]
        /\ seen'[c] = seen[c]
        /\ op'[c] = op[c]
    BY <1>1, <1>13 DEF KeepOutput, Receive, TypeOK, callVars, deviceVars
  <1>5. TypeOK'
    <2>1. next'[c] \in 1..3
      BY <1>4, <1>12
    <2>2. Append(outputs[c], reply[c]) \in Seq(Data)
      BY <1>1 DEF TypeOK
    <2> QED BY <1>1, <2>1, <2>2
            DEF KeepOutput, Receive, TypeOK, callVars, deviceVars
  <1>6. ControlFits(c)'
    BY <1>1, <1>3, <1>4, <1>11, <1>12
       DEF CallFits, ControlFits, PlanFacts, Step, OnTheWire, Pending, Error, Ok
  <1>7. EffectFits(c)'
    BY <1>1, <1>3, <1>4, <1>11, <1>12
       DEF CallFits, EffectFits, PlanFacts, Served, RightRow
  <1>8. LookupFits(c)'
    BY <1>1, <1>3, <1>4, <1>11, <1>12 DEF CallFits, LookupFits, PlanFacts
  <1>9. OutputFits(c)'
    BY <1>1, <1>3, <1>4, <1>11, <1>12 DEF CallFits, OutputFits
  <1>10. ResultFits(c)'
    BY <1>1, <1>3, <1>4, <1>11, <1>12
       DEF CallFits, ControlFits, ResultFits, Refusals, LookupErrors, Pending
  <1> QED BY <1>2, <1>5, <1>6, <1>7, <1>8, <1>9, <1>10, OneCall DEF CallFits

-----------------------------------------------------------------------------
(* The steps of the device. *)

(* A request under way is the call's current step, and nothing has been    *)
(* done for the call yet.                                                  *)
LEMMA UnderWay ==
    ASSUME NEW c \in Calls, IInv, wire[c] = "sent"
    PROVE  /\ Planned(c)
           /\ next[c] \in 1..Last(c)
           /\ Step(c) \in StepType
           /\ effects[c] = <<>>
           /\ Step(c).method # "GET" => next[c] = Last(c)
           /\ Last(c) = 2 /\ next[c] = 1 => Step(c).name = "lookup"
           /\ Step(c).method \in {"PATCH", "DELETE"} => RightRow(c, Target(c))
           /\ result[c].code \notin Refusals \cup {"ok"}
           /\ pc[c] \in {"waiting", "done"}
  <1>1. PlanFacts(c) /\ CallFits(c) /\ TypeOK /\ next[c] \in 1..3
    BY Given
  <1>2. Planned(c) /\ next[c] \in 1..Last(c) /\ pc[c] \in {"waiting", "done"}
    BY <1>1 DEF CallFits, ControlFits, OnTheWire
  <1>3. Last(c) \in {1, 2} /\ next[c] \in {1, 2}
    BY <1>1, <1>2 DEF PlanFacts
  <1>4. Step(c) \in StepType
    BY <1>1, <1>2 DEF PlanFacts, Step
  <1>5. effects[c] = <<>> /\ ~Served(c)
    BY <1>1, <1>2, <1>3 DEF CallFits, EffectFits, Served
  <1>6. Step(c).method # "GET" => next[c] = Last(c)
    BY <1>1, <1>2, <1>3 DEF PlanFacts, Step
  <1>7. Last(c) = 2 /\ next[c] = 1 => Step(c).name = "lookup"
    BY <1>1 DEF PlanFacts, Step
  <1>8. ASSUME Step(c).method \in {"PATCH", "DELETE"} PROVE RightRow(c, Target(c))
    <2>1. next[c] = Last(c)
      BY <1>6, <1>8
    <2>2. CASE Last(c) = 1
      <3>1. op[c].id # NoId /\ Step(c).at = op[c].id
        BY <1>1, <1>8, <2>1, <2>2 DEF PlanFacts, Step
      <3>2. resolved[c] = NoId /\ (Step(c).at = ResolvedId => resolved[c] # NoId)
        BY <1>1, <2>2 DEF CallFits, LookupFits, ControlFits, OnTheWire
      <3> QED BY <3>1, <3>2 DEF Target, RightRow
    <2>3. CASE Last(c) = 2
      <3>1. op[c].id = NoId /\ Step(c).at = ResolvedId
        BY <1>1, <2>1, <2>3 DEF PlanFacts, Step
      <3>2. seen[c] = {resolved[c]}
        BY <1>1, <2>1, <2>3 DEF CallFits, LookupFits
      <3> QED BY <3>1, <3>2 DEF Target, RightRow
    <2> QED BY <1>3, <2>2, <2>3
  <1>9. result[c].code \notin Refusals \cup {"ok"}
    BY <1>1, <1>2, <1>3 DEF CallFits, ResultFits
  <1> QED BY <1>2, <1>4, <1>5, <1>6, <1>7, <1>8, <1>9

(* The device answers a request that acts. *)
LEMMA ActStep ==
    ASSUME NEW c \in Calls, IInv, wire[c] = "sent", Step(c).method # "GET",
           NEW rows \in Data, NEW at \in Ids \cup {Command},
           Step(c).method \in {"PATCH", "DELETE"} => at = Target(c),
           Answer(c, rows), Record(c, at), UNCHANGED <<callVars, seen>>,
           table' \in Table, spent' \in SUBSET Ids, DOMAIN table' \subseteq spent'
    PROVE  IInv'
  <1>1. PlanFacts(c) /\ CallFits(c) /\ TypeOK /\ next[c] \in 1..3
    BY Given
  <1> DEFINE new == [method |-> Step(c).method, at |-> at]
  <1>2. /\ Planned(c) /\ next[c] = Last(c) /\ Last(c) \in 1..2
        /\ Step(c) \in StepType
        /\ effects[c] = <<>>
        /\ Step(c).method \in {"PATCH", "DELETE"} => RightRow(c, at)
        /\ result[c].code \notin Refusals \cup {"ok"}
        /\ pc[c] \in {"waiting", "done"}
    BY <1>1, UnderWay DEF PlanFacts
  <1>3. op' = op /\ \A d \in Calls \ {c} : Untouched(d)
    BY <1>1 DEF Answer, Record, TypeOK, Untouched, callVars
  <1>4. /\ Steps(c)' = Steps(c) /\ Last(c)' = Last(c)
        /\ Planned(c)' <=> Planned(c)
    BY <1>3, SamePlan
  <1>5. new \in Effect
    BY <1>2 DEF Effect, StepType
  <1>6. Append(effects[c], new) \in Seq(Effect)
    BY <1>1, <1>5 DEF TypeOK
  <1>7. TypeOK'
    BY <1>1, <1>6 DEF Answer, Record, TypeOK, callVars
  <1>8. /\ pc'[c] = pc[c] /\ next'[c] = next[c] /\ resolved'[c] = resolved[c]
        /\ outputs'[c] = outputs[c] /\ result'[c] = result[c]
        /\ wire'[c] = "answered" /\ seen'[c] = seen[c] /\ op'[c] = op[c]
        /\ effects'[c] = <<new>>
    BY <1>1, <1>2 DEF Answer, Record, TypeOK, callVars
  <1>9. ControlFits(c)'
    BY <1>1, <1>2, <1>4, <1>8
       DEF CallFits, ControlFits, OnTheWire, Step
  <1>10. EffectFits(c)'
    <2>1. Steps(c)[Last(c)].method = Step(c).method
      BY <1>2 DEF Step
    <2>2. Served(c)'
      BY <1>2, <1>4, <1>8 DEF Served
    <2> QED BY <1>2, <1>4, <1>8, <2>1, <2>2 DEF EffectFits, RightRow
  <1>11. LookupFits(c)'
    BY <1>1, <1>2, <1>4, <1>8 DEF CallFits, LookupFits
  <1>12. OutputFits(c)'
    BY <1>1, <1>2, <1>4, <1>8 DEF CallFits, OutputFits
  <1>13. ResultFits(c)'
    BY <1>2, <1>8 DEF ResultFits
  <1> QED BY <1>3, <1>7, <1>9, <1>10, <1>11, <1>12, <1>13, OneCall DEF CallFits

LEMMA ServeGetStep ==
    ASSUME NEW c \in Calls, IInv, ServeGet(c)
    PROVE  IInv'
  <1>1. PlanFacts(c) /\ CallFits(c) /\ TypeOK /\ next[c] \in 1..3
    BY Given
  <1>2. wire[c] = "sent" /\ Step(c).method = "GET"
    BY DEF ServeGet
  <1>3. /\ Planned(c) /\ next[c] \in 1..Last(c) /\ Last(c) \in 1..2
        /\ effects[c] = <<>>
        /\ Last(c) = 2 /\ next[c] = 1 => Step(c).name = "lookup"
        /\ result[c].code \notin Refusals \cup {"ok"}
        /\ pc[c] \in {"waiting", "done"}
    BY <1>1, <1>2, UnderWay DEF PlanFacts
  <1>4. op' = op /\ \A d \in Calls \ {c} : Untouched(d)
    BY <1>1, Locality DEF DeviceStep
  <1>5. /\ Steps(c)' = Steps(c) /\ Last(c)' = Last(c)
        /\ Planned(c)' <=> Planned(c)
    BY <1>4, SamePlan
  <1>6. Selected(c) \in Data
    <2>1. DOMAIN table \subseteq Ids
      BY <1>1 DEF TypeOK, Table
    <2> QED BY <2>1 DEF Selected, Matching, Data
  <1>7. TypeOK'
    BY <1>1, <1>6 DEF ServeGet, Answer, TypeOK, callVars
  <1>8. /\ pc'[c] = pc[c] /\ next'[c] = next[c] /\ resolved'[c] = resolved[c]
        /\ outputs'[c] = outputs[c] /\ result'[c] = result[c]
        /\ wire'[c] = "answered" /\ op'[c] = op[c]
        /\ effects'[c] = effects[c]
        /\ Step(c).name = "lookup" => seen'[c] = reply'[c]
        /\ Step(c).name # "lookup" => seen'[c] = seen[c]
    BY <1>1 DEF ServeGet, Answer, TypeOK, callVars
  <1>9. ControlFits(c)'
    BY <1>1, <1>2, <1>3, <1>5, <1>8
       DEF CallFits, ControlFits, OnTheWire, Step
  <1>10. EffectFits(c)'
    <2>1. Served(c)' => Steps(c)[Last(c)].method = "GET"
      BY <1>2, <1>3, <1>5, <1>8 DEF Served, Step
    <2> QED BY <1>3, <1>5, <1>8, <2>1 DEF EffectFits
  <1>11. LookupFits(c)'
    <2>1. Last(c) = 2 => next[c] = 1
      BY <1>1, <1>2, <1>3 DEF PlanFacts, Step
    <2> QED BY <1>1, <1>3, <1>5, <1>8, <2>1 DEF CallFits, LookupFits
  <1>12. OutputFits(c)'
    BY <1>1, <1>3, <1>5, <1>8 DEF CallFits, OutputFits
  <1>13. ResultFits(c)'
    BY <1>3, <1>8 DEF ResultFits
  <1> QED BY <1>4, <1>7, <1>9, <1>10, <1>11, <1>12, <1>13, OneCall DEF CallFits

LEMMA ServePutStep ==
    ASSUME NEW c \in Calls, IInv, ServePut(c)
    PROVE  IInv'
  <1>1. TypeOK /\ Step(c) \in StepType
    BY Given, UnderWay DEF ServePut
  <1>2. PICK i \in Ids \ spent :
          /\ table' = Written(table, i, Patched(DefaultRow, Step(c).body))
          /\ spent' = spent \cup {i}
          /\ Answer(c, {i})
          /\ Record(c, i)
    BY DEF ServePut
  <1>3. Patched(DefaultRow, Step(c).body) \in Row
    <2>1. Step(c).method = "PUT"
      BY DEF ServePut
    <2>2. Step(c).body \in Dict
      BY <1>1, <2>1 DEF StepType
    <2> QED BY <2>2, PatchedType, ExecutorAssumption
  <1>4. table' \in Table /\ DOMAIN table' = DOMAIN table \cup {i}
    BY <1>1, <1>2, <1>3, WrittenType DEF TypeOK
  <1>5. spent' \in SUBSET Ids /\ DOMAIN table' \subseteq spent'
    BY <1>1, <1>2, <1>4 DEF TypeOK
  <1>6. {i} \in Data
    BY DEF Data
  <1>7. wire[c] = "sent" /\ Step(c).method = "PUT" /\ UNCHANGED <<callVars, seen>>
    BY DEF ServePut
  <1> QED BY <1>2, <1>4, <1>5, <1>6, <1>7, ActStep

LEMMA ServePatchStep ==
    ASSUME NEW c \in Calls, IInv, ServePatch(c)
    PROVE  IInv'
  <1>1. TypeOK /\ Step(c) \in StepType
    BY Given, UnderWay DEF ServePatch
  <1> DEFINE row == Patched(table[Target(c)], Step(c).body)
  <1>2. /\ Target(c) \in DOMAIN table
        /\ table' = Written(table, Target(c), row)
        /\ spent' = spent
        /\ Answer(c, {Target(c)})
        /\ Record(c, Target(c))
        /\ wire[c] = "sent" /\ Step(c).method = "PATCH"
        /\ UNCHANGED <<callVars, seen>>
    BY DEF ServePatch
  <1>3. Target(c) \in Ids /\ table[Target(c)] \in Row
    BY <1>1, <1>2, RowType DEF TypeOK
  <1>4. row \in Row
    <2>1. Step(c).body \in Dict
      BY <1>1, <1>2 DEF StepType
    <2> QED BY <1>3, <2>1, PatchedType
  <1> HIDE DEF row
  <1>5. table' \in Table /\ DOMAIN table' = DOMAIN table \cup {Target(c)}
    BY <1>1, <1>2, <1>3, <1>4, WrittenType DEF TypeOK
  <1>6. spent' \in SUBSET Ids /\ DOMAIN table' \subseteq spent'
    BY <1>1, <1>2, <1>5 DEF TypeOK
  <1>7. {Target(c)} \in Data
    BY <1>3 DEF Data
  <1> QED BY <1>2, <1>3, <1>5, <1>6, <1>7, ActStep

LEMMA ServeDeleteStep ==
    ASSUME NEW c \in Calls, IInv, ServeDelete(c)
    PROVE  IInv'
  <1>1. TypeOK
    BY Given
  <1>2. /\ Target(c) \in DOMAIN table
        /\ table' = Restricted(table, DOMAIN table \ {Target(c)})
        /\ spent' = spent
        /\ Answer(c, {})
        /\ Record(c, Target(c))
        /\ wire[c] = "sent" /\ Step(c).method = "DELETE"
        /\ UNCHANGED <<callVars, seen>>
    BY DEF ServeDelete
  <1>3. Target(c) \in Ids
    BY <1>1, <1>2, RowType DEF TypeOK
  <1>4. table' \in Table /\ DOMAIN table' \subseteq DOMAIN table
    BY <1>1, <1>2, RestrictedType DEF TypeOK
  <1>5. spent' \in SUBSET Ids /\ DOMAIN table' \subseteq spent'
    BY <1>1, <1>2, <1>4 DEF TypeOK
  <1>6. {} \in Data
    BY DEF Data
  <1> QED BY <1>2, <1>3, <1>4, <1>5, <1>6, ActStep

LEMMA ServeCommandStep ==
    ASSUME NEW c \in Calls, IInv, ServeCommand(c)
    PROVE  IInv'
  <1>1. TypeOK
    BY Given
  <1>2. /\ wire[c] = "sent" /\ Step(c).method = "POST"
        /\ Answer(c, {}) /\ Record(c, Command)
        /\ UNCHANGED <<callVars, seen>>
        /\ Disturb \/ UNCHANGED <<table, spent>>
    BY DEF ServeCommand
  <1>3. table' \in Table /\ spent' \in SUBSET Ids /\ DOMAIN table' \subseteq spent'
    BY <1>1, <1>2, DisturbType DEF TypeOK
  <1>4. {} \in Data
    BY DEF Data
  <1> QED BY <1>2, <1>3, <1>4, ActStep

LEMMA RejectStep ==
    ASSUME NEW c \in Calls, IInv, Reject(c)
    PROVE  IInv'
  <1>1. PlanFacts(c) /\ CallFits(c) /\ TypeOK /\ next[c] \in 1..3
    BY Given
  <1>2. /\ next[c] \in 1..Last(c) /\ effects[c] = <<>> /\ Planned(c)
        /\ result[c].code \notin Refusals \cup {"ok"}
        /\ pc[c] \in {"waiting", "done"}
    BY UnderWay DEF Reject
  <1>3. op' = op /\ \A d \in Calls \ {c} : Untouched(d)
    BY <1>1, Locality DEF DeviceStep
  <1>4. /\ Steps(c)' = Steps(c) /\ Last(c)' = Last(c)
        /\ Planned(c)' <=> Planned(c)
    BY <1>3, SamePlan
  <1>5. TypeOK'
    BY <1>1 DEF Reject, TypeOK, callVars, deviceVars
  <1>6. /\ pc'[c] = pc[c] /\ next'[c] = next[c] /\ resolved'[c] = resolved[c]
        /\ outputs'[c] = outputs[c] /\ result'[c] = result[c]
        /\ wire[c] = "sent" /\ wire'[c] = "rejected" /\ op'[c] = op[c]
        /\ effects'[c] = effects[c] /\ seen'[c] = seen[c]
    BY <1>1 DEF Reject, TypeOK, callVars, deviceVars
  <1>7. ControlFits(c)'
    BY <1>1, <1>2, <1>4, <1>6 DEF CallFits, ControlFits, OnTheWire, Step
  <1>8. EffectFits(c)'
    <2>1. Last(c) \in 1..2
      BY <1>1, <1>2 DEF PlanFacts
    <2>2. ~Served(c)'
      BY <1>2, <1>4, <1>6, <2>1 DEF Served
    <2> QED BY <1>2, <1>6, <2>2 DEF EffectFits
  <1>9. LookupFits(c)'
    BY <1>1, <1>4, <1>6 DEF CallFits, LookupFits
  <1>10. OutputFits(c)'
    BY <1>1, <1>2, <1>4, <1>6 DEF CallFits, OutputFits
  <1>11. ResultFits(c)'
    BY <1>2, <1>6 DEF ResultFits
  <1> QED BY <1>3, <1>5, <1>7, <1>8, <1>9, <1>10, <1>11, OneCall DEF CallFits

LEMMA OutsideStep ==
    ASSUME IInv, Outside
    PROVE  IInv'
  <1>1. TypeOK
    BY DEF IInv
  <1>2. table' \in Table /\ spent' \in SUBSET Ids /\ DOMAIN table' \subseteq spent'
    BY <1>1, DisturbType DEF Outside, TypeOK
  <1>3. TypeOK'
    BY <1>1, <1>2 DEF Outside, TypeOK, callVars
  <1>4. ASSUME NEW c \in Calls PROVE CallFits(c)'
    <2>1. Untouched(c)
      BY DEF Outside, Untouched, callVars
    <2> QED BY <2>1, Frame DEF IInv, Consistent
  <1> QED BY <1>3, <1>4 DEF IInv, Consistent

(***************************************************************************)
(* The invariant is inductive.                                             *)
(***************************************************************************)
LEMMA NextInv == IInv /\ [Next]_vars => IInv'
  <1> SUFFICES ASSUME IInv, [Next]_vars PROVE IInv'
    OBVIOUS
  <1>1. ASSUME NEW c \in Calls, CallStep(c) PROVE IInv'
    BY <1>1, RefuseUnsupportedStep, BeginStep, SendStep, RefuseUnresolvedStep,
       ResolveStep, RefuseLookupStep, KeepOutputStep, GiveUpStep, FinishStep
       DEF CallStep
  <1>2. ASSUME NEW c \in Calls, DeviceStep(c) PROVE IInv'
    BY <1>2, ServeGetStep, ServePutStep, ServePatchStep, ServeDeleteStep,
       ServeCommandStep, RejectStep
       DEF DeviceStep
  <1>3. CASE Outside
    BY <1>3, OutsideStep
  <1>4. CASE UNCHANGED vars
    <2>1. TypeOK'
      BY <1>4 DEF IInv, TypeOK, vars, callVars, deviceVars
    <2>2. ASSUME NEW c \in Calls PROVE CallFits(c)'
      <3>1. Untouched(c)
        BY <1>4 DEF vars, callVars, deviceVars, Untouched
      <3> QED BY <3>1, Frame DEF IInv, Consistent
    <2> QED BY <2>1, <2>2 DEF IInv, Consistent
  <1> QED BY <1>1, <1>2, <1>3, <1>4 DEF Next

-----------------------------------------------------------------------------
(* What follows for every set of calls, operations, ids and rows.          *)

LEMMA Invariance == Spec => []IInv
  <1>1. Init => IInv
    BY InitInv
  <1>2. IInv /\ [Next]_vars => IInv'
    BY NextInv
  <1> QED BY <1>1, <1>2, PTL DEF Spec

(* Every variable of the executor and the device keeps its type.           *)
THEOREM TypeCorrect == Spec => []TypeOK
  <1>1. IInv => TypeOK
    BY DEF IInv
  <1> QED BY <1>1, Invariance, PTL

(* Where a call stands determines what the device has done for it.         *)
THEOREM ConsistentAlways == Spec => []Consistent
  <1>1. IInv => Consistent
    BY DEF IInv
  <1> QED BY <1>1, Invariance, PTL

(* A call changes the device at most once, whatever requests and replies   *)
(* are lost or late.                                                       *)
THEOREM AtMostOnce == Spec => []AtMostOneEffect
  <1>1. IInv => AtMostOneEffect
    <2> SUFFICES ASSUME IInv, NEW c \in Calls PROVE Len(effects[c]) <= 1
      BY DEF AtMostOneEffect
    <2>1. effects[c] = <<>> \/ Len(effects[c]) = 1
      BY Given DEF CallFits, EffectFits
    <2>2. CASE effects[c] = <<>>
      BY <2>2
    <2>3. CASE Len(effects[c]) = 1
      BY <2>3
    <2> QED BY <2>1, <2>2, <2>3
  <1> QED BY <1>1, Invariance, PTL

(* A call that is refused has changed nothing and nothing of it is under   *)
(* way.                                                                    *)
THEOREM RefusalsHarmless == Spec => []RefusalIsHarmless
  <1>1. IInv => RefusalIsHarmless
    BY Given DEF RefusalIsHarmless, CallFits, EffectFits, ResultFits
  <1> QED BY <1>1, Invariance, PTL

LEMMA RightRowState == IInv => ChangesTheRightRow
  <1> SUFFICES ASSUME IInv, NEW c \in Calls, NEW k \in DOMAIN effects[c],
                      effects[c][k].method \in {"PATCH", "DELETE"}
               PROVE  RightRow(c, effects[c][k].at)
    BY DEF ChangesTheRightRow
  <1>1. EffectFits(c) /\ effects[c] \in Seq(Effect)
    BY Given DEF CallFits, TypeOK
  <1>2. Len(effects[c]) = 1
    BY <1>1 DEF EffectFits
  <1>3. k = 1
    BY <1>1, <1>2
  <1> QED BY <1>1, <1>3 DEF EffectFits

(* A patch or a delete lands on the row named by id or on the only row the *)
(* lookup selected, even when the call has ended in an error before.       *)
THEOREM RightRowAlways == Spec => []ChangesTheRightRow
  BY RightRowState, Invariance, PTL

LEMMA OkIsDoneState == IInv => OkMeansDone
  <1> SUFFICES ASSUME IInv, NEW c \in Calls, result[c].code = "ok"
               PROVE  /\ Len(effects[c]) = IF Acts(op[c]) THEN 1 ELSE 0
                      /\ result[c].data = <<reply[c]>>
    BY DEF OkMeansDone
  <1>1. PlanFacts(c) /\ CallFits(c) /\ next[c] \in 1..3
    BY Given
  <1>2. Planned(c) /\ next[c] > Last(c) /\ result[c].data = outputs[c]
    BY <1>1 DEF CallFits, ResultFits
  <1>3. outputs[c] = <<reply[c]>>
    BY <1>1, <1>2 DEF CallFits, OutputFits
  <1>4. Served(c)
    BY <1>2 DEF Served
  <1>5. Acts(op[c]) <=> Steps(c)[Last(c)].method # "GET"
    BY <1>1, <1>2 DEF PlanFacts
  <1>6. Len(effects[c]) = IF Acts(op[c]) THEN 1 ELSE 0
    BY <1>1, <1>4, <1>5 DEF CallFits, EffectFits
  <1> QED BY <1>2, <1>3, <1>6

(* ok=True means that an acting operation has acted, that a reading one    *)
(* has changed nothing, and that the data is the last reply.               *)
THEOREM OkIsDone == Spec => []OkMeansDone
  BY OkIsDoneState, Invariance, PTL

(* An operation of the class "read" has no effect on the device.           *)
THEOREM ReadsOnly == Spec => []ReadRiskIsReadOnly
  <1>1. IInv => ReadRiskIsReadOnly
    <2> SUFFICES ASSUME IInv, NEW c \in Calls, Risk(op[c]) = "read"
                 PROVE  effects[c] = <<>>
      BY DEF ReadRiskIsReadOnly
    <2>1. PlanFacts(c) /\ CallFits(c)
      BY Given
    <2>2. op[c].action \in {"get", "list"}
      BY DEF Risk
    <2>3. Served(c) => Steps(c)[Last(c)].method = "GET"
      BY <2>1, <2>2 DEF PlanFacts, Served
    <2> QED BY <2>1, <2>3 DEF CallFits, EffectFits
  <1> QED BY <1>1, Invariance, PTL

-----------------------------------------------------------------------------
(* Action properties and refinement. *)

(* What a step of a call's own executor, or of the device on its behalf,   *)
(* can do to what the call has answered.                                   *)
LEMMA StepOfCall ==
    ASSUME NEW c \in Calls, IInv, CallStep(c)
    PROVE  /\ effects' = effects
           /\ result[c].code = "pending"
           /\ result' = result \/ \E r \in ResultType : result' = [result EXCEPT ![c] = r]
  <1>1. PlanFacts(c) /\ CallFits(c) /\ TypeOK
    BY Given
  <1>2. effects' = effects /\ pc[c] # "done"
    BY DEF CallStep, RefuseUnsupported, Begin, Send, RefuseUnresolved, Resolve,
           RefuseLookup, KeepOutput, GiveUp, Finish, Receive, deviceVars
  <1>3. result[c].code = "pending"
    BY <1>1, <1>2 DEF CallFits, ControlFits
  <1>4. result' = result \/ \E r \in ResultType : result' = [result EXCEPT ![c] = r]
    <2>1. TypeOK'
      BY NextInv DEF IInv, Next
    <2>2. result'[c] \in ResultType
      BY <2>1 DEF TypeOK
    <2>3. result' = result \/ \E r : result' = [result EXCEPT ![c] = r]
      BY DEF CallStep, RefuseUnsupported, Begin, Send, RefuseUnresolved, Resolve,
             RefuseLookup, KeepOutput, GiveUp, Finish, Return
    <2> QED BY <1>1, <2>2, <2>3 DEF TypeOK
  <1> QED BY <1>2, <1>3, <1>4

LEMMA StepOfDevice ==
    ASSUME NEW c \in Calls, IInv, DeviceStep(c)
    PROVE  /\ UNCHANGED callVars
           /\ wire[c] = "sent"
           /\ \/ effects' = effects
              \/ /\ Step(c).method # "GET"
                 /\ \E e : effects' = [effects EXCEPT ![c] = Append(effects[c], e)]
  BY DEF DeviceStep, ServeGet, ServePut, ServePatch, ServeDelete, ServeCommand,
         Reject, Record, deviceVars

(* Once a call has answered anything but ADAPTER_ERROR, no step changes    *)
(* its result or makes the device act for it.                              *)
THEOREM AnswersFinal == Spec => AnswerIsFinal
  <1> DEFINE Final(c) ==
                result[c].code \notin {"pending", "ADAPTER_ERROR"}
                    => effects'[c] = effects[c] /\ result'[c] = result[c]
  <1>1. IInv /\ [Next]_vars => [\A c \in Calls : Final(c)]_vars
    <2> SUFFICES ASSUME IInv, Next, NEW c \in Calls,
                        result[c].code \notin {"pending", "ADAPTER_ERROR"}
                 PROVE  effects'[c] = effects[c] /\ result'[c] = result[c]
      OBVIOUS
    <2>1. ASSUME NEW d \in Calls, CallStep(d) \/ DeviceStep(d), d # c
          PROVE  effects'[c] = effects[c] /\ result'[c] = result[c]
      BY <2>1, Locality DEF IInv, Untouched
    <2>2. ~CallStep(c)
      BY StepOfCall
    <2>3. ~DeviceStep(c)
      <3>1. result[c].code \in Refusals \cup {"ok"}
        BY Given DEF TypeOK, ResultType
      <3> QED BY <3>1, StepOfDevice, UnderWay
    <2>4. CASE Outside
      BY <2>4 DEF Outside, callVars
    <2> QED BY <2>1, <2>2, <2>3, <2>4 DEF Next
  <1> QED BY <1>1, Invariance, PTL DEF Spec, AnswerIsFinal

(* The device patches for a call: the target's row, and in it only fields  *)
(* of the body, which are fields that the operation may write.             *)
LEMMA PatchStep ==
    ASSUME NEW c \in Calls, IInv, DeviceStep(c),
           effects'[c] # effects[c], Step(c).method = "PATCH"
    PROVE  /\ DOMAIN table' = DOMAIN table
           /\ \A i \in DOMAIN table, f \in Fields :
                 i # Target(c) \/ f \notin FieldsOf(op[c])
                    => table'[i][f] = table[i][f]
  <1>1. ServePatch(c)
    BY DEF DeviceStep, ServeGet, ServePut, ServeDelete, ServeCommand, Reject,
           deviceVars
  <1>2. /\ TypeOK
        /\ next[c] \in 1..Last(c)
        /\ Step(c) \in StepType
    BY <1>1, Given, UnderWay DEF ServePatch
  <1> DEFINE row == Patched(table[Target(c)], Step(c).body)
  <1>3. Target(c) \in DOMAIN table /\ table' = Written(table, Target(c), row)
    BY <1>1 DEF ServePatch
  <1>4. DOMAIN Step(c).body \subseteq FieldsOf(op[c])
    <2>1. op[c] \in OperationType
      BY <1>2, ExecutorAssumption DEF TypeOK
    <2>2. CarriesWhatItSays(op[c], PlanRouterOSOperation(op[c]))
      BY <2>1, PlanCarriesWhatItSays
    <2>3. next[c] \in DOMAIN Steps(c)
      BY <1>2, Given DEF Last, PlanFacts
    <2> QED BY <2>2, <2>3 DEF CarriesWhatItSays, Step, Steps, MayWrite, FieldsOf
  <1>5. \A f \in Fields : f \notin FieldsOf(op[c]) => row[f] = table[Target(c)][f]
    BY <1>4 DEF Patched
  <1> HIDE DEF row
  <1>6. /\ DOMAIN table' = DOMAIN table
        /\ \A i \in DOMAIN table :
              table'[i] = IF i = Target(c) THEN row ELSE table[i]
    BY <1>3 DEF Written
  <1> QED BY <1>5, <1>6

(* A patch made for a call rewrites only the fields its operation mentions *)
(* and no row but its target, whatever other calls do in between.          *)
THEOREM PatchesKeepTheRest == Spec => PatchKeepsTheRest
  <1> DEFINE Keeps(c) ==
                (effects'[c] # effects[c] /\ Step(c).method = "PATCH") =>
                   /\ DOMAIN table' = DOMAIN table
                   /\ \A i \in DOMAIN table, f \in Fields :
                         i # Target(c) \/ f \notin FieldsOf(op[c])
                            => table'[i][f] = table[i][f]
  <1>1. IInv /\ [Next]_vars => [\A c \in Calls : Keeps(c)]_vars
    <2> SUFFICES ASSUME IInv, Next, NEW c \in Calls,
                        effects'[c] # effects[c], Step(c).method = "PATCH"
                 PROVE  Keeps(c)
      OBVIOUS
    <2>1. ASSUME NEW d \in Calls, CallStep(d) \/ DeviceStep(d), d # c
          PROVE  FALSE
      BY <2>1, Locality DEF IInv, Untouched
    <2>2. ~CallStep(c)
      BY StepOfCall
    <2>3. ~Outside
      BY DEF Outside
    <2>4. DeviceStep(c)
      BY <2>1, <2>2, <2>3 DEF Next
    <2> QED BY <2>4, PatchStep
  <1> QED BY <1>1, Invariance, PTL DEF Spec, PatchKeepsTheRest

(***************************************************************************)
(* The executor keeps the promise: every step of it is a step of           *)
(* OperationOutcome or changes nothing that a caller sees.                 *)
(***************************************************************************)
LEMMA PromiseInit == Init => Promise!Init
  <1> SUFFICES ASSUME Init PROVE Promise!Init
    OBVIOUS
  <1>1. ASSUME NEW c \in Calls
        PROVE  Outcome(c) = "pending" /\ Len(effects[c]) = 0
    BY DEF Init, Outcome, Pending, Refusals, LookupErrors
  <1> QED BY <1>1 DEF Promise!Init

LEMMA PromiseStep == IInv /\ [Next]_vars => [Promise!Next]_Promise!vars
  <1> DEFINE kind    == [c \in Calls |-> IF Acts(op[c]) THEN "act" ELSE "read"]
             outcome == [c \in Calls |-> Outcome(c)]
             applied == [c \in Calls |-> Len(effects[c])]
  <1> SUFFICES ASSUME IInv, [Next]_vars
               PROVE  Promise!Next \/ UNCHANGED <<kind, outcome, applied>>
    BY DEF Promise!vars
  <1>1. ASSUME NEW c \in Calls, CallStep(c)
        PROVE  Promise!Next \/ UNCHANGED <<kind, outcome, applied>>
    <2>1. /\ effects' = effects
          /\ result[c].code = "pending"
          /\ op' = op
          /\ TypeOK /\ CallFits(c)'
      BY <1>1, StepOfCall, Locality, Given, NextInv DEF Next, IInv, Consistent
    <2>2. UNCHANGED <<kind, applied>>
      BY <2>1
    <2>3. CASE result' = result
      BY <2>2, <2>3 DEF Outcome
    <2>4. ASSUME NEW r \in ResultType, result' = [result EXCEPT ![c] = r]
          PROVE  Promise!Next \/ UNCHANGED <<kind, outcome, applied>>
      <3>1. result'[c] = r /\ outcome[c] = "pending"
        <4>1. result'[c] = r
          BY <2>1, <2>4 DEF TypeOK
        <4>2. Outcome(c) = "pending"
          BY <2>1 DEF Outcome, Refusals, LookupErrors
        <4> QED BY <4>1, <4>2
      <3> DEFINE new == CASE r.code = "pending"  -> "pending"
                          [] r.code = "ok"       -> "ok"
                          [] r.code \in Refusals -> "refused"
                          [] OTHER               -> "unknown"
      <3>2. outcome' = [outcome EXCEPT ![c] = new]
        <4>1. Outcome(c)' = new
          BY <3>1 DEF Outcome
        <4>2. \A d \in Calls \ {c} : Outcome(d)' = Outcome(d)
          BY <2>1, <2>4 DEF TypeOK, Outcome
        <4> HIDE DEF new
        <4> QED BY <4>1, <4>2
      <3>3. CASE r.code = "pending"
        <4>1. new = "pending"
          BY <3>3 DEF Refusals, LookupErrors
        <4> HIDE DEF new
        <4>2. outcome' = outcome
          BY <3>1, <3>2, <4>1
        <4> QED BY <2>2, <4>2
      <3>4. CASE r.code = "ok"
        <4>1. applied[c] = IF kind[c] = "act" THEN 1 ELSE 0
          <5>1. IInv'
            BY NextInv
          <5>2. IInv' => OkMeansDone'
            BY OkIsDoneState, PTL
          <5> QED BY <2>1, <3>1, <3>4, <5>1, <5>2 DEF OkMeansDone
        <4>2. Promise!ReportOk(c)
          BY <2>2, <3>1, <3>2, <3>4, <4>1 DEF Promise!ReportOk, Refusals, LookupErrors
        <4> QED BY <4>2 DEF Promise!Next
      <3>5. CASE r.code \in Refusals
        <4>1. applied[c] = 0
          BY <2>1, <3>1, <3>5 DEF CallFits, ResultFits, EffectFits
        <4>2. Promise!Refuse(c)
          BY <2>2, <3>1, <3>2, <3>5, <4>1 DEF Promise!Refuse, Refusals, LookupErrors
        <4> QED BY <4>2 DEF Promise!Next
      <3>6. CASE r.code = "ADAPTER_ERROR"
        <4>1. Promise!ReportUnknown(c)
          BY <2>2, <3>1, <3>2, <3>6 DEF Promise!ReportUnknown, Refusals, LookupErrors
        <4> QED BY <4>1 DEF Promise!Next
      <3> QED BY <3>3, <3>4, <3>5, <3>6 DEF ResultType
    <2> QED BY <1>1, <2>3, <2>4, StepOfCall
  <1>2. ASSUME NEW c \in Calls, DeviceStep(c)
        PROVE  Promise!Next \/ UNCHANGED <<kind, outcome, applied>>
    <2>1. UNCHANGED callVars /\ wire[c] = "sent" /\ TypeOK
      BY <1>2, StepOfDevice, Given
    <2>2. UNCHANGED <<kind, outcome>>
      BY <2>1 DEF callVars, Outcome
    <2>3. CASE effects' = effects
      BY <2>2, <2>3
    <2>4. ASSUME Step(c).method # "GET",
                 NEW e, effects' = [effects EXCEPT ![c] = Append(effects[c], e)]
          PROVE  Promise!Apply(c)
      <3>1. /\ effects[c] = <<>>
            /\ next[c] = Last(c) /\ Planned(c)
            /\ result[c].code \notin Refusals \cup {"ok"}
        BY <2>1, <2>4, UnderWay
      <3>2. kind[c] = "act"
        BY <2>4, <3>1, Given DEF PlanFacts, Step
      <3>3. applied[c] = 0 /\ applied' = [applied EXCEPT ![c] = 1]
        <4>1. Len(effects[c]) = 0
          BY <3>1
        <4>2. effects'[c] = <<e>> /\ Len(effects'[c]) = 1
          BY <2>1, <2>4, <3>1 DEF TypeOK
        <4>3. \A d \in Calls \ {c} : effects'[d] = effects[d]
          BY <2>1, <2>4 DEF TypeOK
        <4> QED BY <4>1, <4>2, <4>3
      <3>4. outcome[c] \in {"pending", "unknown"}
        BY <3>1 DEF Outcome
      <3> QED BY <2>2, <3>2, <3>3, <3>4 DEF Promise!Apply
    <2> QED BY <1>2, <2>3, <2>4, StepOfDevice DEF Promise!Next
  <1>3. CASE Outside \/ UNCHANGED vars
    BY <1>3 DEF Outside, vars, callVars, deviceVars, Outcome
  <1> QED BY <1>1, <1>2, <1>3 DEF Next

(* RouterOSExecutor implements OperationOutcome.                           *)
THEOREM Refinement == Spec => KeepsPromise
  BY PromiseInit, PromiseStep, Invariance, PTL DEF Spec, KeepsPromise, Promise!Spec

-----------------------------------------------------------------------------
(***************************************************************************)
(* What a preflight is worth to the operation that follows it, for any     *)
(* number of calls, rows and outside changes: every promise of the         *)
(* executor still holds, and if no operation names a row by its id, the    *)
(* row that is changed has borne the name that was judged.                 *)
(***************************************************************************)

(* A preflight adds nothing to what the executor may do. *)
LEMMA CallerStep == NextCaller => [Next]_vars
  BY DEF NextCaller, Preflight, Next

(* A call that is preflighted first is a call of the executor, and keeps   *)
(* all that is proved of it.                                               *)
THEOREM CallerKeepsExecutor == SpecCaller => Spec
  <1>1. InitCaller => Init
    BY DEF InitCaller
  <1>2. [NextCaller]_<<vars, callerVars>> => [Next]_vars
    BY CallerStep
  <1> QED BY <1>1, <1>2, PTL DEF SpecCaller, Spec

-----------------------------------------------------------------------------
(* Where a call has come, its preflight has judged the operation's         *)
(* interface, and what its lookup selected has borne that, where the       *)
(* lookup asks for it.                                                     *)
JudgedFits(c) ==
    /\ pc[c] # "idle" => judged[c] # NoName
    /\ judged[c] # NoName => judged[c] = OperationInterface(op[c])
    /\ judged[c] = NoName => seen[c] = {}
    /\ FoundByWhatIsRead(op[c]) => seen[c] \cap Ids \subseteq borne[c]

Judged ==
    /\ judged \in [Calls -> Values \cup {NoName}]
    /\ borne \in [Calls -> SUBSET Ids]
    /\ \A c \in Calls : JudgedFits(c)

LEMMA InterfaceType ==
    ASSUME NEW o \in OperationType
    PROVE  OperationInterface(o) \in Values \cup {NoName}
  <1>1. PICK D \in SUBSET Fields : o.match \in [D -> Values]
    BY DEF OperationType, Dict
  <1> QED BY <1>1 DEF OperationInterface, SaidBy, OperationType

LEMMA RowsBearingType ==
    ASSUME NEW t \in Table, NEW o
    PROVE  RowsBearing(t, o) \in SUBSET Ids
  BY RowType DEF RowsBearing

(* The filters of an operation that finds its row by what the preflight    *)
(* reads ask for the interface, in the field that it was taken from.       *)
LEMMA FiltersAskForTheInterface ==
    ASSUME NEW o \in OperationType, OperationInterface(o) # NoName,
           FoundByWhatIsRead(o)
    PROVE  /\ JudgedField(o) \in DOMAIN ResourceFilters(o)
           /\ ResourceFilters(o)[JudgedField(o)] = OperationInterface(o)
  <1>1. CASE Said(o.name)
    BY <1>1 DEF JudgedField, OperationInterface, ResourceFilters, Said
  <1>2. CASE ~Said(o.name)
    <2>1. o.name = NoName
      BY <1>2 DEF Said, FoundByWhatIsRead
    <2>2. /\ JudgedField(o) \in DOMAIN o.match
          /\ OperationInterface(o) = o.match[JudgedField(o)]
      BY <1>2 DEF OperationInterface, SaidBy
    <2> QED BY <2>1, <2>2 DEF ResourceFilters, Filters
  <1> QED BY <1>1, <1>2

LEMMA SelectedIsNamed ==
    ASSUME NEW c \in Calls, IInv, JudgedFits(c), wire[c] = "sent",
           Step(c).name = "lookup", FoundByWhatIsRead(op[c])
    PROVE  Selected(c) \cap Ids \subseteq RowsBearing(table, op[c])
  <1>1. PlanFacts(c) /\ CallFits(c) /\ TypeOK
    BY Given
  <1>2. next[c] \in 1..Last(c) /\ pc[c] # "idle"
    BY UnderWay
  <1>3. Target(c) = Collection
    BY <1>1, <1>2 DEF PlanFacts, Step, Target, Collection, ResolvedId
  <1>4. op[c] \in OperationType
    BY <1>1, ExecutorAssumption DEF TypeOK
  <1>5. OperationInterface(op[c]) # NoName
    BY <1>2 DEF JudgedFits
  <1>6. Step(c).params = ResourceFilters(op[c])
    <2>1. CarriesWhatItSays(op[c], PlanRouterOSOperation(op[c]))
      BY <1>4, PlanCarriesWhatItSays
    <2>2. next[c] \in DOMAIN Steps(c)
      BY <1>1, <1>2 DEF Last, PlanFacts
    <2> QED BY <2>1, <2>2 DEF CarriesWhatItSays, Step, Steps
  <1>7. /\ JudgedField(op[c]) \in DOMAIN Step(c).params
        /\ Step(c).params[JudgedField(op[c])] = OperationInterface(op[c])
    BY <1>4, <1>5, <1>6, FiltersAskForTheInterface
  <1>8. Matching(table, Step(c).params) \subseteq RowsBearing(table, op[c])
    BY <1>5, <1>7 DEF Matching, RowsBearing
  <1>9. NoId \notin Ids
    BY IdsAssumption
  <1> QED BY <1>3, <1>8, <1>9 DEF Selected

LEMMA JudgedInit == InitCaller => Judged
  BY DEF InitCaller, Init, Judged, JudgedFits

LEMMA PreflightStep ==
    ASSUME NEW c \in Calls, IInv, Judged, Preflight(c)
    PROVE  Judged'
  <1>1. op[c] \in OperationType /\ table \in Table
    BY ExecutorAssumption DEF IInv, TypeOK
  <1>2. OperationInterface(op[c]) \in Values \cup {NoName}
    BY <1>1, InterfaceType
  <1>3. RowsBearing(table, op[c]) \in SUBSET Ids
    BY <1>1, RowsBearingType
  <1>4. UNCHANGED <<op, pc, seen>>
    BY DEF Preflight, vars, callVars, deviceVars
  <1>5. /\ judged' = [judged EXCEPT ![c] = OperationInterface(op[c])]
        /\ borne' = [borne EXCEPT ![c] = RowsBearing(table, op[c])]
        /\ judged[c] = NoName /\ OperationInterface(op[c]) # NoName
    BY DEF Preflight
  <1>6. /\ judged' \in [Calls -> Values \cup {NoName}]
        /\ borne' \in [Calls -> SUBSET Ids]
    BY <1>2, <1>3, <1>5 DEF Judged
  <1>7. ASSUME NEW d \in Calls PROVE JudgedFits(d)'
    <2>1. CASE d = c
      <3>1. seen[c] = {}
        BY <1>5 DEF Judged, JudgedFits
      <3>2. judged'[c] = OperationInterface(op[c]) /\ judged'[c] # NoName
        BY <1>5 DEF Judged
      <3>3. op'[c] = op[c] /\ seen'[c] = {}
        BY <1>4, <3>1
      <3>4. OperationInterface(op[c])' = OperationInterface(op[c])
        BY <1>4 DEF OperationInterface, JudgedField, SaidBy, Said
      <3> QED BY <2>1, <3>2, <3>3, <3>4 DEF JudgedFits
    <2>2. CASE d # c
      <3>1. judged'[d] = judged[d] /\ borne'[d] = borne[d]
        BY <1>5, <2>2 DEF Judged
      <3>2. OperationInterface(op[d])' = OperationInterface(op[d])
        BY <1>4 DEF OperationInterface, JudgedField, SaidBy, Said
      <3> QED BY <1>4, <3>1, <3>2 DEF Judged, JudgedFits, FoundByWhatIsRead
    <2> QED BY <2>1, <2>2
  <1> QED BY <1>6, <1>7 DEF Judged

(* While the rows are watched, a call keeps what it has unless it sets out *)
(* unjudged or its lookup selects rows that do not bear the name.          *)
LEMMA WatchStep ==
    ASSUME IInv, IInv', Judged, Watch, op' = op,
           \A c \in Calls : pc'[c] # "idle" => judged[c] # NoName,
           \A c \in Calls :
               \/ seen'[c] = seen[c]
               \/ /\ judged[c] # NoName
                  /\ FoundByWhatIsRead(op[c]) =>
                        seen'[c] \cap Ids \subseteq RowsBearing(table', op[c])
    PROVE  Judged'
  <1>1. table' \in Table
    BY DEF IInv, TypeOK
  <1>2. \A o : RowsBearing(table', o) \in SUBSET Ids
    BY <1>1, RowsBearingType
  <1>3. /\ judged' = judged
        /\ borne' = [c \in Calls |-> borne[c] \cup RowsBearing(table', op[c])]
    BY DEF Watch
  <1>4. judged' \in [Calls -> Values \cup {NoName}] /\ borne' \in [Calls -> SUBSET Ids]
    BY <1>2, <1>3 DEF Judged
  <1>5. ASSUME NEW c \in Calls PROVE JudgedFits(c)'
    <2>1. JudgedFits(c) /\ op'[c] = op[c] /\ judged'[c] = judged[c]
      BY <1>3 DEF Judged
    <2>2. OperationInterface(op[c])' = OperationInterface(op[c])
      BY <2>1 DEF OperationInterface, JudgedField, SaidBy, Said
    <2>3. FoundByWhatIsRead(op[c]) => seen'[c] \cap Ids \subseteq borne'[c]
      <3>1. borne'[c] = borne[c] \cup RowsBearing(table', op[c])
        BY <1>3
      <3> QED BY <2>1, <3>1 DEF JudgedFits
    <2> QED BY <2>1, <2>2, <2>3 DEF JudgedFits, FoundByWhatIsRead
  <1> QED BY <1>4, <1>5 DEF Judged

LEMMA JudgedStep ==
    ASSUME IInv, IInv', Judged, NextCaller
    PROVE  Judged'
  <1>1. ASSUME NEW c \in Calls, Preflight(c) PROVE Judged'
    BY <1>1, PreflightStep
  <1>2. ASSUME NEW c \in Calls, judged[c] # NoName, CallStep(c), Watch
        PROVE  Judged'
    <2>1. op' = op /\ \A d \in Calls \ {c} : Untouched(d)
      BY <1>2, Locality DEF IInv
    <2>2. seen' = seen
      BY <1>2 DEF CallStep, RefuseUnsupported, Begin, Send, RefuseUnresolved,
             Resolve, RefuseLookup, KeepOutput, GiveUp, Finish, Receive, deviceVars
    <2>3. \A d \in Calls : pc'[d] # "idle" => judged[d] # NoName
      BY <1>2, <2>1 DEF Judged, JudgedFits, Untouched
    <2> QED BY <1>2, <2>1, <2>2, <2>3, WatchStep
  <1>3. ASSUME NEW c \in Calls, DeviceStep(c), Watch
        PROVE  Judged'
    <2>1. UNCHANGED callVars /\ wire[c] = "sent"
      BY <1>3, StepOfDevice
    <2>2. \A d \in Calls : pc'[d] # "idle" => judged[d] # NoName
      BY <2>1 DEF callVars, Judged, JudgedFits
    <2>3. seen' = seen \/ (/\ table' = table /\ Step(c).name = "lookup"
                           /\ seen' = [seen EXCEPT ![c] = Selected(c)])
      BY <1>3 DEF DeviceStep, ServeGet, ServePut, ServePatch, ServeDelete,
             ServeCommand, Reject, deviceVars
    <2>4. seen \in [Calls -> Data] /\ JudgedFits(c)
      BY DEF IInv, TypeOK, Judged
    <2>5. pc[c] # "idle"
      BY <2>1, UnderWay
    <2>6. \A d \in Calls :
               \/ seen'[d] = seen[d]
               \/ /\ judged[d] # NoName
                  /\ FoundByWhatIsRead(op[d]) =>
                        seen'[d] \cap Ids \subseteq RowsBearing(table', op[d])
      <3>1. CASE seen' = seen
        BY <3>1
      <3>2. CASE /\ table' = table /\ Step(c).name = "lookup"
                 /\ seen' = [seen EXCEPT ![c] = Selected(c)]
        <4>1. FoundByWhatIsRead(op[c]) =>
                 Selected(c) \cap Ids \subseteq RowsBearing(table', op[c])
          BY <2>1, <2>4, <3>2, SelectedIsNamed
        <4> QED BY <2>4, <2>5, <3>2, <4>1 DEF JudgedFits
      <3> QED BY <2>3, <3>1, <3>2
    <2> QED BY <1>3, <2>1, <2>2, <2>6, WatchStep DEF callVars
  <1>4. ASSUME Outside, Watch PROVE Judged'
    <2>1. UNCHANGED <<op, pc, seen>>
      BY <1>4 DEF Outside, callVars
    <2>2. \A d \in Calls : pc'[d] # "idle" => judged[d] # NoName
      BY <2>1 DEF Judged, JudgedFits
    <2> QED BY <1>4, <2>1, <2>2, WatchStep
  <1> QED BY <1>1, <1>2, <1>3, <1>4 DEF NextCaller

LEMMA JudgedSame ==
    ASSUME Judged, UNCHANGED <<vars, callerVars>>
    PROVE  Judged'
  <1>1. UNCHANGED <<op, pc, seen, judged, borne>>
    BY DEF vars, callVars, deviceVars, callerVars
  <1>2. \A c \in Calls : OperationInterface(op[c])' = OperationInterface(op[c])
    BY <1>1 DEF OperationInterface, JudgedField, SaidBy, Said
  <1> QED BY <1>1, <1>2 DEF Judged, JudgedFits, FoundByWhatIsRead

LEMMA JudgedAlways == SpecCaller => []Judged
  <1>1. IInv /\ IInv' /\ Judged /\ [NextCaller]_<<vars, callerVars>> => Judged'
    BY JudgedStep, JudgedSame
  <1>2. SpecCaller => []IInv
    BY CallerKeepsExecutor, Invariance, PTL
  <1> QED BY <1>1, <1>2, JudgedInit, PTL DEF SpecCaller

-----------------------------------------------------------------------------
(* Of an operation that finds its row by what the preflight reads, the row *)
(* that is patched or deleted has borne what was judged since the          *)
(* preflight: the executor looks up with a filter on the very field that   *)
(* the preflight judged, and changes the one row that the lookup selected. *)
THEOREM JudgedIsChanged == SpecCaller => []ChangesWhatWasJudged
  <1>1. IInv /\ Judged => ChangesWhatWasJudged
    <2> SUFFICES ASSUME IInv, Judged, NEW c \in Calls, NEW k \in DOMAIN effects[c],
                        FoundByWhatIsRead(op[c]),
                        effects[c][k].method \in {"PATCH", "DELETE"}
                 PROVE  effects[c][k].at \in borne[c]
      BY DEF ChangesWhatWasJudged
    <2>1. op[c].id = NoId
      BY DEF FoundByWhatIsRead
    <2>2. ChangesTheRightRow
      BY RightRowState
    <2>3. seen[c] = {effects[c][k].at}
      BY <2>1, <2>2 DEF ChangesTheRightRow, RightRow
    <2>4. effects[c][k].at \in Ids
      <3>1. effects[c] \in Seq(Effect) /\ seen[c] \in Data
        BY DEF IInv, TypeOK
      <3>2. effects[c][k] \in Effect
        BY <3>1
      <3>3. effects[c][k].at \in Ids \cup {Command}
        BY <3>2 DEF Effect
      <3> QED BY <2>3, <3>1, <3>3 DEF Data, NoId, Command
    <2> QED BY <2>3, <2>4 DEF Judged, JudgedFits
  <1>2. SpecCaller => []IInv
    BY CallerKeepsExecutor, Invariance, PTL
  <1> QED BY <1>1, <1>2, JudgedAlways, PTL
=============================================================================
