-------------------------- MODULE RouterOSExecutor --------------------------
(***************************************************************************)
(* RouterOSExecutor.execute: concurrent calls, each carrying one operation *)
(* out against one shared RouterOS menu over HTTP                          *)
(* (network_lang/adapters/mikrotik_routeros.py, class RouterOSExecutor,    *)
(* over class RouterOSRestTransport).                                      *)
(*                                                                         *)
(* A call runs its plan step by step in its own thread or process; nothing *)
(* is shared between calls but the device.  The device serves one request  *)
(* at a time, atomically.  Between two requests of a call anything may     *)
(* happen to it: requests of other calls, and changes made by people and   *)
(* programs that do not use this library.  A request or a reply may be     *)
(* lost and the transport gives up after its timeout; a request that was   *)
(* sent may still reach the device after that.                             *)
(***************************************************************************)
EXTENDS RouterOSPlan

CONSTANTS
    Calls,       \* the executions, one operation each
    Operations,  \* the operations they may be given
    DefaultRow,  \* what a new row holds in the fields its body leaves out
    OutsideRows  \* the rows that others than these calls write

Row   == [Fields -> Values]
Table == UNION {[S -> Row] : S \in SUBSET Ids}

ASSUME ExecutorAssumption ==
    /\ Operations \subseteq OperationType
    /\ DefaultRow \in Row
    /\ OutsideRows \subseteq Row

VARIABLES
    op,       \* call -> the operation it was given
    pc,       \* call -> where its executor stands
    next,     \* call -> the number of the plan step it is at
    resolved, \* call -> resolved_id
    outputs,  \* call -> what the steps other than the lookup returned
    result,   \* call -> the result it returned
    wire,     \* call -> what became of its last request
    reply,    \* call -> the rows its last reply carries
    table,    \* the device: its rows by id
    spent,    \* the device: ids it has ever given out
    effects,  \* history: call -> the changes the device made for it
    seen      \* history: call -> the rows its lookup matched when served

callVars   == <<op, pc, next, resolved, outputs, result>>
deviceVars == <<table, spent, effects, seen>>
vars       == <<callVars, wire, reply, deviceVars>>

Steps(c) == PlanRouterOSOperation(op[c]).steps
Step(c)  == Steps(c)[next[c]]

(* path.replace("<resolved-id>", resolved_id): the request as sent. *)
Target(c) == IF Step(c).at = ResolvedId THEN resolved[c] ELSE Step(c).at

Pending == [code |-> "pending", data |-> <<>>]
Error(code) == [code |-> code, data |-> <<>>]
Ok(data) == [code |-> "ok", data |-> data]

LookupErrors == {"LOOKUP_NOT_FOUND", "LOOKUP_NOT_UNIQUE", "LOOKUP_MISSING_ID"}
Refusals == LookupErrors \cup {"UNSUPPORTED_OPERATION", "LOOKUP_NOT_RESOLVED"}

Init ==
    /\ op \in [Calls -> Operations]
    /\ pc = [c \in Calls |-> "idle"]
    /\ next = [c \in Calls |-> 1]
    /\ resolved = [c \in Calls |-> NoId]
    /\ outputs = [c \in Calls |-> <<>>]
    /\ result = [c \in Calls |-> Pending]
    /\ wire = [c \in Calls |-> "none"]
    /\ reply = [c \in Calls |-> {}]
    /\ table \in UNION {[S -> OutsideRows] : S \in SUBSET Ids}
    /\ spent = DOMAIN table
    /\ effects = [c \in Calls |-> <<>>]
    /\ seen = [c \in Calls |-> {}]

-----------------------------------------------------------------------------
(* The executor. *)

Return(c, r) ==
    /\ pc' = [pc EXCEPT ![c] = "done"]
    /\ result' = [result EXCEPT ![c] = r]

RefuseUnsupported(c) ==
    /\ pc[c] = "idle"
    /\ ~Supported(PlanRouterOSOperation(op[c]))
    /\ Return(c, Error("UNSUPPORTED_OPERATION"))
    /\ UNCHANGED <<op, next, resolved, outputs, wire, reply, deviceVars>>

Begin(c) ==
    /\ pc[c] = "idle"
    /\ Supported(PlanRouterOSOperation(op[c]))
    /\ pc' = [pc EXCEPT ![c] = "ready"]
    /\ UNCHANGED <<op, next, resolved, outputs, result, wire, reply, deviceVars>>

(* Mutant of Send: the placeholder is sent as it is. *)
SendUnresolved(c) ==
    /\ pc[c] = "ready"
    /\ next[c] <= Len(Steps(c))
    /\ pc' = [pc EXCEPT ![c] = "waiting"]
    /\ wire' = [wire EXCEPT ![c] = "sent"]
    /\ UNCHANGED <<op, next, resolved, outputs, result, reply, deviceVars>>

(* The head of the loop over plan.steps. *)
Send(c) ==
    /\ pc[c] = "ready"
    /\ next[c] <= Len(Steps(c))
    /\ Step(c).at = ResolvedId => resolved[c] # NoId
    /\ pc' = [pc EXCEPT ![c] = "waiting"]
    /\ wire' = [wire EXCEPT ![c] = "sent"]
    /\ UNCHANGED <<op, next, resolved, outputs, result, reply, deviceVars>>

RefuseUnresolved(c) ==
    /\ pc[c] = "ready"
    /\ next[c] <= Len(Steps(c))
    /\ Step(c).at = ResolvedId
    /\ resolved[c] = NoId
    /\ Return(c, Error("LOOKUP_NOT_RESOLVED"))
    /\ UNCHANGED <<op, next, resolved, outputs, wire, reply, deviceVars>>

(* Mutant of LookupVerdict: the first of several rows will do. *)
VerdictTakingTheFirst(rows) ==
    CASE rows = {}      -> "LOOKUP_NOT_FOUND"
      [] rows = {NoId}  -> "LOOKUP_MISSING_ID"
      [] OTHER          -> "found"

(* _extract_single_id on the rows of a reply: a code or "found". *)
LookupVerdict(rows) ==
    CASE rows = {}                    -> "LOOKUP_NOT_FOUND"
      [] \E i, j \in rows : i # j     -> "LOOKUP_NOT_UNIQUE"
      [] rows = {NoId}                -> "LOOKUP_MISSING_ID"
      [] OTHER                        -> "found"

(* transport.request has returned: the reply is read. *)
Receive(c) ==
    /\ pc[c] = "waiting"
    /\ wire[c] = "answered"
    /\ wire' = [wire EXCEPT ![c] = "read"]
    /\ UNCHANGED <<op, reply, deviceVars>>

(* Mutant of Resolve: the text of the row is taken for its id. *)
ResolveWithoutExtracting(c) ==
    /\ Receive(c)
    /\ Step(c).name = "lookup"
    /\ LookupVerdict(reply[c]) = "found"
    /\ resolved' = [resolved EXCEPT ![c] = "row"]
    /\ next' = [next EXCEPT ![c] = next[c] + 1]
    /\ pc' = [pc EXCEPT ![c] = "ready"]
    /\ UNCHANGED <<outputs, result>>

(* Mutant of Resolve: no `continue', so the lookup's rows are kept too. *)
ResolveKeepingTheRows(c) ==
    /\ Receive(c)
    /\ Step(c).name = "lookup"
    /\ LookupVerdict(reply[c]) = "found"
    /\ resolved' = [resolved EXCEPT ![c] = CHOOSE i \in reply[c] : TRUE]
    /\ outputs' = [outputs EXCEPT ![c] = Append(outputs[c], reply[c])]
    /\ next' = [next EXCEPT ![c] = next[c] + 1]
    /\ pc' = [pc EXCEPT ![c] = "ready"]
    /\ UNCHANGED result

Resolve(c) ==
    /\ Receive(c)
    /\ Step(c).name = "lookup"
    /\ LookupVerdict(reply[c]) = "found"
    /\ resolved' = [resolved EXCEPT ![c] = CHOOSE i \in reply[c] : TRUE]
    /\ next' = [next EXCEPT ![c] = next[c] + 1]
    /\ pc' = [pc EXCEPT ![c] = "ready"]
    /\ UNCHANGED <<outputs, result>>

RefuseLookup(c) ==
    /\ Receive(c)
    /\ Step(c).name = "lookup"
    /\ LookupVerdict(reply[c]) # "found"
    /\ Return(c, Error(LookupVerdict(reply[c])))
    /\ UNCHANGED <<next, resolved, outputs>>

KeepOutput(c) ==
    /\ Receive(c)
    /\ Step(c).name # "lookup"
    /\ outputs' = [outputs EXCEPT ![c] = Append(outputs[c], reply[c])]
    /\ next' = [next EXCEPT ![c] = next[c] + 1]
    /\ pc' = [pc EXCEPT ![c] = "ready"]
    /\ UNCHANGED <<resolved, result>>

(* Mutants of GiveUp: the step is retried; only HTTP errors are caught.    *)
GiveUpRetrying(c) ==
    /\ pc[c] = "waiting"
    /\ pc' = [pc EXCEPT ![c] = "ready"]
    /\ UNCHANGED <<op, next, resolved, outputs, result, wire, reply, deviceVars>>

GiveUpOnReply(c) ==
    /\ pc[c] = "waiting"
    /\ wire[c] \in {"answered", "rejected"}
    /\ Return(c, Error("ADAPTER_ERROR"))
    /\ UNCHANGED <<op, next, resolved, outputs, wire, reply, deviceVars>>

(* transport.request has raised: the device refused (HTTP status of 400 or *)
(* more), the reply was lost or could not be read, or the timeout expired  *)
(* with the request still under way, which may reach the device later.     *)
GiveUp(c) ==
    /\ pc[c] = "waiting"
    /\ Return(c, Error("ADAPTER_ERROR"))
    /\ UNCHANGED <<op, next, resolved, outputs, wire, reply, deviceVars>>

(* Mutant of Finish: the last reply is not waited for. *)
FinishWithoutWaiting(c) ==
    /\ pc[c] = "waiting"
    /\ next[c] = Len(Steps(c))
    /\ Return(c, Ok(outputs[c]))
    /\ UNCHANGED <<op, next, resolved, outputs, wire, reply, deviceVars>>

Finish(c) ==
    /\ pc[c] = "ready"
    /\ next[c] > Len(Steps(c))
    /\ Return(c, Ok(outputs[c]))
    /\ UNCHANGED <<op, next, resolved, outputs, wire, reply, deviceVars>>

-----------------------------------------------------------------------------
(* The device and everybody else. *)

Matching(t, params) ==
    {i \in DOMAIN t : \A f \in DOMAIN params : t[i][f] = params[f]}

Restricted(t, S) == [i \in S |-> t[i]]
Written(t, i, row) == [j \in DOMAIN t \cup {i} |-> IF j = i THEN row ELSE t[j]]
Patched(row, body) == [f \in Fields |-> IF f \in DOMAIN body THEN body[f] ELSE row[f]]

Answer(c, rows) ==
    /\ wire' = [wire EXCEPT ![c] = "answered"]
    /\ reply' = [reply EXCEPT ![c] = rows]

Record(c, at) ==
    effects' = [effects EXCEPT
                  ![c] = Append(@, [method |-> Step(c).method, at |-> at])]

(* What a GET of the call's current path selects; a menu that holds one    *)
(* settings record, not rows, answers with that record, which has no id.   *)
Records == {"identity", "settings"}
Selected(c) ==
    CASE Step(c).menu \in Records  -> {NoId}
      [] Target(c) = Collection   -> Matching(table, Step(c).params)
      [] OTHER                    -> {Target(c)} \cap DOMAIN table

ServeGet(c) ==
    /\ wire[c] = "sent"
    /\ Step(c).method = "GET"
    /\ Target(c) \in Ids => Selected(c) # {}
    /\ Answer(c, Selected(c))
    /\ seen' = IF Step(c).name = "lookup"
               THEN [seen EXCEPT ![c] = Selected(c)] ELSE seen
    /\ UNCHANGED <<callVars, table, spent, effects>>

ServePut(c) ==
    /\ wire[c] = "sent"
    /\ Step(c).method = "PUT"
    /\ \E i \in Ids \ spent :
          /\ table' = Written(table, i, Patched(DefaultRow, Step(c).body))
          /\ spent' = spent \cup {i}
          /\ Answer(c, {i})
          /\ Record(c, i)
    /\ UNCHANGED <<callVars, seen>>

ServePatch(c) ==
    /\ wire[c] = "sent"
    /\ Step(c).method = "PATCH"
    /\ Step(c).menu \notin Records
    /\ Target(c) \in DOMAIN table
    /\ table' = Written(table, Target(c), Patched(table[Target(c)], Step(c).body))
    /\ Answer(c, {Target(c)})
    /\ Record(c, Target(c))
    /\ UNCHANGED <<callVars, spent, seen>>

ServeDelete(c) ==
    /\ wire[c] = "sent"
    /\ Step(c).method = "DELETE"
    /\ Step(c).menu \notin Records
    /\ Target(c) \in DOMAIN table
    /\ table' = Restricted(table, DOMAIN table \ {Target(c)})
    /\ Answer(c, {})
    /\ Record(c, Target(c))
    /\ UNCHANGED <<callVars, spent, seen>>

(* Any change of the menu: a row added, dropped or rewritten. *)
Disturb ==
    \/ \E i \in Ids \ spent, row \in OutsideRows :
          /\ table' = Written(table, i, row)
          /\ spent' = spent \cup {i}
    \/ \E i \in DOMAIN table :
          /\ table' = Restricted(table, DOMAIN table \ {i})
          /\ spent' = spent
    \/ \E i \in DOMAIN table, row \in OutsideRows :
          /\ table' = Written(table, i, row)
          /\ spent' = spent

(* A command (POST) may read, or change the menu. *)
ServeCommand(c) ==
    /\ wire[c] = "sent"
    /\ Step(c).method = "POST"
    /\ Answer(c, {})
    /\ Record(c, Command)
    /\ Disturb \/ UNCHANGED <<table, spent>>
    /\ UNCHANGED <<callVars, seen>>

(* 404 for a row that is gone, or any refusal of the device's own. *)
Reject(c) ==
    /\ wire[c] = "sent"
    /\ wire' = [wire EXCEPT ![c] = "rejected"]
    /\ UNCHANGED <<callVars, reply, deviceVars>>

Outside ==
    /\ Disturb
    /\ UNCHANGED <<callVars, wire, reply, effects, seen>>

-----------------------------------------------------------------------------
CallStep(c) ==
    \/ RefuseUnsupported(c)
    \/ Begin(c)
    \/ Send(c)
    \/ RefuseUnresolved(c)
    \/ Resolve(c)
    \/ RefuseLookup(c)
    \/ KeepOutput(c)
    \/ GiveUp(c)
    \/ Finish(c)

DeviceStep(c) ==
    \/ ServeGet(c)
    \/ ServePut(c)
    \/ ServePatch(c)
    \/ ServeDelete(c)
    \/ ServeCommand(c)
    \/ Reject(c)

Next ==
    \/ \E c \in Calls : CallStep(c) \/ DeviceStep(c)
    \/ Outside

Spec == Init /\ [][Next]_vars

(* Each call is a running thread, and its transport raises when the timeout *)
(* expires: a call that can step does.  Nothing is assumed of the device.   *)
FairSpec == Spec /\ \A c \in Calls : WF_vars(CallStep(c))

-----------------------------------------------------------------------------
(* Properties. *)

Data == SUBSET (Ids \cup {NoId})
ResultType == [code : {"pending", "ok", "ADAPTER_ERROR"} \cup Refusals,
               data : Seq(Data)]
Effect == [method : Methods, at : Ids \cup {Command}]

(* Every variable stays within its type. *)
TypeOK ==
    /\ op \in [Calls -> Operations]
    /\ pc \in [Calls -> {"idle", "ready", "waiting", "done"}]
    /\ next \in [Calls -> 1..3]
    /\ resolved \in [Calls -> Ids \cup {NoId}]
    /\ outputs \in [Calls -> Seq(Data)]
    /\ result \in [Calls -> ResultType]
    /\ wire \in [Calls -> {"none", "sent", "answered", "rejected", "read"}]
    /\ reply \in [Calls -> Data]
    /\ table \in Table
    /\ spent \in SUBSET Ids
    /\ DOMAIN table \subseteq spent
    /\ effects \in [Calls -> Seq(Effect)]
    /\ seen \in [Calls -> Data]

(* One call changes the device at most once, whatever is lost or late: the *)
(* executor never repeats a step whose outcome it does not know.           *)
AtMostOneEffect == \A c \in Calls : Len(effects[c]) <= 1

(* A call that answers with a refusal (unsupported, or any LOOKUP error)   *)
(* has changed nothing and has no request under way that could.            *)
RefusalIsHarmless ==
    \A c \in Calls :
        result[c].code \in Refusals => effects[c] = <<>> /\ wire[c] # "sent"

(* The row a change must land on: the one the caller named by id, or the   *)
(* only one that the filters selected when the lookup was served.          *)
RightRow(c, at) ==
    IF op[c].id # NoId THEN at = op[c].id ELSE seen[c] = {at}

(* No call ever patches or deletes a row that its operation does not name, *)
(* even when the call ends in an error and the change lands later.         *)
ChangesTheRightRow ==
    \A c \in Calls : \A k \in DOMAIN effects[c] :
        effects[c][k].method \in {"PATCH", "DELETE"}
            => RightRow(c, effects[c][k].at)

(* ok=True means what a caller takes it to mean: an operation that acts    *)
(* has been carried out, one that reads has changed nothing, and the data  *)
(* is the reply to the last step alone, not the lookup's rows.             *)
OkMeansDone ==
    \A c \in Calls : result[c].code = "ok" =>
        /\ Len(effects[c]) = IF Acts(op[c]) THEN 1 ELSE 0
        /\ result[c].data = <<reply[c]>>

(* Once a call has answered anything but ADAPTER_ERROR its part is over:   *)
(* no request of its own changes the device behind the caller's back.      *)
AnswerIsFinal ==
    [][\A c \in Calls :
          result[c].code \notin {"pending", "ADAPTER_ERROR"}
              => effects'[c] = effects[c] /\ result'[c] = result[c]]_vars

(* The fields an operation may write on a row that exists.                 *)
FieldsOf(o) == IF o.action = "update" THEN DOMAIN o.body ELSE {"disabled"}

(* A patch made for a call rewrites only the fields its operation mentions *)
(* and no row but its target, so two calls on different fields of one row  *)
(* do not undo each other although each looks the row up first.            *)
PatchKeepsTheRest ==
    [][\A c \in Calls :
          (effects'[c] # effects[c] /\ Step(c).method = "PATCH") =>
             /\ DOMAIN table' = DOMAIN table
             /\ \A i \in DOMAIN table, f \in Fields :
                   i # Target(c) \/ f \notin FieldsOf(op[c])
                      => table'[i][f] = table[i][f]]_vars

(* An operation of the class "read" never makes the device do anything.    *)
ReadRiskIsReadOnly ==
    \A c \in Calls : Risk(op[c]) = "read" => effects[c] = <<>>

(* What a caller sees of a call. *)
Outcome(c) ==
    CASE result[c].code = "pending"   -> "pending"
      [] result[c].code = "ok"        -> "ok"
      [] result[c].code \in Refusals  -> "refused"
      [] OTHER                        -> "unknown"

Promise == INSTANCE OperationOutcome WITH
    kind    <- [c \in Calls |-> IF Acts(op[c]) THEN "act" ELSE "read"],
    outcome <- [c \in Calls |-> Outcome(c)],
    applied <- [c \in Calls |-> Len(effects[c])]

(* The executor keeps the promise of OperationOutcome: it acts at most     *)
(* once, and its result says truly whether it has.                         *)
KeepsPromise == Promise!Spec

(* Every call returns: each wait ends with a reply or with the timeout.    *)
EveryCallReturns == \A c \in Calls : <>(pc[c] = "done")

-----------------------------------------------------------------------------
(* The inductive invariant: where a call stands determines what it has     *)
(* learnt and what the device has done for it.                             *)

Last(c)    == Len(Steps(c))
Planned(c) == Supported(PlanRouterOSOperation(op[c]))
OnTheWire  == {"sent", "answered", "rejected"}

(* Control: the pc, the state of the last request and the result agree.    *)
ControlFits(c) ==
    /\ pc[c] = "idle" => wire[c] = "none"
    /\ pc[c] = "done" <=> result[c].code # "pending"
    /\ pc[c] \in {"ready", "waiting"} => Planned(c)
    /\ pc[c] = "ready" => wire[c] \in {"none", "read"}
    /\ pc[c] = "waiting" => wire[c] \in OnTheWire
    /\ wire[c] # "none" => Planned(c)
    /\ wire[c] = "none" => next[c] = 1
    /\ wire[c] \in OnTheWire =>
          /\ pc[c] \in {"waiting", "done"}
          /\ next[c] <= Last(c)
          /\ Step(c).at = ResolvedId => resolved[c] # NoId
    /\ Planned(c) => next[c] <= Last(c) + 1

(* The step at which the call stands is one whose effect, if it has one,   *)
(* has happened.                                                           *)
Served(c) ==
    /\ Planned(c)
    /\ next[c] > Last(c) \/ (next[c] = Last(c) /\ wire[c] = "answered")

(* The device has acted for the call exactly when it has answered the last *)
(* step, and that step acts.                                               *)
EffectFits(c) ==
    /\ ~Served(c) => effects[c] = <<>>
    /\ Served(c) =>
          IF Steps(c)[Last(c)].method = "GET"
          THEN effects[c] = <<>>
          ELSE /\ Len(effects[c]) = 1
               /\ effects[c][1].method = Steps(c)[Last(c)].method
               /\ effects[c][1].method \in {"PATCH", "DELETE"}
                     => RightRow(c, effects[c][1].at)

(* After its lookup a call knows the one row that the lookup selected.     *)
LookupFits(c) ==
    /\ Last(c) = 1 => resolved[c] = NoId
    /\ (Last(c) = 2 /\ next[c] = 1) => resolved[c] = NoId
    /\ (Last(c) = 2 /\ next[c] = 1 /\ wire[c] = "answered") => seen[c] = reply[c]
    /\ (Last(c) = 2 /\ next[c] > 1) => resolved[c] \in Ids /\ seen[c] = {resolved[c]}

(* Only the reply to the last step is kept.                                *)
OutputFits(c) ==
    /\ (Planned(c) /\ next[c] <= Last(c)) => outputs[c] = <<>>
    /\ (Planned(c) /\ next[c] > Last(c)) =>
          outputs[c] = <<reply[c]>> /\ wire[c] = "read"

ResultFits(c) ==
    /\ result[c].code \in Refusals => ~Served(c) /\ wire[c] \in {"none", "read"}
    /\ result[c].code = "ok" =>
          /\ Planned(c)
          /\ next[c] > Last(c)
          /\ result[c].data = outputs[c]

CallFits(c) ==
    /\ ControlFits(c)
    /\ EffectFits(c)
    /\ LookupFits(c)
    /\ OutputFits(c)
    /\ ResultFits(c)

(* What every step of the system preserves, from which the rest follows.   *)
Consistent == \A c \in Calls : CallFits(c)
=============================================================================
