-------------------------- MODULE TopologyPreflight --------------------------
(***************************************************************************)
(* preflight_routeros_operation: two reads of one device, then a judgement *)
(* (network_lang/adapters/mikrotik_routeros.py, network_lang/topology.py). *)
(*                                                                         *)
(* Between the reads, and after them, neighbors are plugged elsewhere and  *)
(* ports change.  A read may fail.  What was true when each read was       *)
(* served is kept as history, to say what a report may be relied on for.   *)
(***************************************************************************)
EXTENDS Reconciliation

CONSTANTS
    Neighbors,   \* the devices attached to the target
    KeysOf,      \* neighbor -> the identity keys its discovery row carries
    Interfaces,  \* interfaces of the target
    Ports,       \* those of them that may be bridge ports
    Target,      \* the name of the target, operation.target
    PortRows,    \* what a row of /interface/bridge/port may say of a port
    Inventories, \* lists of expected attachments
    Requests,    \* operations: what _operation_interface finds in them
    MaxChanges   \* bound: changes of the network after the start

NoInterface == "no interface"  \* a row without one; an operation without one
Absent      == "absent"        \* where a neighbor is that is not attached
NoTarget    == "no target"     \* the target of an operation that has none

ASSUME PreflightAssumption ==
    /\ {NoInterface, Absent} \cap Interfaces = {}
    /\ Ports \subseteq Interfaces
    /\ MaxChanges \in Nat
    /\ Requests \subseteq Interfaces \cup {NoInterface}

(* An inventory numbers its records; a place has three parts. *)
ASSUME InventoriesAssumption ==
    \A e \in Inventories :
        /\ DOMAIN e \subseteq Nat
        /\ \A k \in DOMAIN e :
              e[k].at = [device |-> e[k].at.device, interface |-> e[k].at.interface,
                         scope |-> e[k].at.scope]

VARIABLES
    where,     \* neighbor -> the interface its row names
    port,      \* the interfaces that are bridge ports -> their rows
    changes,   \* how often the network has changed
    expected,  \* the expected attachments given
    target,    \* the target of the operation
    interface, \* the interface of the operation
    pc,        \* where the preflight stands
    observed,  \* the attachments collected
    states,    \* the bridge ports collected -> their states
    result,    \* what the preflight returned
    whereRead, \* history: where, when the neighbors were read
    portRead   \* history: port, when the ports were read

network == <<where, port, changes>>
given   == <<expected, target, interface>>
history == <<whereRead, portRead>>
vars == <<network, given, pc, observed, states, result, history>>

Pending == [code |-> "pending"]
Nowhere == [n \in Neighbors |-> Absent]
NoPorts == [i \in {} |-> "none"]
PortTables == UNION {[S -> PortRows] : S \in SUBSET Ports}

Places == Interfaces \cup {NoInterface, Absent}

Init ==
    /\ where \in [Neighbors -> Places]
    /\ port \in PortTables
    /\ changes = 0
    /\ expected \in Inventories
    /\ target \in {Target, NoTarget}
    /\ interface \in Requests
    /\ pc = "neighbors"
    /\ observed = <<>>
    /\ states = NoPorts
    /\ result = Pending
    /\ whereRead = Nowhere
    /\ portRead = NoPorts

-----------------------------------------------------------------------------
(* The rows of the neighbors that are attached, in any order. *)
Orders(S) ==
    {s \in [1 .. Cardinality(S) -> S] : \A x \in S : \E i \in DOMAIN s : s[i] = x}

(* Mutant of Attachments: rows without an interface are kept. *)
AttachmentsOfAll(rows) ==
    [k \in DOMAIN rows |->
        [keys |-> KeysOf[rows[k]], by |-> rows[k],
         at |-> [device |-> Target, interface |-> where[rows[k]],
                 scope |-> "none"]]]

(* routeros_neighbors_to_attachments: rows without an interface are left   *)
(* out, and no row has a scope.                                            *)
Attachments(rows) ==
    [k \in {j \in DOMAIN rows : where[rows[j]] # NoInterface} |->
        [keys |-> KeysOf[rows[k]], by |-> rows[k],
         at |-> [device |-> Target, interface |-> where[rows[k]],
                 scope |-> "none"]]]

(* The operation has no target to read from. *)
RequireTarget ==
    /\ pc = "neighbors"
    /\ target = NoTarget
    /\ result' = [code |-> "TARGET_REQUIRED"]
    /\ pc' = "done"
    /\ UNCHANGED <<network, given, observed, states, history>>

ReadNeighbors ==
    /\ pc = "neighbors"
    /\ target # NoTarget
    /\ \E rows \in Orders({n \in Neighbors : where[n] # Absent}) :
          observed' = Attachments(rows)
    /\ whereRead' = where
    /\ pc' = "ports"
    /\ UNCHANGED <<network, given, states, result, portRead>>

ReadPorts ==
    /\ pc = "ports"
    /\ states' = [i \in DOMAIN port |-> InterfaceState(port[i])]
    /\ portRead' = port
    /\ pc' = "judging"
    /\ UNCHANGED <<network, given, observed, result, whereRead>>

(* One of the two list operations is not ok: its error is passed on. *)
ReadFails ==
    /\ pc \in {"neighbors", "ports"}
    /\ target # NoTarget
    /\ result' = [code |-> "unavailable"]
    /\ pc' = "done"
    /\ UNCHANGED <<network, given, observed, states, history>>

(* preflight_interface_operation of an operation that names no interface. *)
JudgeNothing ==
    /\ pc = "judging"
    /\ interface = NoInterface
    /\ result' = [code |-> "PREFLIGHT_RISK"]
    /\ pc' = "done"
    /\ UNCHANGED <<network, given, observed, states, history>>

Report(seen) == ScopedReport(expected, seen, Target, interface)

Clear(seen) ==
    /\ Risks(Report(seen)) = {} /\ ReportOk(Report(seen))
    /\ \A state \in MatchingStates(states, interface) : ~StateRisky(state)

Judge ==
    /\ pc = "judging"
    /\ interface # NoInterface
    /\ result' = [code   |-> IF Clear(observed) THEN "clear" ELSE "PREFLIGHT_RISK",
                  report |-> Report(observed)]
    /\ pc' = "done"
    /\ UNCHANGED <<network, given, observed, states, history>>

(* The network does not wait. *)
Rewire ==
    /\ changes < MaxChanges
    /\ changes' = changes + 1
    /\ \E n \in Neighbors, i \in Places : where' = [where EXCEPT ![n] = i]
    /\ UNCHANGED <<port, given, pc, observed, states, result, history>>

PortChanges ==
    /\ changes < MaxChanges
    /\ changes' = changes + 1
    /\ port' \in PortTables
    /\ UNCHANGED <<where, given, pc, observed, states, result, history>>

Preflight ==
    \/ RequireTarget
    \/ ReadNeighbors
    \/ ReadPorts
    \/ ReadFails
    \/ JudgeNothing
    \/ Judge

Next == Preflight \/ Rewire \/ PortChanges

Spec == Init /\ [][Next]_vars

-----------------------------------------------------------------------------
(* Properties. *)

(* Every variable stays within its type. *)
TypeOK ==
    /\ where \in [Neighbors -> Places]
    /\ port \in PortTables
    /\ changes \in 0..MaxChanges
    /\ pc \in {"neighbors", "ports", "judging", "done"}
    /\ \A k \in DOMAIN observed :
          observed[k].by \in Neighbors /\ observed[k].at.interface \in Interfaces
    /\ DOMAIN states \subseteq Ports
    /\ result.code \in
          {"pending", "TARGET_REQUIRED", "unavailable", "clear", "PREFLIGHT_RISK"}

(* The expected attachments of the interface, and whether a neighbor is    *)
(* known by a key of one, said without reference to the reconciliation.    *)
Here == {k \in DOMAIN expected : At(expected[k], Target, interface)}
Known(n, k) == KeysOf[n] \cap expected[k].keys # {}
Unscoped(k) == expected[k].at.scope = "none"
SeenAt(i) == {n \in Neighbors : whereRead[n] = i}
Elsewhere == {n \in Neighbors : whereRead[n] \in Interfaces \ {interface}}

(* All the devices on the interface are expected there, all that are       *)
(* expected there are on it, and none of them is seen elsewhere.           *)
NeighborsAsExpected ==
    /\ \A n \in SeenAt(interface) : \E k \in Here : Known(n, k)
    /\ \A k \in Here : Unscoped(k) /\ \E n \in SeenAt(interface) : Known(n, k)
    /\ \A k \in Here : \A n \in Elsewhere : ~Known(n, k)

(* What makes a port row bad news, as RouterOS reports it. *)
PortDown(row) ==
    \/ row.disabled = "yes"
    \/ row.inactive = "yes"
    \/ row.running = "no" \/ (row.running = "none" /\ row.forwarding = "no")
    \/ row.inactive = "none" /\ row.status \in {"inactive", "disabled"}

(* A preflight that says "clear" is right about the neighbors as they were *)
(* at its first read and about the port as it was at its second, whatever  *)
(* has changed meanwhile.                                                  *)
ClearMeansClear ==
    result.code = "clear" =>
        /\ interface # NoInterface
        /\ NeighborsAsExpected
        /\ interface \in DOMAIN portRead => ~PortDown(portRead[interface])

(* No false alarm: where each neighbor answers to one expected attachment  *)
(* at most, and all is as expected, the reconciliation raises no risk.     *)
NoFalseAlarm ==
    (pc = "done" /\ "report" \in DOMAIN result /\ NeighborsAsExpected
        /\ \A n \in Neighbors : \A j, k \in Here :
              Known(n, j) /\ Known(n, k) => j = k)
    => Risks(result.report) = {}

(* The device lists its rows in any order: neither the verdict nor who is  *)
(* called unknown, moved (and from where) or missing depends on it.        *)
Unknown(seen) ==
    LET scoped == ScopedObserved(expected, seen, Target, interface)
    IN  {scoped[j].by : j \in Report(seen).unknown}

Moved(seen) ==
    LET scoped == ScopedObserved(expected, seen, Target, interface)
    IN  {<<p[1], scoped[p[2]].by>> : p \in Report(seen).moved}

OrderDoesNotMatter ==
    (pc = "done" /\ "report" \in DOMAIN result) =>
        \A p \in Orders(DOMAIN observed) :
            LET other == [j \in DOMAIN p |-> observed[p[j]]]
            IN  /\ Clear(other) <=> result.code = "clear"
                /\ Unknown(other) = Unknown(observed)
                /\ Moved(other) = Moved(observed)
                /\ Report(other).missing = result.report.missing
=============================================================================
