--------------------------- MODULE Reconciliation ---------------------------
(***************************************************************************)
(* Matching what was observed on the network with what was expected, and   *)
(* what a preflight of an operation on one interface makes of it           *)
(* (network_lang/reconcile.py, network_lang/topology.py).                  *)
(*                                                                         *)
(* A record is the set of its normalized identity keys, DeviceRecord.keys, *)
(* and, for an attachment, the place it is at, location_key.  A report     *)
(* speaks of records by their number in the lists it was made from, and a  *)
(* list that was cut down is a function from the numbers that are left.    *)
(***************************************************************************)
EXTENDS Integers, Sequences, FiniteSets

LOCAL INSTANCE FiniteSetsExt

KeysOfAll(records) == UNION {records[i].keys : i \in DOMAIN records}

(* Each key's first record. *)
Index(records) ==
    [k \in KeysOfAll(records) |->
        Min({i \in DOMAIN records : k \in records[i].keys})]

Candidates(index, record) == {index[k] : k \in record.keys \cap DOMAIN index}

(* Mutant of Reconcile: an expected record is matched only once. *)
ReconcileOnce(expected, observed) ==
    LET index  == Index(expected)
        found  == {j \in DOMAIN observed : Candidates(index, observed[j]) # {}}
        chosen == [j \in found |-> Min(Candidates(index, observed[j]))]
        known  == {j \in found : \A i \in found : i < j => chosen[i] # chosen[j]}
    IN  [pairs   |-> {<<chosen[j], j>> : j \in known},
         unknown |-> DOMAIN observed \ known,
         missing |-> DOMAIN expected \ {chosen[j] : j \in known}]

(* reconcile_devices: an observed record goes to the first of the expected *)
(* records that its keys lead to.                                          *)
Reconcile(expected, observed) ==
    LET index  == Index(expected)
        known  == {j \in DOMAIN observed : Candidates(index, observed[j]) # {}}
        chosen == [j \in known |-> Min(Candidates(index, observed[j]))]
    IN  [pairs   |-> {<<chosen[j], j>> : j \in known},
         unknown |-> DOMAIN observed \ known,
         missing |-> DOMAIN expected \ {chosen[j] : j \in known}]

(* Mutant of Duplicates: records are counted, not the places they are at. *)
DuplicatesByCount(observed) ==
    {k \in KeysOfAll(observed) :
        Cardinality({j \in DOMAIN observed : k \in observed[j].keys}) > 1}

Duplicates(observed) ==
    {k \in KeysOfAll(observed) :
        \E i, j \in DOMAIN observed :
            /\ k \in observed[i].keys \cap observed[j].keys
            /\ observed[i].at # observed[j].at}

ReconcileAttachments(expected, observed) ==
    LET r == Reconcile(expected, observed)
        here(p) == expected[p[1]].at = observed[p[2]].at
    IN  [matches    |-> {p \in r.pairs : here(p)},
         moved      |-> {p \in r.pairs : ~here(p)},
         unknown    |-> r.unknown,
         missing    |-> r.missing,
         duplicates |-> Duplicates(observed)]

ReportOk(r) ==
    /\ r.moved = {} /\ r.unknown = {}
    /\ r.missing = {} /\ r.duplicates = {}

(* _risks: each thing that is not as expected, and why. *)
Risks(r) ==
    ({"moved"} \X r.moved) \cup ({"unknown"} \X r.unknown)
    \cup ({"missing"} \X r.missing) \cup ({"duplicate"} \X r.duplicates)

(* _same_location: the scope of a place is not looked at. *)
At(record, device, interface) ==
    record.at.device = device /\ record.at.interface = interface

(* Mutant of ScopedObserved: only what is seen on the interface. *)
SeenOnTheInterface(expected, observed, device, interface) ==
    [j \in {k \in DOMAIN observed : At(observed[k], device, interface)} |-> observed[j]]

(* What the preflight looks at: the interface, and wherever else a device  *)
(* expected there is seen.                                                 *)
ScopedExpected(expected, device, interface) ==
    [i \in {k \in DOMAIN expected : At(expected[k], device, interface)} |-> expected[i]]

ScopedObserved(expected, observed, device, interface) ==
    LET wanted == KeysOfAll(ScopedExpected(expected, device, interface))
        inside == {k \in DOMAIN observed :
                     \/ At(observed[k], device, interface)
                     \/ observed[k].keys \cap wanted # {}}
    IN  [j \in inside |-> observed[j]]

ScopedReport(expected, observed, device, interface) ==
    ReconcileAttachments(
        ScopedExpected(expected, device, interface),
        ScopedObserved(expected, observed, device, interface))

-----------------------------------------------------------------------------
(* Bridge ports.  A flag of a row is "yes", "no" or "none". *)

FirstOf(flags) ==
    LET said == {i \in DOMAIN flags : flags[i] # "none"}
    IN  IF said = {} THEN "none" ELSE flags[Min(said)]

InactiveByStatus(status) ==
    CASE status \in {"inactive", "disabled"}                -> "yes"
      [] status \in {"in-bridge", "forwarding", "learning"} -> "no"
      [] OTHER                                              -> "none"

RunningByStatus(status) ==
    CASE status \in {"in-bridge", "forwarding"} -> "yes"
      [] status \in {"inactive", "disabled"}    -> "no"
      [] OTHER                                  -> "none"

(* routeros_bridge_ports_to_interface_states, on one row. *)
InterfaceState(row) ==
    [disabled |-> row.disabled,
     inactive |-> FirstOf(<<row.inactive, InactiveByStatus(row.status)>>),
     running  |-> FirstOf(<<row.running, row.forwarding,
                            RunningByStatus(row.status)>>)]

(* _matching_interface_state, as a set of one or none, of the states by    *)
(* interface.                                                              *)
MatchingStates(states, interface) == {states[i] : i \in DOMAIN states \cap {interface}}

(* _interface_state_risks is not empty. *)
StateRisky(state) ==
    \/ state.disabled = "yes"
    \/ state.inactive = "yes"
    \/ state.running = "no"
=============================================================================
