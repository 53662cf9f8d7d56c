----------------------------- MODULE FlowReport -----------------------------
(***************************************************************************)
(* The collector's file and the programs that read it: flow_client.py, or  *)
(* another caller of load_flow_devices, reports on the whole file again    *)
(* and again while the collector goes on appending to it; a caller with an *)
(* expectation of one target judges it by the flows seen so far.           *)
(***************************************************************************)
EXTENDS FlowClassification, FlowEnvelope

CONSTANTS
    Flows,         \* the flows that exporters may report
    Endpoint,      \* of the collector: "src", "dst" or "both"
    Callers,       \* their inventory, a sequence of [client, hosts, id], what
                   \* they ask of load_flow_devices, what they expect of a target
    MaxFlows       \* bound on the flows collected

ASSUME FlowsBound == MaxFlows \in Nat

(* The daemon says itself in which direction it has seen a host, and the   *)
(* identifiers of an inventory begin with "inventory:", as no other does.  *)
ASSUME FlowsAssumption ==
    \A f \in Flows :
        /\ {f.src, f.dst} \subseteq Hosts
        /\ f.bytes \in Nat /\ f.packets \in Nat
        /\ "direction" \notin DOMAIN f.metadata
        /\ \A c \in Callers : \A i \in DOMAIN c.inventory :
              c.inventory[i].id \notin f.srcIds \cup f.dstIds

ASSUME CallersAssumption ==
    \A c \in Callers :
        /\ DOMAIN c.inventory \subseteq Nat
        /\ \A i \in DOMAIN c.inventory : c.inventory[i].client \in BOOLEAN
        /\ c.load.scope \in Scopes
        /\ IsFiniteSet(DOMAIN c.expected.envelope)

VARIABLES
    flows,      \* the flows seen so far
    lines,      \* the collector's file
    caller,
    report,     \* of the last reader, with the number of lines read
    verdict     \* the last envelope report

vars == <<flows, lines, caller, report, verdict>>

inventory == caller.inventory
load      == caller.load
expected  == caller.expected

(* A line that a failed write has cut short. *)
Torn == [host |-> "torn"]

IsTorn(file) == \E i \in DOMAIN file : file[i] = Torn

NoReport == [outcome |-> "none", read |-> 0]
NoVerdict == [decision |-> "none", resolution |-> <<>>, health |-> 0]

Init ==
    /\ flows = <<>>
    /\ lines = <<>>
    /\ caller \in Callers
    /\ report = NoReport
    /\ verdict = NoVerdict

Collect ==
    /\ Len(flows) < MaxFlows
    /\ \E f \in Flows :
          /\ flows' = Append(flows, f)
          /\ lines' = lines \o FlowDevices(f, Endpoint)
    /\ UNCHANGED <<caller, report, verdict>>

Tear ==
    /\ Len(lines) > 0
    /\ ~IsTorn(lines)
    /\ lines' = Append(lines, Torn)
    /\ UNCHANGED <<flows, caller, report, verdict>>

(* What is loaded from lines, matched against the clients of the inventory.*)
ReportOn(devices) ==
    ApplyFlowReconPolicy(ExpectedClients(inventory),
        FlowRecordsToDevices(devices, Options(load, inventory)))

(* flow_client.py.  Every way to end before the report is not a report. *)
Refuse(outcome) ==
    /\ report' = [outcome |-> outcome, read |-> Len(lines)]
    /\ UNCHANGED <<flows, lines, caller, verdict>>

NothingCaptured == lines = <<>> /\ Refuse("run flowcollector")

NoClients ==
    /\ lines # <<>>
    /\ ClientsOf(inventory) = {}
    /\ Refuse("no client records")

(* json.loads raises for the whole file. *)
LoadFails ==
    /\ ClientsOf(inventory) # {}
    /\ IsTorn(lines)
    /\ Refuse("not JSON")

MakeReport ==
    /\ lines # <<>>
    /\ ClientsOf(inventory) # {}
    /\ ~IsTorn(lines)
    /\ report' = [outcome |-> "report", read |-> Len(lines), found |-> ReportOn(lines)]
    /\ UNCHANGED <<flows, lines, caller, verdict>>

Judge ==
    /\ verdict' = ReconcileFlowEnvelope(expected, flows)
    /\ UNCHANGED <<flows, lines, caller, report>>

Next ==
    \/ Collect \/ Tear
    \/ NothingCaptured \/ NoClients \/ LoadFails \/ MakeReport
    \/ Judge

Spec == Init /\ [][Next]_vars

-----------------------------------------------------------------------------
(* Properties. *)

Reported == report.outcome = "report"
ReadLines == SubSeq(lines, 1, report.read)
Records == {ReadLines[i] : i \in DOMAIN ReadLines}

(* Devices that the reader has seen, but for what exporters say of         *)
(* themselves when those are left out.                                     *)
Seen ==
    {d \in Records : load.excludeExporters => d.exporter # d.host}

Clients == ExpectedClients(inventory)

(* Every variable stays within its type. *)
TypeOK ==
    /\ flows \in Seq(Flows) /\ Len(flows) <= MaxFlows
    /\ \A i \in DOMAIN lines : lines[i] = Torn \/ lines[i].host \in Hosts
    /\ report.read \in 0..Len(lines)
    /\ verdict.health \in 0..100
    /\ Reported =>
          /\ report.found.buckets \in [Buckets -> SUBSET Hosts]
          /\ report.found.missing \subseteq DOMAIN Clients
    /\ verdict.decision \in
          {"none", "block_operation", "investigate_first",
           "allow_with_confirmation", "safe"}

(* flow_client.py exits with 1 exactly when the file holds a private host  *)
(* that the inventory does not know at all, seen by another than itself;   *)
(* exit_code, unknown_internal_hosts.                                      *)
ExitCodeHonest ==
    Reported /\ load = ClientLoad =>
        (ExitCode(report.found) = 1 <=>
            \E d \in Seen :
                /\ AddressKind[d.host] = "private"
                /\ \A i \in DOMAIN inventory : d.host \notin inventory[i].hosts)

(* A client is missing from the report exactly when none of its addresses  *)
(* was seen, or one that the inventory lists before it has taken all that  *)
(* was; missing_expected.                                                  *)
TakenBefore(k, d) ==
    \E i \in DOMAIN Clients : i < k /\ HostKey(d.host) \in Clients[i].keys

MissingExplained ==
    Reported /\ load = ClientLoad =>
        \A k \in DOMAIN Clients :
            k \in report.found.missing <=>
                \A d \in Seen : HostKey(d.host) \in Clients[k].keys => TakenBefore(k, d)

(* Who reports first does not matter: the same lines in another order give *)
(* the same hosts in each part of the report, wherever the exporters are   *)
(* left out or known as infrastructure; flow_records_to_devices keeps the  *)
(* first record of a host.                                                 *)
Swapped(k) == [ReadLines EXCEPT ![k] = ReadLines[k+1], ![k+1] = ReadLines[k]]

ExportersKnown ==
    \A d \in Records : d.exporter \in HostsOf(inventory, FALSE)

OrderDoesNotMatter ==
    Reported /\ (load.excludeExporters \/ ExportersKnown) =>
        \A k \in 1..report.read - 1 :
            /\ ReportOn(Swapped(k)).buckets = report.found.buckets
            /\ ReportOn(Swapped(k)).missing = report.found.missing

(* The file only grows, and so do its findings: a host once reported stays *)
(* in its part of the report, and a client once found is not missing       *)
(* again, whoever reports it later and as what.                            *)
FindingsStay ==
    [][Reported /\ report'.outcome = "report" =>
        /\ \A b \in Buckets : report.found.buckets[b] \subseteq report'.found.buckets[b]
        /\ report'.found.missing \subseteq report.found.missing]_vars

(* An operation is called safe on evidence alone: the target was seen      *)
(* where it is expected, and of the signals asked for, if any, more were   *)
(* found inside the envelope than were not observed or outside it;         *)
(* _decision, _health_score, _topology_confidence.                         *)
SafeIsEarned ==
    verdict.decision = "safe" =>
        LET c    == verdict.resolution
            flow == flows[c[1]]
            bad  == DOMAIN verdict.evidence \ Having(verdict.evidence, "inside_envelope")
        IN  /\ Matches(expected.target, flow, c[2])
            /\ Truthy(expected.device) => flow.exporter = expected.device
            /\ Truthy(expected.interface) => InterfaceOf(flow, c[2]) = expected.interface
            /\ bad # {} => Cardinality(bad) < Cardinality(DOMAIN verdict.evidence \ bad)

(* While flows keep coming in, the observation that the target is judged   *)
(* by is only ever replaced by a stronger one; max() in                    *)
(* resolve_flow_target, which takes the first of equals.                   *)
Strength(v) == Rank(flows'[v.resolution[1]], v.resolution[2])

VerdictMovesToStronger ==
    [][verdict.resolution # <<>> /\ verdict'.resolution # verdict.resolution =>
        /\ verdict'.resolution # <<>>
        /\ Above(Strength(verdict'), Strength(verdict))]_vars

(* What docs/source/flowcollector.rst says of the loader: exporters do not *)
(* pollute the reconciliation with the source of truth.                    *)
ExportersDoNotPollute ==
    Reported /\ load.excludeExporters =>
        \A d \in Records : d.exporter \notin report.found.buckets["reported"]
=============================================================================
