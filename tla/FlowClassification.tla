------------------------- MODULE FlowClassification -------------------------
(***************************************************************************)
(* What the flow loader makes of the collector's records, and the report   *)
(* on them (network_lang/flows.py, src/flow_client.py).                    *)
(*                                                                         *)
(* A host is a normalized address; an identity key is a pair of its kind   *)
(* and value.  Devices are told apart by their position in the file.       *)
(***************************************************************************)
EXTENDS Reconciliation

CONSTANTS
    Hosts,
    AddressKind  \* host -> what ipaddress says of it

ASSUME AddressKinds == AddressKind \in [Hosts -> {"ignored", "private", "public"}]

Classes ==
    {"public_external", "private_internal", "exporter", "known_infrastructure",
     "customer_endpoint", "unknown_internal", "ignored_peer"}

HostKey(h) == <<"host", h>>

(* _flow_device, with what the classification reads of _flow_metadata; a   *)
(* flow's own metadata goes over what was measured.                        *)
FlowDevice(flow, direction) ==
    LET said(field, measured) ==
            IF field \in DOMAIN flow.metadata THEN flow.metadata[field] ELSE measured
        host == IF direction = "src" THEN flow.src ELSE flow.dst
        ids  == IF direction = "src" THEN flow.srcIds ELSE flow.dstIds
        macs == IF direction = "src" THEN flow.srcMac ELSE flow.dstMac
    IN  [host      |-> host,
         keys      |-> {HostKey(host)} \cup {<<"id", i>> : i \in ids}
                            \cup {<<"mac", k>> : k \in macs},
         exporter  |-> said("exporter", flow.exporter),
         direction |-> said("direction", direction)]

(* flow_observations_to_devices, on one flow. *)
FlowDevices(flow, endpoint) ==
    (IF endpoint \in {"src", "both"} THEN <<FlowDevice(flow, "src")>> ELSE <<>>)
    \o (IF endpoint \in {"dst", "both"} THEN <<FlowDevice(flow, "dst")>> ELSE <<>>)

(* classify_flow_device: the first that applies.  An exporter is known     *)
(* only by the records that it has sent about itself.                      *)
Classify(d, o) ==
    IF d.exporter = d.host THEN "exporter"
    ELSE IF d.host \in o.infrastructure THEN "known_infrastructure"
    ELSE IF d.host \in o.customers THEN "customer_endpoint"
    ELSE IF d.host \in o.networks THEN "private_internal"
    ELSE IF AddressKind[d.host] = "ignored" THEN "ignored_peer"
    ELSE IF AddressKind[d.host] = "private" THEN "unknown_internal"
    ELSE IF d.direction \in {"src", "dst"} THEN "public_external"
    ELSE "ignored_peer"

Scopes ==
    {"all", "internal", "external", "ignored", "managed", "customer",
     "infrastructure", "unknown_internal"}

(* _include_flow_class *)
ScopeClasses(o) ==
    CASE o.scope = "all"              -> Classes
      [] o.scope = "external"         -> {"public_external"}
      [] o.scope = "ignored"          -> {"ignored_peer"}
      [] o.scope = "internal"         ->
            Classes \ ({"ignored_peer"}
                \cup IF o.externalPeers THEN {} ELSE {"public_external"})
      [] o.scope = "managed"          ->
            {"known_infrastructure", "customer_endpoint", "exporter"}
      [] o.scope = "customer"         -> {"customer_endpoint"}
      [] o.scope = "infrastructure"   -> {"known_infrastructure", "exporter"}
      [] o.scope = "unknown_internal" -> {"unknown_internal"}

Included(d, o) ==
    Classify(d, o) \in
        ScopeClasses(o) \ (IF o.excludeExporters THEN {"exporter"} ELSE {})

(* Mutant of Kept: a record that is left out uses up its host. *)
KeptOfFirstRecords(devices, o) ==
    {i \in DOMAIN devices :
        /\ Included(devices[i], o)
        /\ \A j \in 1..i-1 : devices[j].host # devices[i].host}

(* Mutant of Kept: the last record of a host decides. *)
KeptLast(devices, o) ==
    {i \in DOMAIN devices :
        /\ Included(devices[i], o)
        /\ \A j \in DOMAIN devices :
              j > i /\ Included(devices[j], o) => devices[j].host # devices[i].host}

(* flow_records_to_devices: the first record of each host that the scope   *)
(* includes.                                                               *)
Kept(devices, o) ==
    {i \in DOMAIN devices :
        /\ Included(devices[i], o)
        /\ \A j \in 1..i-1 :
              Included(devices[j], o) => devices[j].host # devices[i].host}

FlowRecordsToDevices(devices, o) ==
    [i \in Kept(devices, o) |->
        [host  |-> devices[i].host,
         keys  |-> devices[i].keys,
         class |-> Classify(devices[i], o)]]

(* FLOW_RECON_POLICY *)
Policy ==
    [c \in Classes |->
        CASE c = "customer_endpoint"                        -> "match_or_score"
          [] c \in {"unknown_internal", "private_internal"} -> "report"
          [] c \in {"public_external", "ignored_peer"}      -> "ignore"
          [] c \in {"exporter", "known_infrastructure"}     -> "infrastructure"]

Buckets == {"matched", "reported", "infrastructure", "external", "ignored"}

(* _route_flow_finding *)
Bucket(class) ==
    CASE Policy[class] = "match_or_score" -> "matched"
      [] Policy[class] = "report"         -> "reported"
      [] Policy[class] = "infrastructure" -> "infrastructure"
      [] class = "public_external"        -> "external"
      [] class = "ignored_peer"           -> "ignored"

(* _flow_match_score, of the keys shared. *)
MatchScore(shared) ==
    LET kinds == {k[1] : k \in shared}
    IN  IF kinds \cap {"mac", "serial"} # {} THEN 100
        ELSE IF "host" \in kinds THEN 95
        ELSE IF "name" \in kinds THEN 80
        ELSE IF kinds # {} THEN 75
        ELSE 0

(* apply_flow_recon_policy(reconcile_devices(expected, observed)): a match *)
(* is <<device, expected, score>>, matched or not.                         *)
ApplyFlowReconPolicy(expected, observed) ==
    LET r      == Reconcile(expected, observed)
        in(b)  == {j \in DOMAIN observed : Bucket(observed[j].class) = b}
        hosts(b) == {observed[j].host : j \in in(b)}
    IN  [buckets |-> [b \in Buckets |-> hosts(b)],
         scores  |-> {<<p[2], p[1],
                        MatchScore(observed[p[2]].keys \cap expected[p[1]].keys)>> :
                            p \in {q \in r.pairs : q[2] \in in("matched")}},
         missing |-> r.missing]

ExitCode(report) == IF report.buckets["reported"] # {} THEN 1 ELSE 0

(* flow_client.py: clients are expected, all else is infrastructure.  A    *)
(* record without an address has none to be known by.                      *)
ClientsOf(inventory) == {i \in DOMAIN inventory : inventory[i].client}

HostsOf(inventory, client) ==
    UNION {inventory[i].hosts : i \in
              {k \in DOMAIN inventory : inventory[k].client = client}}

(* inventory_device *)
InventoryDevice(r) == [keys |-> {HostKey(h) : h \in r.hosts} \cup {<<"id", r.id>>}]

ExpectedClients(inventory) ==
    [i \in ClientsOf(inventory) |-> InventoryDevice(inventory[i])]

(* What a caller of load_flow_devices asks of it: the scope and flags of   *)
(* load, and the hosts of the inventory.                                   *)
Options(load, inventory) ==
    [scope            |-> load.scope,
     excludeExporters |-> load.excludeExporters,
     externalPeers    |-> load.externalPeers,
     networks         |-> load.networks,
     infrastructure   |-> HostsOf(inventory, FALSE),
     customers        |-> HostsOf(inventory, TRUE)]

ClientLoad ==
    [scope |-> "all", excludeExporters |-> TRUE, externalPeers |-> FALSE,
     networks |-> {}]
=============================================================================
