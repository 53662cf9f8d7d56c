---------------------------- MODULE FlowEnvelope ----------------------------
(***************************************************************************)
(* reconcile_flow_envelope (network_lang/flows.py): the strongest flow of  *)
(* a target, and what it says of the target's place and health.  A target  *)
(* is a host or an identifier; an observed signal is a number, Text (what  *)
(* float() does not take) or Null.                                         *)
(***************************************************************************)
EXTENDS Integers, Sequences, FiniteSets

CONSTANTS
    NoInterface,  \* None
    Null, Text,   \* observed values that are no numbers
    Aliases       \* signal -> sequence of its other names

(* The interface a flow is seen on; "" is not None, and not true either. *)
InterfaceOf(flow, dir) == IF dir = "src" THEN flow.ingress ELSE flow.egress
Truthy(i) == i \notin {NoInterface, ""}

Matches(target, flow, dir) ==
    IF dir = "src" THEN target = flow.src \/ target \in flow.srcIds
    ELSE target = flow.dst \/ target \in flow.dstIds

Sightings(target, flows) ==
    {c \in (DOMAIN flows) \X {"src", "dst"} : Matches(target, flows[c[1]], c[2])}

(* The key of max(): whether there is an interface, then bytes, packets. *)
Rank(flow, dir) ==
    <<IF InterfaceOf(flow, dir) = NoInterface THEN 0 ELSE 1, flow.bytes, flow.packets>>

Above(r, s) ==
    \E k \in 1..3 : r[k] > s[k] /\ \A j \in 1..k-1 : r[j] = s[j]

Earlier(c, d) == c[1] < d[1] \/ (c[1] = d[1] /\ c[2] = "src" /\ d[2] = "dst")

(* Mutant of Stronger: the last of the strongest. *)
StrongestLast(flows, c, d) ==
    LET r == Rank(flows[c[1]], c[2])
        s == Rank(flows[d[1]], d[2])
    IN  Above(r, s) \/ (r = s /\ Earlier(d, c))

(* max() takes the first of the strongest. *)
Stronger(flows, c, d) ==
    LET r == Rank(flows[c[1]], c[2])
        s == Rank(flows[d[1]], d[2])
    IN  Above(r, s) \/ (r = s /\ Earlier(c, d))

(* resolve_flow_target *)
ResolveFlowTarget(target, flows) ==
    LET all == Sightings(target, flows)
    IN  CHOOSE c \in all : \A d \in all \ {c} : Stronger(flows, c, d)

IdentityConfidence(flow, dir) == IF Truthy(InterfaceOf(flow, dir)) THEN 90 ELSE 75

(* Mutant of TopologyConfidence: a flow without interface is believed. *)
TopologyConfidenceIfKnown(expected, flow, dir) ==
    100 - (IF Truthy(expected.device) /\ expected.device # flow.exporter
           THEN 50 ELSE 0)
        - (IF /\ Truthy(expected.interface)
              /\ Truthy(InterfaceOf(flow, dir))
              /\ expected.interface # InterfaceOf(flow, dir)
           THEN 50 ELSE 0)

TopologyConfidence(expected, flow, dir) ==
    100 - (IF Truthy(expected.device) /\ expected.device # flow.exporter
           THEN 50 ELSE 0)
        - (IF Truthy(expected.interface) /\ expected.interface # InterfaceOf(flow, dir)
           THEN 50 ELSE 0)

(* _observed_signal: the flow's metadata by name, by alias, its fields. *)
ObservedSignal(flow, name) ==
    LET known   == DOMAIN flow.metadata
        aliases == IF name \in DOMAIN Aliases THEN Aliases[name] ELSE <<>>
        found   == {i \in DOMAIN aliases : aliases[i] \in known}
    IN  IF name \in known THEN flow.metadata[name]
        ELSE IF found # {}
        THEN flow.metadata[aliases[CHOOSE i \in found : \A j \in found : i <= j]]
        ELSE CASE name = "bytes" -> flow.bytes
               [] name = "packets" -> flow.packets
               [] OTHER -> Null

(* _signal_spec: what a dict, a dict with near_zero, a pair or a single    *)
(* value asks for.                                                         *)
SignalSpec(spec) ==
    CASE spec.form = "near_zero" ->
            [k \in DOMAIN spec.asks \cup {"max"} |->
                IF k \in DOMAIN spec.asks THEN spec.asks[k] ELSE 0]
      [] spec.form = "dict"  -> spec.asks
      [] spec.form = "pair"  -> [min |-> spec.low, max |-> spec.high]
      [] spec.form = "value" -> [equals |-> spec.value]

SignalOk(asks, observed) ==
    IF "equals" \in DOMAIN asks THEN observed = asks["equals"]
    ELSE /\ observed # Text
         /\ "min" \in DOMAIN asks => observed >= asks["min"]
         /\ "max" \in DOMAIN asks => observed <= asks["max"]

CheckSignal(spec, observed) ==
    IF observed = Null THEN "missing"
    ELSE IF SignalOk(SignalSpec(spec), observed) THEN "inside_envelope"
    ELSE "out_of_envelope"

Having(evidence, status) == {s \in DOMAIN evidence : evidence[s] = status}

(* Python's round(): a half goes to the even neighbor. *)
Rounded(sum, n) ==
    LET q == sum \div n
        r == 2 * (sum % n)
    IN  IF r > n \/ (r = n /\ q % 2 = 1) THEN q + 1 ELSE q

(* Mutant of HealthScore: the scores are summed up. *)
HealthScoreSummed(evidence) ==
    IF DOMAIN evidence = {} THEN 100
    ELSE 100 * Cardinality(Having(evidence, "inside_envelope"))

(* 100 inside, 0 outside, 50 for a signal that is missing. *)
HealthScore(evidence) ==
    IF DOMAIN evidence = {} THEN 100
    ELSE Rounded(100 * Cardinality(Having(evidence, "inside_envelope"))
                    + 50 * Cardinality(Having(evidence, "missing")),
                 Cardinality(DOMAIN evidence))

Decision(identity, topology, health) ==
    CASE identity < 50 -> "block_operation"
      [] identity >= 50 /\ (topology < 60 \/ health < 50) -> "investigate_first"
      [] identity >= 50 /\ topology >= 60 /\ health >= 50
            /\ (topology < 80 \/ health < 80) -> "allow_with_confirmation"
      [] OTHER -> "safe"

(* reconcile_flow_envelope *)
ReconcileFlowEnvelope(expected, flows) ==
    IF Sightings(expected.target, flows) = {}
    THEN [decision |-> "block_operation", resolution |-> <<>>,
          evidence |-> <<>>, health |-> 0, safety |-> 0]
    ELSE LET c        == ResolveFlowTarget(expected.target, flows)
             flow     == flows[c[1]]
             evidence == [s \in DOMAIN expected.envelope |->
                             CheckSignal(expected.envelope[s], ObservedSignal(flow, s))]
             identity == IdentityConfidence(flow, c[2])
             topology == TopologyConfidence(expected, flow, c[2])
             health   == HealthScore(evidence)
         IN  [decision   |-> Decision(identity, topology, health),
              resolution |-> c,
              evidence   |-> evidence,
              health     |-> health,
              safety     |-> CHOOSE m \in {identity, topology, health} :
                                \A x \in {identity, topology, health} : m <= x]
=============================================================================
