--------------------------- MODULE GraphSampling ---------------------------
(***************************************************************************)
(* graph_operation (network_lang/graph_client.py): an operation is         *)
(* executed again and again, its rows are stamped with the wall clock once *)
(* they have come back, and the graph is drawn when all samples are in.    *)
(*                                                                         *)
(* Meanwhile the device counts the traffic of its resources, resets its    *)
(* counters, and lists those that are there; and the wall clock moves on,  *)
(* or is set back.                                                         *)
(***************************************************************************)
EXTENDS GraphRates

CONSTANTS
    Resources,
    Name,         \* resource -> its name
    Listings,     \* the resources that the device may list, in their order
    Requests,     \* what graph_operation is asked for
    MaxTraffic, MaxResets, MaxClock, MaxSetBacks  \* bounds

(***************************************************************************)
(* What the proofs take from the constants; in graphing.py and             *)
(* mikrotik_routeros.py it is the tables of aliases, of spellings and of   *)
(* counters.                                                               *)
(***************************************************************************)
RowFields == {"name", "rx-byte", "mtu"}
AllFields == RowFields \cup {"timestamp", "sample"} \cup DOMAIN RateFields

(* The fields of a row that a field is looked up under. *)
Keys(field) ==
    {f \in AllFields : \E i \in DOMAIN Names[field] :
        \E k \in DOMAIN Spellings[Names[field][i]] : Spellings[Names[field][i]][k] = f}

(* No value is taken for another. *)
ASSUME ValuesAssumption ==
    /\ Null \notin Int /\ Null \notin STRING /\ Null \notin Texts
    /\ Null \notin Int \X Int
    /\ Texts \cap Int = {} /\ Texts \cap (Int \X Int) = {}

(* Names and spellings are listed, in an order. *)
ASSUME SpellingsAssumption ==
    /\ DOMAIN Names \subseteq STRING
    /\ \A f \in DOMAIN Names : Names[f] \in Seq(DOMAIN Spellings)
    /\ \A n \in DOMAIN Spellings : Spellings[n] \in Seq(STRING)

(* A counter makes one rate, and a rate is made from one counter.          *)
ASSUME RatesAssumption ==
    /\ \A m \in DOMAIN RateFields :
          RateFields[m] \in DOMAIN CounterFields /\ CounterFields[RateFields[m]] = m
    /\ \A c \in DOMAIN CounterFields :
          CounterFields[c] \in DOMAIN RateFields /\ RateFields[CounterFields[c]] = c
    /\ DOMAIN RateFields \cap DOMAIN CounterFields = {}

(* A rate is a field of its own, a counter is that of the device's rows,   *)
(* and an interface goes by its name.                                      *)
ASSUME KeysAssumption ==
    /\ DOMAIN RateFields \cup DOMAIN CounterFields \cup {"interface"} \subseteq DOMAIN Names
    /\ DOMAIN RateFields \cap (RowFields \cup {"timestamp", "sample"}) = {}
    /\ \A m \in DOMAIN RateFields : Keys(m) = {m}
    /\ \A c \in DOMAIN CounterFields : Keys(c) = {"rx-byte"}
    /\ Keys("interface") = {"name"}

(* A listing names no resource twice. *)
ASSUME ResourcesAssumption ==
    /\ Name \in [Resources -> Texts]
    /\ \A shown \in Listings :
          /\ shown \in Seq(Resources)
          /\ \A i, j \in DOMAIN shown : shown[i] = shown[j] => i = j

(* No graph is grouped by the rates that are drawn in it. *)
ASSUME RequestsAssumption ==
    \A q \in Requests :
        /\ q.samples \in Int
        /\ q.groupBy # Null =>
              q.groupBy \in DOMAIN Names /\ Keys(q.groupBy) \cap DOMAIN RateFields = {}

VARIABLES
    sent,         \* resource -> all its traffic ever
    counter,      \* resource -> its traffic since its last reset
    resets,       \* resource -> its resets
    time,         \* the wall clock
    setBacks,
    request,
    pc,
    sample,       \* samples that are complete
    reply,        \* the rows that are to be stamped
    records,      \* the rows collected
    source        \* history: for each of them, and for each row that is to be
                  \* stamped, the resource as it was when it was read

device == <<sent, counter, resets>>
clock  == <<time, setBacks>>
call   == <<request, pc, sample, reply, records, source>>
vars   == <<device, clock, call>>

Init ==
    /\ sent = [r \in Resources |-> 0]
    /\ counter = [r \in Resources |-> 0]
    /\ resets = [r \in Resources |-> 0]
    /\ time = 0
    /\ setBacks = 0
    /\ request \in Requests
    /\ pc = "checking"
    /\ sample = 0
    /\ reply = <<>>
    /\ records = <<>>
    /\ source = <<>>

-----------------------------------------------------------------------------
(* The device and the clock. *)

Traffic ==
    \E r \in Resources :
        /\ MapThenSumSet(LAMBDA q : sent[q], Resources) < MaxTraffic
        /\ sent' = [sent EXCEPT ![r] = @ + 1]
        /\ counter' = [counter EXCEPT ![r] = @ + 1]
        /\ UNCHANGED <<resets, clock, call>>

ResetCounter ==
    \E r \in Resources :
        /\ MapThenSumSet(LAMBDA q : resets[q], Resources) < MaxResets
        /\ resets' = [resets EXCEPT ![r] = @ + 1]
        /\ counter' = [counter EXCEPT ![r] = 0]
        /\ UNCHANGED <<sent, clock, call>>

Tick ==
    /\ time < MaxClock
    /\ time' = time + 1
    /\ UNCHANGED <<setBacks, device, call>>

SetBack ==
    /\ setBacks < MaxSetBacks
    /\ time > 0
    /\ time' = time - 1
    /\ setBacks' = setBacks + 1
    /\ UNCHANGED <<device, call>>

-----------------------------------------------------------------------------
(* The call. *)

Kind ==
    IF request.kind # "auto" THEN request.kind
    ELSE IF request.samples > 1 THEN "line" ELSE "bar"

(* routeros_default_graph_group_by *)
DefaultGroup == IF request.interfaces THEN "interface" ELSE Null

Group == IF request.groupBy # Null THEN request.groupBy ELSE DefaultGroup

(* _graph_fields: what y lists. *)
Metrics == {request.metrics[i] : i \in DOMAIN request.metrics}
Counters == CountersOf(Metrics, Kind, request.samples, request.rate)

(* Every error ends the call: the samples taken so far are lost with it. *)
Fail ==
    /\ pc' = "failed"
    /\ UNCHANGED <<request, sample, reply, records, source, device, clock>>

RefuseRequest ==
    /\ pc = "checking"
    /\ request.samples < 1 \/ Kind \notin {"line", "bar"}
    /\ Fail

AcceptRequest ==
    /\ pc = "checking"
    /\ request.samples >= 1 /\ Kind \in {"line", "bar"}
    /\ pc' = "executing"
    /\ UNCHANGED <<request, sample, reply, records, source, device, clock>>

RowOf(r) ==
    [f \in {"name", "rx-byte", "mtu"} |->
        CASE f = "name"    -> Name[r]
          [] f = "rx-byte" -> counter[r]
          [] f = "mtu"     -> 0]

(* device.execute comes back with the rows of the resources that are there.*)
Execute ==
    /\ pc = "executing"
    /\ \E shown \in Listings :
          /\ reply' = [i \in DOMAIN shown |-> RowOf(shown[i])]
          /\ source' = source \o
                [i \in DOMAIN shown |->
                    [resource |-> shown[i], sample |-> sample,
                     sent |-> sent[shown[i]], resets |-> resets[shown[i]]]]
    /\ pc' = "stamping"
    /\ UNCHANGED <<request, sample, records, device, clock>>

ExecuteFails == pc = "executing" /\ Fail

Stamped(row) == Update(row, [timestamp |-> time, sample |-> sample])

(* Mutant of Stamp: one sample too many. *)
StampOnceMore ==
    /\ pc = "stamping"
    /\ records' = records \o [i \in DOMAIN reply |-> Stamped(reply[i])]
    /\ reply' = <<>>
    /\ sample' = sample + 1
    /\ pc' = IF sample + 1 <= request.samples THEN "sleeping" ELSE "drawing"
    /\ UNCHANGED <<request, source, device, clock>>

Stamp ==
    /\ pc = "stamping"
    /\ records' = records \o [i \in DOMAIN reply |-> Stamped(reply[i])]
    /\ reply' = <<>>
    /\ sample' = sample + 1
    /\ pc' = IF sample + 1 < request.samples THEN "sleeping" ELSE "drawing"
    /\ UNCHANGED <<request, source, device, clock>>

(* Mutant of Wake: the sleep is taken again. *)
WakeAgain ==
    /\ pc = "sleeping"
    /\ UNCHANGED vars

(* The interval may be as short as nothing. *)
Wake ==
    /\ pc = "sleeping"
    /\ pc' = "executing"
    /\ UNCHANGED <<request, sample, reply, records, source, device, clock>>

(* What the rows are drawn as.  Lines are of the rows as the adapter has   *)
(* prepared them, with rates in the place of counters.                     *)
Prepared ==
    IF Counters = {} THEN records
    ELSE CounterRateRecords(records, Counters, Group, CounterFields)

LineOf(rows) ==
    LineGraph(rows, OutputMetrics(Metrics, Kind, request.samples, request.rate), Group)

(* Bars are of the first metric alone, by group or by the metric itself. *)
BarField == IF Group # Null THEN Group ELSE request.metrics[1]

BarMetric == IF request.count THEN Null ELSE request.metrics[1]

BarAggregate ==
    LET asked == IF request.aggregate # Null THEN request.aggregate
                 ELSE IF BarMetric = Null THEN "count" ELSE "latest"
    IN  IF BarMetric # Null /\ asked = "count" THEN "sum" ELSE asked

Bars == BarGraph(records, BarField, BarMetric, BarAggregate)

(* "rate graph metrics need at least 2 samples", found out after the one.  *)
RefuseRate ==
    /\ pc = "drawing" /\ Kind = "line"
    /\ Counters # {} /\ request.samples < 2
    /\ Fail

(* "unsupported aggregate", found out by the first bar. *)
RefuseAggregate ==
    /\ pc = "drawing" /\ Kind = "bar"
    /\ BarAggregate \notin Aggregates /\ Barred(records, BarField, BarMetric) # {}
    /\ Fail

Draw ==
    /\ pc = "drawing"
    /\ Kind = "line" => Counters = {} \/ request.samples >= 2
    /\ Kind = "bar" =>
          BarAggregate \in Aggregates \/ Barred(records, BarField, BarMetric) = {}
    /\ pc' = "done"
    /\ UNCHANGED <<request, sample, reply, records, source, device, clock>>

CallStep ==
    \/ RefuseRequest \/ AcceptRequest
    \/ Execute \/ ExecuteFails \/ Stamp \/ Wake
    \/ RefuseRate \/ RefuseAggregate \/ Draw

(* The call looks at the device as it executes the operation, and at the   *)
(* clock as it stamps the rows: what they do at other times commutes with  *)
(* its steps, and is left out.                                             *)
Environment ==
    \/ pc = "executing" /\ (Traffic \/ ResetCounter)
    \/ pc = "stamping" /\ (Tick \/ SetBack)

Next == CallStep \/ Environment

(* A call to the device returns, with its rows or an error, and a sleep    *)
(* ends.                                                                   *)
Spec == Init /\ [][Next]_vars /\ WF_vars(CallStep)

-----------------------------------------------------------------------------
(* Properties. *)

(* Every variable stays within its type; each row has its source. *)
TypeOK ==
    /\ \A r \in Resources : 0 <= counter[r] /\ counter[r] <= sent[r]
    /\ pc \in {"checking", "executing", "stamping", "sleeping", "drawing",
              "done", "failed"}
    /\ sample \in Nat /\ (pc # "checking" => sample <= request.samples \/ pc = "failed")
    /\ Len(source) = Len(records) + Len(reply)
    /\ pc # "stamping" => reply = <<>>
    /\ \A i \in DOMAIN records : records[i]["sample"] = source[i].sample
    /\ pc = "done" => sample = request.samples

RatesDrawn == pc = "done" /\ Kind = "line" /\ Counters # {}

GroupOf(i) == SeriesGroup(records[i], Group)

(* The rows that a line is drawn of are those of one resource. *)
Identified ==
    LET pairs == {<<GroupOf(i), source[i].resource>> : i \in DOMAIN records}
    IN  \A p, q \in pairs : p[1] = q[1] <=> p[2] = q[2]

(* The one line that is drawn. *)
Lines == {LineOf(rows) : rows \in {Prepared}}

RateSeries(line) == {s \in DOMAIN line.series : s[2] \in DOMAIN RateFields}

(* A rate drawn is never more than the traffic there was between the two   *)
(* readings that it is made from, whatever was reset meanwhile, as long as *)
(* a group is one resource and the clock is not set back.                  *)
RateNeverOverstates ==
    RatesDrawn /\ Identified /\ setBacks = 0 =>
        \A line \in Lines : \A s \in RateSeries(line) : \A t \in DOMAIN line.series[s] :
            LET rate == line.series[s][t]
            IN  \E i, j \in DOMAIN records :
                    /\ GroupOf(i) = s[1]
                    /\ source[i].resource = source[j].resource
                    /\ records[i]["timestamp"] = t
                    /\ records[j]["timestamp"] = t - rate[2]
                    /\ 0 <= rate[1] /\ rate[1] <= source[i].sent - source[j].sent

(* A reset costs one rate at most: two readings of a resource, one after   *)
(* the other in time and with no reset in between, make one, whatever was  *)
(* before them; previous is replaced by each reading.                      *)
RatesResume ==
    RatesDrawn /\ Identified /\ setBacks = 0 =>
        \A line \in Lines : \A i, j \in DOMAIN records :
            /\ source[j].resource = source[i].resource
            /\ source[j].resets = source[i].resets
            /\ records[j]["timestamp"] < records[i]["timestamp"]
            /\ \A k \in j+1..i-1 : source[k].resource # source[i].resource
            => \E s \in RateSeries(line) :
                  /\ s[1] = GroupOf(i)
                  /\ records[i]["timestamp"] \in DOMAIN line.series[s]

(* What is drawn hides nothing: rows with the same stamp make no second    *)
(* rate, so that a line has as many points as there are rates, even if the *)
(* clock is set back or resources share a group; and a bar of the kind     *)
(* "latest" is the last sample that listed its interface, whatever the     *)
(* clock said of it.                                                       *)
NoRateHidden ==
    RatesDrawn =>
        \A rows \in {Prepared} : \A line \in {LineOf(rows)} : \A s \in RateSeries(line) :
            Cardinality(DOMAIN line.series[s]) =
                Cardinality({i \in DOMAIN rows :
                    GroupOf(i) = s[1] /\ s[2] \in DOMAIN rows[i]})

LatestBars ==
    /\ pc = "done" /\ Kind = "bar" /\ Identified /\ Group = "interface"
    /\ ~request.count /\ request.aggregate = Null
    /\ request.metrics[1] \in DOMAIN CounterFields

LastSample(i) ==
    \A j \in DOMAIN records :
        source[j].resource = source[i].resource => source[j].sample <= source[i].sample

NothingHidden ==
    /\ NoRateHidden
    /\ LatestBars =>
          \A i \in DOMAIN records :
              LastSample(i) => Bars.bars[FieldValue(records[i], "interface")]
                                  = Number(records[i], request.metrics[1])

(* Every call comes to an end, with a graph or an error. *)
CallReturns == <>(pc \in {"done", "failed"})
=============================================================================
