----------------------------- MODULE GraphRates -----------------------------
(***************************************************************************)
(* From sampled rows to the series of a graph (network_lang/graphing.py,   *)
(* routeros_prepare_graph_records).                                        *)
(*                                                                         *)
(* A row is a function from the fields that it has to their values; rows   *)
(* are told apart by their position.  A rate is kept as what it is made of,*)
(* <<delta, elapsed>>, and so is an average; the scale is left out.        *)
(***************************************************************************)
EXTENDS Integers, Sequences, FiniteSets, FiniteSetsExt

CONSTANTS
    Null,       \* the value of a field that is there and empty
    Texts,      \* the values that are no numbers
    Spellings,  \* field -> sequence of its spellings: its own, _ and -
    Names       \* field -> sequence of its names: its own, then its aliases

Unknown == "unknown"

(* A dictionary with the entries of another: {**row, **new}. *)
Update(row, new) ==
    [f \in DOMAIN row \cup DOMAIN new |-> IF f \in DOMAIN new THEN new[f] ELSE row[f]]

(* _single_value: a spelling that is there counts, even if it is empty. *)
SingleValue(row, name) ==
    LET there == {i \in DOMAIN Spellings[name] : Spellings[name][i] \in DOMAIN row}
    IN  IF there = {} THEN Null ELSE row[Spellings[name][Min(there)]]

(* _field_value: the first name that has a value. *)
FieldValue(row, field) ==
    LET values == [i \in DOMAIN Names[field] |-> SingleValue(row, Names[field][i])]
        known  == {i \in DOMAIN values : values[i] # Null}
    IN  IF known = {} THEN Null ELSE values[Min(known)]

(* _float_value of a field: a text is as good as nothing. *)
Number(row, field) ==
    LET value == FieldValue(row, field)
    IN  IF value \in Texts THEN Null ELSE value

(* _series_group, by one field or by none (Null). *)
SeriesGroup(row, groupBy) ==
    LET value == FieldValue(row, groupBy)
    IN  CASE groupBy = Null                  -> "all"
          [] groupBy # Null /\ value = Null -> Unknown
          [] OTHER                           -> value

-----------------------------------------------------------------------------
(* Counters. *)

(* The order of counter_rate_records within a group. *)
Before(records, i, j) ==
    \/ records[i]["timestamp"] < records[j]["timestamp"]
    \/ records[i]["timestamp"] = records[j]["timestamp"] /\ i < j

(* Mutant of Earlier: the rows of all groups. *)
EarlierOfAll(records, counter, groupBy, i) ==
    {j \in DOMAIN records :
        Number(records[j], counter) # Null /\ Before(records, j, i)}

(* The rows of i's group that come before it and have the counter. *)
Earlier(records, counter, groupBy, i) ==
    LET group == SeriesGroup(records[i], groupBy)
    IN  {j \in DOMAIN records :
            /\ Before(records, j, i)
            /\ SeriesGroup(records[j], groupBy) = group
            /\ Number(records[j], counter) # Null}

(* Mutant of Previous: only a row that the counter has not passed since.   *)
PreviousNotPassed(records, counter, groupBy, i) ==
    LET lower == {j \in Earlier(records, counter, groupBy, i) :
                    \A k \in Earlier(records, counter, groupBy, i) :
                        Number(records[k], counter) <= Number(records[j], counter)}
    IN  {j \in lower : \A k \in lower \ {j} : Before(records, k, j)}

(* The last of them, as a set of one or none. *)
Previous(records, counter, groupBy, i) ==
    LET all == Earlier(records, counter, groupBy, i)
    IN  {j \in all : \A k \in all \ {j} : Before(records, k, j)}

(* Mutant of Rates: no time need have passed. *)
RatesAtOnce(records, counter, groupBy, i) ==
    IF Number(records[i], counter) = Null THEN {}
    ELSE LET delta(j) == Number(records[i], counter) - Number(records[j], counter)
         IN  {<<delta(j), 0>> : j \in
                 {k \in Previous(records, counter, groupBy, i) : delta(k) >= 0}}

(* The rate of a row, as a set of one or none: it takes time to have passed*)
(* and a counter that has not gone back.                                   *)
Rates(records, counter, groupBy, i) ==
    IF Number(records[i], counter) = Null THEN {}
    ELSE LET delta(j)   == Number(records[i], counter) - Number(records[j], counter)
             elapsed(j) == records[i]["timestamp"] - records[j]["timestamp"]
         IN  {<<delta(j), elapsed(j)>> : j \in
                 {k \in Previous(records, counter, groupBy, i) :
                     elapsed(k) > 0 /\ delta(k) >= 0}}

(* The rates of all rows, <<row, field, rate>>; RateOf names the field that*)
(* the rate of a counter goes to.                                          *)
AllRates(records, counters, groupBy, RateOf) ==
    UNION {{<<i, RateOf[c], rate>> : rate \in Rates(records, c, groupBy, i)} :
              i \in DOMAIN records, c \in counters}

(* counter_rate_records: the rows with a rate, each with its rates. *)
CounterRateRecords(records, counters, groupBy, RateOf) ==
    LET rates     == AllRates(records, counters, groupBy, RateOf)
        fields(i) == {t[2] : t \in {u \in rates : u[1] = i}}
    IN  [i \in {t[1] : t \in rates} |->
            Update(records[i], [f \in fields(i) |->
                (CHOOSE t \in rates : t[1] = i /\ t[2] = f)[3]])]

-----------------------------------------------------------------------------
(* Graphs.  Records are a function from positions to rows.                 *)

Latest(positions, records) ==
    CHOOSE i \in positions : \A j \in positions \ {i} : Before(records, j, i)

(* _line_series_name: a series is of a group and a metric. *)
SeriesName(group, metric) == <<group, metric>>

(* The rows that a series has a point of. *)
Plotted(records, groupBy, s) ==
    {i \in DOMAIN records :
        SeriesGroup(records[i], groupBy) = s[1] /\ Number(records[i], s[2]) # Null}

(* line_graph: of the rows with one label, the last. *)
LineGraph(records, metrics, groupBy) ==
    LET plotted(i) == {m \in metrics : Number(records[i], m) # Null}
        dots(s, t) == {i \in Plotted(records, groupBy, s) : records[i]["timestamp"] = t}
    IN  [series  |-> [s \in UNION {{SeriesName(SeriesGroup(records[i], groupBy), m) :
                                        m \in plotted(i)} : i \in DOMAIN records} |->
                        [t \in {records[i]["timestamp"] : i \in Plotted(records, groupBy, s)} |->
                            Number(records[Latest(dots(s, t), records)], s[2])]],
         source  |-> Cardinality(DOMAIN records),
         dropped |-> Cardinality({i \in DOMAIN records : plotted(i) = {}})]

Aggregates == {"count", "sum", "avg", "min", "max", "latest"}

Total(values) == MapThenSumSet(LAMBDA i : values[i], DOMAIN values)

(* _aggregate_values, of a function from positions to values. *)
Aggregate(aggregate, values) ==
    CASE aggregate = "count"  -> Cardinality(DOMAIN values)
      [] aggregate = "sum"    -> Total(values)
      [] aggregate = "avg"    -> <<Total(values), Cardinality(DOMAIN values)>>
      [] aggregate = "min"    -> Min({values[i] : i \in DOMAIN values})
      [] aggregate = "max"    -> Max({values[i] : i \in DOMAIN values})
      [] aggregate = "latest" -> values[Max(DOMAIN values)]

(* bar_graph, not grouped: the rows that count; without a metric each      *)
(* counts one.                                                             *)
BarValue(row, metric) == IF metric = Null THEN 1 ELSE Number(row, metric)

Barred(records, x, metric) ==
    {i \in DOMAIN records :
        FieldValue(records[i], x) # Null /\ BarValue(records[i], metric) # Null}

BarGraph(records, x, metric, aggregate) ==
    LET barred  == Barred(records, x, metric)
        rows(l) == {i \in barred : FieldValue(records[i], x) = l}
    IN  [bars    |-> [l \in {FieldValue(records[i], x) : i \in barred} |->
                        Aggregate(aggregate, [i \in rows(l) |-> BarValue(records[i], metric)])],
         source  |-> Cardinality(DOMAIN records),
         dropped |-> Cardinality(DOMAIN records \ barred)]

-----------------------------------------------------------------------------
(* routeros_prepare_graph_records: the metrics to plot, the counters that  *)
(* they are made from.                                                     *)

CONSTANTS
    RateFields,     \* metric -> counter, ROUTEROS_GRAPH_RATE_FIELDS
    CounterFields   \* counter -> metric, ROUTEROS_GRAPH_COUNTER_FIELDS

(* Counters that are drawn as rates unless the caller says otherwise. *)
Converted(metrics, kind, samples, rate) ==
    IF kind = "line" /\ samples > 1 /\ rate THEN metrics \cap DOMAIN CounterFields
    ELSE {}

CountersOf(metrics, kind, samples, rate) ==
    {RateFields[m] : m \in metrics \cap DOMAIN RateFields}
    \cup Converted(metrics, kind, samples, rate)

OutputMetrics(metrics, kind, samples, rate) ==
    LET converted == Converted(metrics, kind, samples, rate)
    IN  (metrics \ converted) \cup {CounterFields[c] : c \in converted}
=============================================================================
